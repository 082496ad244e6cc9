--------------------------- MODULE FwdServiceProofs ---------------------------
(***************************************************************************)
(* Proofs about what forward mode ends up serving, whatever the order of   *)
(* joins, departures, queries for past samples and live samples: nobody    *)
(* that is gone, and everybody that stays.                                 *)
(***************************************************************************)
EXTENDS FwdDiscoveryProofs, SequenceTheorems

AllowedKeys(x) == {ke \in RemoteKeysOf(x) : is_allowed(ke)}

\* The last discovery sample on its way.
LastSample(x) == fwd_disco[x][Len(fwd_disco[x])]

-----------------------------------------------------------------------------
(* What becomes of the keys a remote endpoint is served on. *)

\* They are those of the routes to DDS, or of the routes from DDS.
LEMMA ServedByKind ==
    ASSUME IInv
    PROVE  /\ \A x \in RemoteWriter : ServedKeys(x) = {ke \in Key : x \in remote_routed_writers[ke]}
           /\ \A x \in RemoteReader : ServedKeys(x) = {ke \in Key : x \in remote_routed_readers[ke]}
BY RemoteAssumption DEF RemoteAssumption, IInv, TypeOK, ServedKeys

\* A sample of x changes only its own; a deletion ends them, and a put adds keys the
\* configuration allows, all of them but those where a creation may fail.
SampleServes(x, put) ==
    /\ \A y \in Remote \ {x} : ServedKeys(y)' = ServedKeys(y)
    /\ ~ put => ServedKeys(x)' = {}
    /\ put => /\ ServableKeys(x) \subseteq ServedKeys(x)'
              /\ ServedKeys(x)' \subseteq ServedKeys(x) \cup AllowedKeys(x)

\* What a put of a writer is routed on.
LEMMA PutWriterRoutes ==
    ASSUME NEW x \in RemoteWriter, PutWriter(x)
    PROVE  \E routed \in SUBSET AllowedKeys(x) :
                /\ ServableKeys(x) \subseteq routed
                /\ remote_routed_writers' = add_remote_routed_writer(x, routed)
                /\ UNCHANGED remote_routed_readers
<1> DEFINE lacking == lacking_writer(RemoteKeysOf(x))
<1>1. PICK outcome \in Outcomes(lacking, create_forwarding_dds_writer) : PutWriter(x)!(outcome)
    BY DEF PutWriter
<1> DEFINE outcome_of(ke) == IF ke \in lacking THEN outcome[ke] ELSE "created"
           routed == {ke \in RemoteKeysOf(x) :
                        try_add_route_to_dds(ke, TRUE, outcome_of(ke)) = "Routed"}
<1>2. /\ remote_routed_writers' = add_remote_routed_writer(x, routed)
      /\ UNCHANGED remote_routed_readers
    BY <1>1
<1>3. \A ke \in ServableKeys(x) : outcome_of(ke) = "created"
    BY DEF Outcomes, create_forwarding_dds_writer, ServableKeys
<1>4. ServableKeys(x) \subseteq routed
    <2> HIDE DEF outcome_of
    <2> QED
        BY <1>3 DEF ServableKeys, try_add_route_to_dds
<1>5. routed \in SUBSET AllowedKeys(x)
    BY DEF AllowedKeys, try_add_route_to_dds
<1> QED
    BY <1>2, <1>4, <1>5

\* And one of a reader.
LEMMA PutReaderRoutes ==
    ASSUME NEW x \in RemoteReader, PutReader(x)
    PROVE  \E routed \in SUBSET AllowedKeys(x) :
                /\ ServableKeys(x) \subseteq routed
                /\ remote_routed_readers' = add_remote_routed_reader(x, routed)
                /\ UNCHANGED remote_routed_writers
<1>1. PICK outcome \in Outcomes(RemoteKeysOf(x) \ routes_from_dds, create_forwarding_dds_reader) :
        PutReader(x)!(outcome)
    BY DEF PutReader
<1> DEFINE outcome_of(ke) == IF ke \in routes_from_dds THEN "created" ELSE outcome[ke]
           routed == {ke \in RemoteKeysOf(x) :
                        try_add_route_from_dds(ke, outcome_of(ke)) = "Routed"}
<1>2. /\ remote_routed_readers' = add_remote_routed_reader(x, routed)
      /\ UNCHANGED remote_routed_writers
    BY <1>1
<1>3. \A ke \in ServableKeys(x) : outcome_of(ke) = "created"
    BY DEF Outcomes, create_forwarding_dds_reader, ServableKeys
<1>4. ServableKeys(x) \subseteq routed
    <2> HIDE DEF outcome_of
    <2> QED
        BY <1>3 DEF ServableKeys, try_add_route_from_dds
<1>5. routed \in SUBSET AllowedKeys(x)
    BY DEF AllowedKeys, try_add_route_from_dds
<1> QED
    BY <1>2, <1>4, <1>5

\* The handler of a sample takes it, and has that effect.
LEMMA HandleSampleServes ==
    ASSUME IInv, IInv', NEW x \in Remote, HandleSample(x)
    PROVE  \E put \in BOOLEAN :
                /\ ReceiveSample(x, IF put THEN "put" ELSE "delete")
                /\ SampleServes(x, put)
<1>1. RemoteWriter \cap RemoteReader = {}
    BY RemoteAssumption DEF RemoteAssumption
<1>2. /\ remote_routed_writers \in [Key -> SUBSET RemoteWriter]
      /\ remote_routed_readers \in [Key -> SUBSET RemoteReader]
      /\ remote_routed_writers' \in [Key -> SUBSET RemoteWriter]
      /\ remote_routed_readers' \in [Key -> SUBSET RemoteReader]
    BY DEF IInv, TypeOK
<1>3. AllowedKeys(x) \subseteq Key
    BY RemoteKeysAreKeys DEF AllowedKeys
<1>4. ASSUME ReceiveSample(x, "put"), x \in RemoteWriter, PutWriter(x)
      PROVE  SampleServes(x, TRUE)
    <2>1. PICK routed \in SUBSET AllowedKeys(x) :
            /\ ServableKeys(x) \subseteq routed
            /\ remote_routed_writers' = add_remote_routed_writer(x, routed)
            /\ UNCHANGED remote_routed_readers
        BY <1>4, PutWriterRoutes
    <2>2. \A y \in Remote \ {x} : ServedKeys(y)' = ServedKeys(y)
        BY <2>1 DEF ServedKeys, add_remote_routed_writer
    <2>3. ServedKeys(x)' = ServedKeys(x) \cup routed
        BY <1>3, <2>1 DEF ServedKeys, add_remote_routed_writer
    <2> QED
        BY <2>1, <2>2, <2>3 DEF SampleServes
<1>5. ASSUME ReceiveSample(x, "put"), x \in RemoteReader, PutReader(x)
      PROVE  SampleServes(x, TRUE)
    <2>1. PICK routed \in SUBSET AllowedKeys(x) :
            /\ ServableKeys(x) \subseteq routed
            /\ remote_routed_readers' = add_remote_routed_reader(x, routed)
            /\ UNCHANGED remote_routed_writers
        BY <1>5, PutReaderRoutes
    <2>2. \A y \in Remote \ {x} : ServedKeys(y)' = ServedKeys(y)
        BY <2>1 DEF ServedKeys, add_remote_routed_reader
    <2>3. ServedKeys(x)' = ServedKeys(x) \cup routed
        BY <1>3, <2>1 DEF ServedKeys, add_remote_routed_reader
    <2> QED
        BY <2>1, <2>2, <2>3 DEF SampleServes
<1>6. ASSUME x \in RemoteWriter, DeleteWriter(x)
      PROVE  SampleServes(x, FALSE)
    <2>1. /\ remote_routed_writers' = remove_remote_routed_writers({x})
          /\ UNCHANGED remote_routed_readers
        BY <1>6 DEF DeleteWriter
    <2> QED
        BY <1>1, <1>2, <1>6, <2>1 DEF SampleServes, ServedKeys, remove_remote_routed_writers
<1>7. ASSUME x \in RemoteReader, DeleteReader(x)
      PROVE  SampleServes(x, FALSE)
    <2>1. /\ remote_routed_readers' = remove_remote_routed_readers({x})
          /\ UNCHANGED remote_routed_writers
        BY <1>7 DEF DeleteReader
    <2> QED
        BY <1>1, <1>2, <1>7, <2>1 DEF SampleServes, ServedKeys, remove_remote_routed_readers
<1> QED
    BY <1>4, <1>5, <1>6, <1>7 DEF HandleSample

\* A departure ends those of the plugin's endpoints, and no others.
LEMMA PluginLeftServes ==
    ASSUME IInv, NEW plugin, PluginLeft(plugin)
    PROVE  \A x \in Remote : ServedKeys(x)' = IF PluginOf[x] = plugin THEN {} ELSE ServedKeys(x)
<1>1. /\ remote_routed_writers' = remove_remote_routed_writers(EntitiesOf(plugin))
      /\ remote_routed_readers' = remove_remote_routed_readers(EntitiesOf(plugin))
    BY DEF PluginLeft
<1> QED
    BY <1>1 DEF ServedKeys, EntitiesOf, remove_remote_routed_writers, remove_remote_routed_readers

\* The remaining steps change none.
LEMMA OthersServe ==
    ASSUME UNCHANGED remote_vars
    PROVE  \A x \in Remote : ServedKeys(x)' = ServedKeys(x)
BY DEF remote_vars, ServedKeys

-----------------------------------------------------------------------------
(* The channels of samples. *)

\* Sending a sample to the end of a channel.
LEMMA SampleSent ==
    ASSUME TypeOK, NEW x \in Remote, NEW kind_of \in {"put", "delete"},
           fwd_disco'[x] = Append(fwd_disco[x], kind_of)
    PROVE  fwd_disco'[x] # <<>> /\ LastSample(x)' = kind_of
<1>1. fwd_disco[x] \in Seq({"put", "delete"})
    BY DEF TypeOK
<1> QED
    BY <1>1 DEF LastSample

\* Receiving one: the last sample stays the last one, until it is received.
LEMMA SampleReceived ==
    ASSUME TypeOK, NEW x \in Remote, NEW kind_of, ReceiveSample(x, kind_of)
    PROVE  /\ fwd_disco[x] # <<>>
           /\ fwd_disco'[x] # <<>> => LastSample(x)' = LastSample(x)
           /\ fwd_disco'[x] = <<>> => LastSample(x) = kind_of
           /\ \A y \in Remote \ {x} : fwd_disco'[y] = fwd_disco[y]
           /\ UNCHANGED <<plugins, remote_alive, group>>
<1>1. /\ fwd_disco \in [Remote -> Seq({"put", "delete"})]
      /\ fwd_disco[x] # <<>> /\ Head(fwd_disco[x]) = kind_of
      /\ fwd_disco'[x] = Tail(fwd_disco[x])
      /\ \A y \in Remote \ {x} : fwd_disco'[y] = fwd_disco[y]
      /\ UNCHANGED <<plugins, remote_alive, group>>
    BY DEF TypeOK, ReceiveSample
<1> DEFINE s == fwd_disco[x]
<1>2. s \in Seq({"put", "delete"}) /\ Len(s) \in Nat \ {0} /\ Head(s) = s[1]
    BY <1>1
<1>3. /\ Len(Tail(s)) = Len(s) - 1
      /\ \A i \in 1..(Len(s) - 1) : Tail(s)[i] = s[i + 1]
    BY <1>2
<1>4. Tail(s) # <<>> => Len(s) - 1 \in 1..(Len(s) - 1) /\ (Len(s) - 1) + 1 = Len(s)
    BY <1>2, <1>3
<1>5. Tail(s) = <<>> => Len(s) = 1
    <2>1. Len(<<>>) = 0
        OBVIOUS
    <2>2. Tail(s) = <<>> => Len(Tail(s)) = Len(<<>>)
        BY Zenon
    <2> HIDE DEF s
    <2> QED
        BY <1>2, <1>3, <2>1, <2>2
<1> QED
    BY <1>1, <1>2, <1>3, <1>4, <1>5 DEF LastSample

-----------------------------------------------------------------------------
(* Nobody that is gone is served.                                            *)

Stays(x) == PluginOf[x] \notin MayLeave

\* For the endpoints of plugins that stay, the last sample on its way tells what
\* exists; when there is none, what is served exists.
ReleasedInv ==
    \A x \in Remote : Stays(x) =>
        /\ fwd_disco[x] # <<>> =>
            /\ LastSample(x) = "put" <=> x \in remote_alive
            /\ PluginOf[x] \in plugins
        /\ fwd_disco[x] = <<>> /\ ServedKeys(x) # {} =>
            x \in remote_alive /\ PluginOf[x] \in plugins

\* What the handlers of group events do to the channels and the keys.
LEMMA GroupEventServes ==
    ASSUME IInv, HandleGroupEvent
    PROVE  /\ UNCHANGED <<plugins, remote_alive>>
           /\ group # <<>> /\ group' = Tail(group) /\ Head(group) \in GroupEvent
           /\ \A x \in Remote :
                IF Head(group).put
                THEN /\ ServedKeys(x)' = ServedKeys(x)
                     /\ fwd_disco'[x] = IF x \in past_samples(Head(group).plugin)
                                        THEN Append(fwd_disco[x], "put") ELSE fwd_disco[x]
                ELSE /\ ServedKeys(x)' = IF PluginOf[x] = Head(group).plugin
                                         THEN {} ELSE ServedKeys(x)
                     /\ fwd_disco'[x] = fwd_disco[x]
<1>1. /\ UNCHANGED <<plugins, remote_alive>>
      /\ group # <<>> /\ group' = Tail(group) /\ Head(group) \in GroupEvent
    BY GroupEventType DEF HandleGroupEvent, ReceiveGroupEvent, IInv
<1>2. CASE Head(group).put /\ PluginDetected(Head(group).plugin)
    <2>1. UNCHANGED remote_vars
        BY <1>2 DEF PluginDetected, tables
    <2>2. \A x \in Remote : ServedKeys(x)' = ServedKeys(x)
        BY <2>1, OthersServe
    <2> QED
        BY <1>1, <1>2, <2>2 DEF PluginDetected
<1>3. CASE ~ Head(group).put /\ PluginLeft(Head(group).plugin)
    <2>1. UNCHANGED fwd_disco
        BY <1>3 DEF PluginLeft
    <2> QED
        BY <1>1, <1>3, <2>1, PluginLeftServes
<1> QED
    BY <1>2, <1>3 DEF HandleGroupEvent

\* What the environment does to the channels of samples.
LEMMA PublishServes ==
    ASSUME IInv, NEW x \in Remote, NEW kind_of, Publish(x, kind_of)
    PROVE  /\ UNCHANGED <<plugins, group>>
           /\ \A y \in Remote : ServedKeys(y)' = ServedKeys(y)
           /\ \A y \in Remote \ {x} : fwd_disco'[y] = fwd_disco[y]
           /\ fwd_disco'[x] = IF PluginOf[x] \in plugins THEN Append(fwd_disco[x], kind_of)
                              ELSE fwd_disco[x]
<1>1. fwd_disco \in [Remote -> Seq({"put", "delete"})]
    BY DEF IInv, TypeOK
<1>2. /\ UNCHANGED <<plugins, group>> /\ UNCHANGED remote_vars
      /\ fwd_disco' = IF PluginOf[x] \in plugins
                      THEN [fwd_disco EXCEPT ![x] = Append(fwd_disco[x], kind_of)]
                      ELSE fwd_disco
    BY DEF Publish, tables
<1> QED
    BY <1>1, <1>2, OthersServe

\* The steps that touch neither the other plugins nor the routes.
OwnDomainStep ==
    /\ UNCHANGED zenoh_vars
    /\ \A x \in Remote : ServedKeys(x)' = ServedKeys(x)

\* Every step is one of these, for what is served.
LEMMA StepKinds ==
    ASSUME IInv, [Next]_vars
    PROVE  \/ OwnDomainStep
           \/ \E x \in Remote : RemoteAppears(x) \/ RemoteDisappears(x)
           \/ \E plugin \in Plugin : PluginJoins(plugin) \/ PluginLeaves(plugin)
           \/ \E x \in Remote : HandleSample(x)
           \/ HandleGroupEvent
<1>1. ASSUME UNCHANGED zenoh_vars, UNCHANGED remote_vars PROVE OwnDomainStep
    BY <1>1, OthersServe DEF OwnDomainStep
<1>2. ASSUME UNCHANGED tables PROVE UNCHANGED remote_vars
    BY <1>2 DEF tables
<1>3. CASE \E e \in Foreign : (Appear(e) \/ Update(e) \/ Disappear(e))
                                /\ UNCHANGED <<zenoh_vars, tables>>
    BY <1>1, <1>2, <1>3
<1>4. CASE \E e \in Entity : Listener(e)
    BY <1>1, <1>2, <1>4 DEF Listener
<1>5. CASE HandleEvent
    <2>1. UNCHANGED remote_vars
        <3>1. CASE HandlePublication
            BY <3>1 DEF HandlePublication, DiscoveredPublication, UndiscoveredPublication
        <3>2. CASE HandleSubscription
            <4>1. ASSUME NEW r \in Reader, DiscoveredSubscription(r) PROVE UNCHANGED remote_vars
                <5>1. PICK routed \in SUBSET Key, statuses \in [Slot -> RouteStatus] :
                        SubscriptionEffect(r, routed, statuses)
                    BY <4>1, DiscoveredSubscriptionEffect
                <5> QED
                    BY <5>1 DEF SubscriptionEffect
            <4>2. ASSUME NEW r, UndiscoveredSubscription(r) PROVE UNCHANGED remote_vars
                BY <4>2 DEF UndiscoveredSubscription
            <4> QED
                BY <3>2, <4>1, <4>2 DEF HandleSubscription
        <3>3. CASE HandleParticipant
            BY <3>3 DEF HandleParticipant
        <3> QED
            BY <1>5, <3>1, <3>2, <3>3 DEF HandleEvent
    <2> QED
        BY <1>1, <1>5, <2>1 DEF HandleEvent
<1>6. CASE UNCHANGED vars
    BY <1>1, <1>2, <1>6 DEF vars
<1> QED
    BY <1>3, <1>4, <1>5, <1>6 DEF Next, Environment

\* A step preserves it: what a sample tells is what exists, and what is queried exists.
LEMMA ReleasedStep ==
    ASSUME IInv, IInv', ReleasedInv, [Next]_vars
    PROVE  ReleasedInv'
<1> DEFINE Holds(y) ==
        /\ fwd_disco[y] # <<>> =>
            /\ LastSample(y) = "put" <=> y \in remote_alive
            /\ PluginOf[y] \in plugins
        /\ fwd_disco[y] = <<>> /\ ServedKeys(y) # {} =>
            y \in remote_alive /\ PluginOf[y] \in plugins
<1>1. TypeOK
    BY DEF IInv
<1>2. ASSUME NEW y \in Remote, Stays(y), fwd_disco'[y] = fwd_disco[y],
             ServedKeys(y)' \subseteq ServedKeys(y),
             y \in remote_alive <=> y \in remote_alive',
             PluginOf[y] \in plugins => PluginOf[y] \in plugins'
      PROVE  Holds(y)'
    BY <1>2 DEF ReleasedInv, LastSample
<1>3. SUFFICES ASSUME NEW y \in Remote, Stays(y) PROVE Holds(y)'
    BY DEF ReleasedInv
<1>4. Holds(y)
    BY <1>3 DEF ReleasedInv
<1>5. CASE OwnDomainStep
    BY <1>2, <1>3, <1>5 DEF OwnDomainStep, zenoh_vars
<1>6. ASSUME NEW x \in Remote, RemoteAppears(x) \/ RemoteDisappears(x) PROVE Holds(y)'
    <2>1. PICK kind_of \in {"put", "delete"} :
            /\ Publish(x, kind_of)
            /\ remote_alive' = IF kind_of = "put" THEN remote_alive \cup {x} ELSE remote_alive \ {x}
        BY <1>6 DEF RemoteAppears, RemoteDisappears
    <2>2. /\ UNCHANGED plugins
          /\ ServedKeys(y)' = ServedKeys(y)
          /\ y # x => fwd_disco'[y] = fwd_disco[y]
          /\ fwd_disco'[x] = IF PluginOf[x] \in plugins THEN Append(fwd_disco[x], kind_of)
                             ELSE fwd_disco[x]
        BY <1>3, <2>1, PublishServes
    <2>3. CASE y # x
        BY <1>2, <1>3, <2>1, <2>2, <2>3
    <2>4. CASE y = x /\ PluginOf[x] \in plugins
        <3>1. fwd_disco'[x] # <<>> /\ LastSample(x)' = kind_of
            BY <1>1, <2>2, <2>4, SampleSent
        <3> QED
            BY <2>1, <2>2, <2>4, <3>1
    <2>5. CASE y = x /\ PluginOf[x] \notin plugins
        <3>1. fwd_disco'[y] = <<>> /\ ServedKeys(y)' = {}
            BY <1>4, <2>2, <2>5
        <3> QED
            BY <3>1
    <2> QED
        BY <2>3, <2>4, <2>5
<1>7. ASSUME NEW plugin \in Plugin, PluginJoins(plugin) \/ PluginLeaves(plugin) PROVE Holds(y)'
    <2>1. UNCHANGED <<remote_alive, fwd_disco>> /\ UNCHANGED tables
        BY <1>7 DEF PluginJoins, PluginLeaves, GroupChange
    <2>2. ServedKeys(y)' = ServedKeys(y)
        BY <1>3, <2>1, OthersServe DEF tables
    <2>3. PluginOf[y] \in plugins => PluginOf[y] \in plugins'
        BY <1>3, <1>7 DEF PluginJoins, PluginLeaves, Stays
    <2> QED
        BY <1>2, <1>3, <2>1, <2>2, <2>3
<1>8. ASSUME NEW x \in Remote, HandleSample(x) PROVE Holds(y)'
    <2>1. PICK put \in BOOLEAN : /\ ReceiveSample(x, IF put THEN "put" ELSE "delete")
                                 /\ SampleServes(x, put)
        BY <1>8, HandleSampleServes
    <2> DEFINE kind_of == IF put THEN "put" ELSE "delete"
    <2>2. /\ fwd_disco[x] # <<>>
          /\ fwd_disco'[x] # <<>> => LastSample(x)' = LastSample(x)
          /\ fwd_disco'[x] = <<>> => LastSample(x) = kind_of
          /\ y # x => fwd_disco'[y] = fwd_disco[y]
          /\ UNCHANGED <<plugins, remote_alive>>
        BY <1>1, <1>3, <2>1, SampleReceived
    <2>3. CASE y # x
        <3>1. ServedKeys(y)' = ServedKeys(y)
            BY <1>3, <2>1, <2>3 DEF SampleServes
        <3> QED
            BY <1>2, <1>3, <2>2, <2>3, <3>1
    <2>4. CASE y = x
        <3>1. ~ put => ServedKeys(x)' = {}
            BY <2>1 DEF SampleServes
        <3> QED
            BY <1>4, <2>2, <2>4, <3>1
    <2> QED
        BY <2>3, <2>4
<1>9. CASE HandleGroupEvent
    <2> DEFINE plugin == Head(group).plugin
    <2>1. UNCHANGED <<plugins, remote_alive>>
        BY <1>9, GroupEventServes
    <2>2. CASE Head(group).put /\ y \in past_samples(plugin)
        <3>1. fwd_disco'[y] = Append(fwd_disco[y], "put")
            BY <1>3, <1>9, <2>2, GroupEventServes
        <3>2. y \in remote_alive /\ PluginOf[y] \in plugins
            BY <2>2 DEF past_samples, EntitiesOf
        <3>3. fwd_disco'[y] # <<>> /\ LastSample(y)' = "put"
            BY <1>1, <1>3, <3>1, SampleSent
        <3> QED
            BY <2>1, <3>2, <3>3
    <2>3. CASE ~ Head(group).put \/ y \notin past_samples(plugin)
        <3>1. fwd_disco'[y] = fwd_disco[y] /\ ServedKeys(y)' \subseteq ServedKeys(y)
            BY <1>3, <1>9, <2>3, GroupEventServes
        <3> QED
            BY <1>2, <1>3, <2>1, <3>1
    <2> QED
        BY <2>2, <2>3
<1> QED
    BY <1>5, <1>6, <1>7, <1>8, <1>9, StepKinds

\* Once all samples and group events are handled, no reference is left to a gone
\* endpoint of a plugin that stays, whatever plugins it shares its routes with
\* (run_fwd_discovery_mode).
THEOREM StayingReleasedAlways == Spec => []StayingReleased
<1>1. Init => ReleasedInv
    BY DEF Init, ReleasedInv, ServedKeys
<1>2. IInv /\ IInv' /\ ReleasedInv /\ [Next]_vars => ReleasedInv'
    BY ReleasedStep
<1>3. ReleasedInv => StayingReleased
    BY DEF ReleasedInv, StayingReleased, Released, QuietZenoh, Stays
<1> QED
    BY <1>1, <1>2, <1>3, Invariance, PTL DEF Spec

-----------------------------------------------------------------------------
(* Everybody that stays is served, where no creation fails.                  *)

\* The last group event about a plugin tells whether it is connected,
IsLastEvent(plugin, i) ==
    /\ group[i].plugin = plugin
    /\ \A j \in 1..Len(group) : j > i => group[j].plugin # plugin

EventPending(plugin) == \E i \in 1..Len(group) : group[i].plugin = plugin

MembersInv ==
    \A plugin \in Plugin, i \in 1..Len(group) :
        IsLastEvent(plugin, i) => (group[i].put <=> plugin \in plugins)

\* and an endpoint that exists is about to be queried with its plugin, or announced
\* by the last sample on its way, or served.
OnItsWay(x) ==
    \/ EventPending(PluginOf[x])
    \/ fwd_disco[x] # <<>> /\ LastSample(x) = "put"
    \/ fwd_disco[x] = <<>> /\ ServableKeys(x) \subseteq ServedKeys(x)

ServedInv ==
    \A x \in Remote : x \in remote_alive /\ PluginOf[x] \in plugins => OnItsWay(x)

\* A group event is sent.
LEMMA MembersSent ==
    ASSUME TypeOK, MembersInv, NEW plugin \in Plugin, NEW put \in BOOLEAN,
           group' = Append(group, [put |-> put, plugin |-> plugin]),
           plugins' = IF put THEN plugins \cup {plugin} ELSE plugins \ {plugin}
    PROVE  /\ MembersInv'
           /\ \A other : EventPending(other)' <=> EventPending(other) \/ other = plugin
<1> DEFINE event == [put |-> put, plugin |-> plugin]
<1>1. /\ Len(group) \in Nat /\ Len(group') = Len(group) + 1
      /\ \A i \in 1..Len(group) : group'[i] = group[i]
      /\ group'[Len(group) + 1] = event
    BY DEF TypeOK
<1>2. event.put = put /\ event.plugin = plugin
    OBVIOUS
<1> HIDE DEF event
<1>3. MembersInv'
    <2> SUFFICES ASSUME NEW other \in Plugin, NEW i \in 1..Len(group'), IsLastEvent(other, i)'
                 PROVE  group'[i].put <=> other \in plugins'
        BY DEF MembersInv
    <2>1. CASE other = plugin
        <3>1. i = Len(group) + 1
            BY <1>1, <1>2, <2>1 DEF IsLastEvent
        <3> QED
            BY <1>1, <1>2, <2>1, <3>1
    <2>2. CASE other # plugin
        <3>1. i \in 1..Len(group)
            BY <1>1, <1>2, <2>2 DEF IsLastEvent
        <3>2. IsLastEvent(other, i)
            BY <1>1, <3>1 DEF IsLastEvent
        <3>3. group[i].put <=> other \in plugins
            BY <3>1, <3>2 DEF MembersInv
        <3> QED
            BY <1>1, <2>2, <3>1, <3>3
    <2> QED
        BY <2>1, <2>2
<1>4. ASSUME NEW other
      PROVE  EventPending(other)' <=> EventPending(other) \/ other = plugin
    BY <1>1, <1>2 DEF EventPending
<1> QED
    BY <1>3, <1>4

\* A group event is received: when it was the last about its plugin it told the truth.
LEMMA MembersReceived ==
    ASSUME TypeOK, MembersInv, group # <<>>, group' = Tail(group), UNCHANGED plugins
    PROVE  /\ MembersInv'
           /\ \A plugin \in Plugin : EventPending(plugin) =>
                \/ EventPending(plugin)'
                \/ /\ Head(group).plugin = plugin
                   /\ Head(group).put <=> plugin \in plugins
<1>1. /\ Len(group) \in Nat \ {0} /\ Len(group') = Len(group) - 1
      /\ \A i \in 1..Len(group') : group'[i] = group[i + 1]
      /\ Head(group) = group[1]
    BY DEF TypeOK
<1>2. ASSUME NEW j \in 1..Len(group), j # 1
      PROVE  j - 1 \in 1..Len(group') /\ group'[j - 1] = group[j]
    BY <1>1, <1>2
<1>3. MembersInv'
    <2> SUFFICES ASSUME NEW plugin \in Plugin, NEW i \in 1..Len(group'), IsLastEvent(plugin, i)'
                 PROVE  group'[i].put <=> plugin \in plugins'
        BY DEF MembersInv
    <2>1. i + 1 \in 1..Len(group) /\ group'[i] = group[i + 1]
        BY <1>1
    <2>2. ASSUME NEW j \in 1..Len(group), j > i + 1
          PROVE  group[j].plugin # plugin
        <3>1. j - 1 \in 1..Len(group') /\ j - 1 > i /\ group'[j - 1] = group[j]
            BY <1>2, <2>2
        <3> QED
            BY <3>1 DEF IsLastEvent
    <2>3. IsLastEvent(plugin, i + 1)
        BY <2>1, <2>2 DEF IsLastEvent
    <2> QED
        BY <2>1, <2>3 DEF MembersInv
<1>4. ASSUME NEW plugin \in Plugin, EventPending(plugin), ~ EventPending(plugin)'
      PROVE  /\ Head(group).plugin = plugin
             /\ Head(group).put <=> plugin \in plugins
    <2>1. \A j \in 1..Len(group) : j # 1 => group[j].plugin # plugin
        BY <1>2, <1>4 DEF EventPending
    <2>2. 1 \in 1..Len(group) /\ group[1].plugin = plugin
        BY <1>1, <1>4, <2>1 DEF EventPending
    <2>3. IsLastEvent(plugin, 1)
        BY <2>1, <2>2 DEF IsLastEvent
    <2> QED
        BY <1>1, <2>2, <2>3 DEF MembersInv
<1> QED
    BY <1>3, <1>4

\* A step preserves both.
LEMMA ServedStep ==
    ASSUME IInv, IInv', MembersInv, ServedInv, [Next]_vars
    PROVE  MembersInv' /\ ServedInv'
<1>1. TypeOK
    BY DEF IInv
<1>2. ASSUME UNCHANGED <<group, plugins>>
      PROVE  MembersInv' /\ \A plugin : EventPending(plugin) => EventPending(plugin)'
    BY <1>2 DEF MembersInv, IsLastEvent, EventPending
<1>3. ASSUME NEW y \in Remote, OnItsWay(y), fwd_disco'[y] = fwd_disco[y],
             ServedKeys(y)' = ServedKeys(y),
             EventPending(PluginOf[y]) => EventPending(PluginOf[y])'
      PROVE  OnItsWay(y)'
    BY <1>3 DEF OnItsWay, LastSample, ServableKeys
<1>4. CASE OwnDomainStep
    <2>1. UNCHANGED <<plugins, remote_alive, fwd_disco, group>>
          /\ \A y \in Remote : ServedKeys(y)' = ServedKeys(y)
        BY <1>4 DEF OwnDomainStep, zenoh_vars
    <2> QED
        BY <1>2, <1>3, <2>1 DEF ServedInv
<1>5. ASSUME NEW x \in Remote, RemoteAppears(x) \/ RemoteDisappears(x)
      PROVE  MembersInv' /\ ServedInv'
    <2>1. PICK kind_of \in {"put", "delete"} :
            /\ Publish(x, kind_of)
            /\ remote_alive' = IF kind_of = "put" THEN remote_alive \cup {x} ELSE remote_alive \ {x}
        BY <1>5 DEF RemoteAppears, RemoteDisappears
    <2>2. /\ UNCHANGED <<plugins, group>>
          /\ \A y \in Remote : ServedKeys(y)' = ServedKeys(y)
          /\ \A y \in Remote \ {x} : fwd_disco'[y] = fwd_disco[y]
          /\ fwd_disco'[x] = IF PluginOf[x] \in plugins THEN Append(fwd_disco[x], kind_of)
                             ELSE fwd_disco[x]
        BY <2>1, PublishServes
    <2>3. ASSUME NEW y \in Remote, y \in remote_alive', PluginOf[y] \in plugins'
          PROVE  OnItsWay(y)'
        <3>1. CASE y # x
            BY <1>2, <1>3, <2>1, <2>2, <2>3, <3>1 DEF ServedInv
        <3>2. CASE y = x
            <4>1. kind_of = "put" /\ fwd_disco'[x] = Append(fwd_disco[x], kind_of)
                BY <2>1, <2>2, <2>3, <3>2
            <4>2. fwd_disco'[x] # <<>> /\ LastSample(x)' = "put"
                BY <1>1, <4>1, SampleSent
            <4> QED
                BY <3>2, <4>2 DEF OnItsWay
        <3> QED
            BY <3>1, <3>2
    <2> QED
        BY <1>2, <2>2, <2>3 DEF ServedInv
<1>6. ASSUME NEW plugin \in Plugin, PluginJoins(plugin) \/ PluginLeaves(plugin)
      PROVE  MembersInv' /\ ServedInv'
    <2>1. UNCHANGED <<remote_alive, fwd_disco>> /\ UNCHANGED tables
        BY <1>6 DEF PluginJoins, PluginLeaves, GroupChange
    <2>2. PICK put \in BOOLEAN :
            /\ group' = Append(group, [put |-> put, plugin |-> plugin])
            /\ plugins' = IF put THEN plugins \cup {plugin} ELSE plugins \ {plugin}
        BY <1>6 DEF PluginJoins, PluginLeaves, GroupChange
    <2>3. /\ MembersInv'
          /\ \A other : EventPending(other)' <=> EventPending(other) \/ other = plugin
        BY <1>1, <2>2, MembersSent
    <2>4. \A y \in Remote : ServedKeys(y)' = ServedKeys(y)
        BY <2>1, OthersServe DEF tables
    <2>5. ASSUME NEW y \in Remote, y \in remote_alive', PluginOf[y] \in plugins'
          PROVE  OnItsWay(y)'
        <3>1. CASE PluginOf[y] = plugin
            BY <2>3, <3>1 DEF OnItsWay
        <3>2. CASE PluginOf[y] # plugin
            <4>1. OnItsWay(y)
                BY <2>1, <2>2, <2>5, <3>2 DEF ServedInv
            <4> QED
                BY <1>3, <2>1, <2>3, <2>4, <4>1
        <3> QED
            BY <3>1, <3>2
    <2> QED
        BY <2>3, <2>5 DEF ServedInv
<1>7. ASSUME NEW x \in Remote, HandleSample(x)
      PROVE  MembersInv' /\ ServedInv'
    <2>1. PICK put \in BOOLEAN : /\ ReceiveSample(x, IF put THEN "put" ELSE "delete")
                                 /\ SampleServes(x, put)
        BY <1>7, HandleSampleServes
    <2> DEFINE kind_of == IF put THEN "put" ELSE "delete"
    <2>2. /\ fwd_disco[x] # <<>>
          /\ fwd_disco'[x] # <<>> => LastSample(x)' = LastSample(x)
          /\ fwd_disco'[x] = <<>> => LastSample(x) = kind_of
          /\ \A y \in Remote \ {x} : fwd_disco'[y] = fwd_disco[y]
          /\ UNCHANGED <<plugins, remote_alive, group>>
        BY <1>1, <2>1, SampleReceived
    <2>3. ASSUME NEW y \in Remote, y \in remote_alive', PluginOf[y] \in plugins'
          PROVE  OnItsWay(y)'
        <3>1. OnItsWay(y)
            BY <2>2, <2>3 DEF ServedInv
        <3>2. CASE y # x
            <4>1. ServedKeys(y)' = ServedKeys(y)
                BY <2>1, <3>2 DEF SampleServes
            <4> QED
                BY <1>2, <1>3, <2>2, <3>1, <3>2, <4>1
        <3>3. CASE y = x /\ EventPending(PluginOf[x])
            BY <1>2, <2>2, <3>3 DEF OnItsWay
        <3>4. CASE y = x /\ LastSample(x) = "put"
            <4>1. put => ServableKeys(x) \subseteq ServedKeys(x)'
                BY <2>1 DEF SampleServes
            <4> QED
                BY <2>2, <3>4, <4>1 DEF OnItsWay, ServableKeys
        <3> QED
            BY <2>2, <3>1, <3>2, <3>3, <3>4 DEF OnItsWay
    <2> QED
        BY <1>2, <2>2, <2>3 DEF ServedInv
<1>8. CASE HandleGroupEvent
    <2> DEFINE plugin == Head(group).plugin
    <2>1. /\ UNCHANGED <<plugins, remote_alive>>
          /\ group # <<>> /\ group' = Tail(group) /\ plugin \in Plugin
        BY <1>8, GroupEventServes DEF GroupEvent
    <2>2. /\ MembersInv'
          /\ \A other \in Plugin : EventPending(other) =>
                \/ EventPending(other)'
                \/ plugin = other /\ (Head(group).put <=> other \in plugins)
        BY <1>1, <2>1, MembersReceived
    <2>3. EventPending(plugin)
        <3>1. Len(group) \in Nat \ {0} /\ Head(group) = group[1]
            BY <1>1, <2>1 DEF TypeOK
        <3> QED
            BY <3>1 DEF EventPending
    <2>4. ASSUME NEW y \in Remote, y \in remote_alive', PluginOf[y] \in plugins'
          PROVE  OnItsWay(y)'
        <3>1. OnItsWay(y) /\ PluginOf[y] \in Plugin
            BY <2>1, <2>4, RemoteAssumption DEF ServedInv, RemoteAssumption
        <3>2. CASE EventPending(PluginOf[y])'
            BY <3>2 DEF OnItsWay
        <3>3. CASE PluginOf[y] = plugin /\ ~ EventPending(PluginOf[y])'
            <4>1. Head(group).put /\ y \in past_samples(plugin)
                BY <2>1, <2>2, <2>3, <2>4, <3>3 DEF past_samples, EntitiesOf
            <4>2. fwd_disco'[y] = Append(fwd_disco[y], "put")
                BY <1>8, <4>1, GroupEventServes
            <4>3. fwd_disco'[y] # <<>> /\ LastSample(y)' = "put"
                BY <1>1, <4>2, SampleSent
            <4> QED
                BY <4>3 DEF OnItsWay
        <3>4. CASE PluginOf[y] # plugin /\ ~ EventPending(PluginOf[y])'
            <4>1. ~ EventPending(PluginOf[y])
                BY <2>2, <3>1, <3>4
            <4>2. y \notin past_samples(plugin)
                BY <3>4 DEF past_samples, EntitiesOf
            <4>3. fwd_disco'[y] = fwd_disco[y] /\ ServedKeys(y)' = ServedKeys(y)
                BY <1>8, <3>4, <4>2, GroupEventServes
            <4> QED
                BY <1>3, <3>1, <4>1, <4>3
        <3> QED
            BY <3>2, <3>3, <3>4
    <2> QED
        BY <2>2, <2>4 DEF ServedInv
<1> QED
    BY <1>4, <1>5, <1>6, <1>7, <1>8, StepKinds

\* Once all samples and group events are handled each endpoint of a connected plugin
\* is served on all its allowed keys but those where a creation may fail, however
\* often plugins join and leave and wherever the answers to the queries for past
\* samples come between the live samples (run_fwd_discovery_mode).
THEOREM QuiescentServedAlways == Spec => []QuiescentServed
<1>1. Init => MembersInv /\ ServedInv
    <2> SUFFICES ASSUME Init PROVE MembersInv /\ ServedInv
        OBVIOUS
    <2>1. group = <<>> /\ remote_alive = {} /\ 1..Len(group) = {}
        BY DEF Init
    <2> QED
        BY <2>1 DEF MembersInv, ServedInv
<1>2. IInv /\ IInv' /\ MembersInv /\ ServedInv /\ [Next]_vars => MembersInv' /\ ServedInv'
    BY ServedStep
<1>3. IInv /\ ServedInv => QuiescentServed
    <2> SUFFICES ASSUME IInv, ServedInv, QuietZenoh, NEW x \in remote_alive,
                        PluginOf[x] \in plugins
                 PROVE  ServableKeys(x) \subseteq ServedKeys(x)
        BY DEF QuiescentServed
    <2>1. x \in Remote
        BY DEF IInv, TypeOK
    <2>2. group = <<>> /\ Len(group) = 0 /\ 1..Len(group) = {} /\ fwd_disco[x] = <<>>
        BY <2>1 DEF QuietZenoh
    <2> QED
        BY <2>1, <2>2 DEF ServedInv, OnItsWay, EventPending
<1> QED
    BY <1>1, <1>2, <1>3, Invariance, PTL DEF Spec

-----------------------------------------------------------------------------
(* What the DDS domain sees of the other plugins' domains.                   *)

\* The routes list endpoints on keys of their own, which the configuration allows.
AllowedInv == \A x \in Remote : ServedKeys(x) \subseteq AllowedKeys(x)

LEMMA AllowedStep ==
    ASSUME IInv, IInv', AllowedInv, [Next]_vars
    PROVE  AllowedInv'
<1>1. ASSUME \A x \in Remote : ServedKeys(x)' \subseteq ServedKeys(x) PROVE AllowedInv'
    BY <1>1 DEF AllowedInv, AllowedKeys
<1>2. CASE OwnDomainStep
    BY <1>1, <1>2 DEF OwnDomainStep
<1>3. ASSUME NEW x \in Remote, RemoteAppears(x) \/ RemoteDisappears(x) PROVE AllowedInv'
    <2>1. UNCHANGED remote_vars
        BY <1>3 DEF RemoteAppears, RemoteDisappears, Publish, tables
    <2> QED
        BY <1>1, <2>1, OthersServe
<1>4. ASSUME NEW plugin \in Plugin, PluginJoins(plugin) \/ PluginLeaves(plugin) PROVE AllowedInv'
    <2>1. UNCHANGED remote_vars
        BY <1>4 DEF PluginJoins, PluginLeaves, GroupChange, tables
    <2> QED
        BY <1>1, <2>1, OthersServe
<1>5. ASSUME NEW x \in Remote, HandleSample(x) PROVE AllowedInv'
    <2>1. PICK put \in BOOLEAN : SampleServes(x, put)
        BY <1>5, HandleSampleServes
    <2>2. \A y \in Remote : ServedKeys(y)' \subseteq ServedKeys(y) \cup AllowedKeys(y)
        BY <2>1 DEF SampleServes
    <2> QED
        BY <2>2 DEF AllowedInv, AllowedKeys
<1>6. CASE HandleGroupEvent
    <2>1. \A x \in Remote : ServedKeys(x)' \subseteq ServedKeys(x)
        BY <1>6, GroupEventServes
    <2> QED
        BY <1>1, <2>1
<1> QED
    BY <1>2, <1>3, <1>4, <1>5, <1>6, StepKinds

\* No remote endpoint is ever routed on a key that is not one of its own or that the
\* configuration excludes (try_add_route_from_dds, try_add_route_to_dds).
THEOREM ServedKeysAllowed == Spec => []AllowedInv
<1>1. Init => AllowedInv
    BY DEF Init, AllowedInv, ServedKeys
<1>2. IInv /\ IInv' /\ AllowedInv /\ [Next]_vars => AllowedInv'
    BY AllowedStep
<1> QED
    BY <1>1, <1>2, Invariance, PTL DEF Spec

\* The endpoints of one kind that exist behind a connected plugin and that the
\* configuration allows on ke.
Called(of, ke) ==
    {x \in of \cap remote_alive : PluginOf[x] \in plugins /\ ke \in AllowedKeys(x)}

\* The bridge has a DDS writer, or reader, where such an endpoint calls for one, and,
\* where no endpoint is of a plugin that may leave, nowhere else.
QuiescentProxies ==
    QuietZenoh => \A ke \in Key :
        /\ ke \notin MayFail =>
            /\ Called(RemoteWriter, ke) # {} => OwnWriter(ke) \in alive
            /\ Called(RemoteReader, ke) # {} => OwnReader(ke) \in alive
        /\ (\A x \in Remote : ke \in RemoteKeysOf(x) => Stays(x)) =>
            /\ OwnWriter(ke) \in alive => Called(RemoteWriter, ke) # {}
            /\ OwnReader(ke) \in alive => Called(RemoteReader, ke) # {}

\* Once all samples and group events are handled, the bridge's endpoints in its DDS
\* domain stand for the endpoints of the other plugins' domains: each of those has
\* the bridge's one on its keys, and none is left without (run_fwd_discovery_mode).
THEOREM QuiescentProxiesAlways == Spec => []QuiescentProxies
<1>1. IInv /\ AllowedInv /\ QuiescentServed /\ StayingReleased => QuiescentProxies
    <2> SUFFICES ASSUME IInv, AllowedInv, QuiescentServed, StayingReleased, QuietZenoh,
                        NEW ke \in Key
                 PROVE  /\ ke \notin MayFail =>
                            /\ Called(RemoteWriter, ke) # {} => OwnWriter(ke) \in alive
                            /\ Called(RemoteReader, ke) # {} => OwnReader(ke) \in alive
                        /\ (\A x \in Remote : ke \in RemoteKeysOf(x) => Stays(x)) =>
                            /\ OwnWriter(ke) \in alive => Called(RemoteWriter, ke) # {}
                            /\ OwnReader(ke) \in alive => Called(RemoteReader, ke) # {}
        BY DEF QuiescentProxies
    <2>1. /\ remote_routed_writers[ke] \subseteq RemoteWriter
          /\ remote_routed_readers[ke] \subseteq RemoteReader
          /\ dds_reader[ke] \in DdsEndpoint \cup {NoEntity, BadEntity}
        BY DEF IInv, TypeOK, TablesTypeOK
    <2>2. /\ OwnWriter(ke) \in alive <=> remote_routed_writers[ke] # {}
          /\ OwnReader(ke) \in alive => remote_routed_readers[ke] # {}
          /\ remote_routed_readers[ke] # {} /\ ke \notin MayFail => OwnReader(ke) \in alive
        <3>1. OwnWriter(ke) \in alive <=> remote_routed_writers[ke] # {}
            BY DEF IInv, ToDdsInv
        <3>2. remote_routed_readers[ke] # {} <=> dds_reader[ke] # NoEntity
            BY DEF IInv, FromDdsInv
        <3>3. NoEntity \notin DdsEndpoint
            BY RoutesAssumption DEF RoutesAssumption, DdsEndpoint
        <3> QED
            BY <2>1, <3>1, <3>2, <3>3 DEF IInv, FromDdsInv
    <2>3. ASSUME ke \notin MayFail, NEW x \in Remote, x \in remote_alive, PluginOf[x] \in plugins,
                 ke \in AllowedKeys(x)
          PROVE  x \in remote_routed_writers[ke] \cup remote_routed_readers[ke]
        BY <2>3 DEF QuiescentServed, ServableKeys, AllowedKeys, ServedKeys
    <2>4. ke \notin MayFail =>
            /\ Called(RemoteWriter, ke) # {} => OwnWriter(ke) \in alive
            /\ Called(RemoteReader, ke) # {} => OwnReader(ke) \in alive
        BY <2>1, <2>2, <2>3, RemoteAssumption DEF RemoteAssumption, Called, Remote
    <2>5. ASSUME \A x \in Remote : ke \in RemoteKeysOf(x) => Stays(x),
                 NEW x \in Remote, x \in remote_routed_writers[ke] \cup remote_routed_readers[ke]
          PROVE  x \in remote_alive /\ PluginOf[x] \in plugins /\ ke \in AllowedKeys(x)
        <3>1. ke \in ServedKeys(x) /\ ke \in AllowedKeys(x)
            BY <2>5 DEF ServedKeys, AllowedInv
        <3>2. PluginOf[x] \notin MayLeave
            BY <2>5, <3>1 DEF AllowedKeys, Stays
        <3> QED
            BY <3>1, <3>2 DEF StayingReleased, Released
    <2>6. (\A x \in Remote : ke \in RemoteKeysOf(x) => Stays(x)) =>
            /\ OwnWriter(ke) \in alive => Called(RemoteWriter, ke) # {}
            /\ OwnReader(ke) \in alive => Called(RemoteReader, ke) # {}
        BY <2>1, <2>2, <2>5 DEF Called, Remote
    <2> QED
        BY <2>4, <2>6
<1> QED
    BY <1>1, Invariance, ServedKeysAllowed, QuiescentServedAlways, StayingReleasedAlways, PTL

-----------------------------------------------------------------------------
(* A route with a remote writer lists all its local readers.                 *)

\* The code looks local readers up by topic and partition, the routes by key: where
\* names do not collide, a reader found by its key is found by these as well.
KeysTell ==
    \A r \in Reader, x \in RemoteWriter : \A p \in RemoteSlotsOf(x) :
        RemoteKeyFor(x, p) \in KeysOf(r) =>
            TopicOf[r] = RemoteTopicOf[x] /\ p \in SlotsOf(r)

\* Names as sequences of chunks.
Names == Seq(STRING)

\* The chunks of a key.
Joins(ke, s, p, t) ==
    /\ Len(s) \in Nat /\ Len(p) \in Nat /\ Len(t) \in Nat
    /\ Len(ke) = Len(s) + Len(p) + Len(t)
    /\ \A i \in 1 .. Len(p) : ke[Len(s) + i] = p[i]
    /\ \A i \in 1 .. Len(t) : ke[Len(s) + Len(p) + i] = t[i]

LEMMA KeyParts ==
    ASSUME NEW s \in Names, NEW p \in Names, NEW t \in Names
    PROVE  Joins(topic_to_keyexpr(t, s, p), s, p, t)
<1> DEFINE k == Len(s)
           l == Len(p)
           n == Len(t)
           front == s \o p
           ke == front \o t
<1>1. k \in Nat /\ l \in Nat /\ n \in Nat
    BY DEF Names
<1>2. /\ front \in Names /\ Len(front) = k + l
      /\ \A i \in 1 .. k + l : front[i] = IF i <= k THEN s[i] ELSE p[i - k]
    BY ConcatProperties DEF Names
<1> HIDE DEF front
<1>3. /\ Len(ke) = (k + l) + n
      /\ \A i \in 1 .. (k + l) + n : ke[i] = IF i <= k + l THEN front[i] ELSE t[i - (k + l)]
    <2>1. Len(front \o t) = Len(front) + n
        BY <1>2, ConcatProperties DEF Names
    <2>2. \A i \in 1 .. Len(front) + n :
            (front \o t)[i] = IF i <= Len(front) THEN front[i] ELSE t[i - Len(front)]
        BY <1>2, ConcatProperties DEF Names
    <2> HIDE DEF k, l, n
    <2> QED
        BY <1>1, <1>2, <2>1, <2>2
<1> HIDE DEF k, l, n, ke
<1>4. ASSUME NEW i \in 1 .. l PROVE ke[k + i] = p[i]
    <2>1. k + i \in 1 .. k + l /\ k + i \in 1 .. (k + l) + n /\ ~ k + i <= k /\ (k + i) - k = i
        BY <1>1
    <2> QED
        BY <1>2, <1>3, <2>1
<1>5. ASSUME NEW i \in 1 .. n PROVE ke[(k + l) + i] = t[i]
    <2>1. /\ (k + l) + i \in 1 .. (k + l) + n
          /\ ~ (k + l) + i <= k + l /\ ((k + l) + i) - (k + l) = i
        BY <1>1
    <2> QED
        BY <1>3, <2>1
<1>6. ke = topic_to_keyexpr(t, s, p)
    BY DEF ke, front, topic_to_keyexpr
<1> QED
    BY <1>1, <1>3, <1>4, <1>5, <1>6 DEF k, l, n, Joins

\* It can be read in one way only, when the length of the topic is known, and that of
\* the scope or of the partition.
LEMMA KeyReadOneWay ==
    ASSUME NEW s \in Names, NEW z \in Names, NEW p \in Names, NEW q \in Names,
           NEW t \in Names, NEW u \in Names
    PROVE  /\ topic_to_keyexpr(t, s, p) = topic_to_keyexpr(u, z, q)
           /\ Len(t) = Len(u)
           /\ Len(s) = Len(z) \/ Len(p) = Len(q)
           => p = q /\ t = u
<1>1. Joins(topic_to_keyexpr(t, s, p), s, p, t) /\ Joins(topic_to_keyexpr(u, z, q), z, q, u)
    BY KeyParts
<1> SUFFICES ASSUME NEW ke, Joins(ke, s, p, t), Joins(ke, z, q, u),
                    Len(t) = Len(u), Len(s) = Len(z) \/ Len(p) = Len(q)
             PROVE  p = q /\ t = u
    BY <1>1
<1>2. Len(s) = Len(z) /\ Len(p) = Len(q)
    BY DEF Joins
<1>3. \A i \in 1 .. Len(p) : p[i] = q[i]
    BY <1>2 DEF Joins
<1>4. \A i \in 1 .. Len(t) : t[i] = u[i]
    BY <1>2 DEF Joins
<1> QED
    BY <1>2, <1>3, <1>4, SeqEqual DEF Names

\* All topics have as many chunks, as those of ROS do (rt/chatter); and all bridges
\* have one scope, the partitions being any, or no endpoint has a partition, the
\* scopes being any.
TellingNames ==
    /\ Scopes \subseteq Names /\ Slot \subseteq Names /\ Topic \subseteq Names
    /\ \A t, u \in Topic : Len(t) = Len(u)
    /\ RemoteScope \subseteq {Scope} \/ Partition = {}

\* Then a key tells the topic and partition it was made of (topic_to_keyexpr).
THEOREM TellingNamesTell ==
    ASSUME TellingNames
    PROVE  KeysTell
<1> SUFFICES ASSUME NEW r \in Reader, NEW x \in RemoteWriter, NEW p \in RemoteSlotsOf(x),
                    NEW q \in SlotsOf(r), RemoteKeyFor(x, p) = KeyFor(r, q)
             PROVE  TopicOf[r] = RemoteTopicOf[x] /\ p = q
    BY DEF KeysTell, KeysOf
<1> DEFINE scope == RemoteScopeOf[PluginOf[x]]
<1>1. scope \in Scopes /\ Scope \in Scopes
    BY RemoteAssumption DEF RemoteAssumption, Remote, Scopes
<1>2. TopicOf[r] \in Topic /\ RemoteTopicOf[x] \in Topic
    BY EntitiesAssumption, RemoteAssumption
       DEF EntitiesAssumption, RemoteAssumption, Remote, Endpoint
<1>3. p \in Slot /\ q \in Slot
    BY EntitiesAssumption, RemoteAssumption
       DEF EntitiesAssumption, RemoteAssumption, Remote, Endpoint, SlotsOf, RemoteSlotsOf, Slot
<1>4. scope = Scope \/ p = q
    BY <1>1, <1>3 DEF TellingNames, Scopes, Slot
<1>5. topic_to_keyexpr(RemoteTopicOf[x], scope, p) = topic_to_keyexpr(TopicOf[r], Scope, q)
    BY DEF RemoteKeyFor, KeyFor
<1>6. /\ scope \in Names /\ Scope \in Names /\ p \in Names /\ q \in Names
      /\ RemoteTopicOf[x] \in Names /\ TopicOf[r] \in Names
      /\ Len(RemoteTopicOf[x]) = Len(TopicOf[r])
    BY <1>1, <1>2, <1>3 DEF TellingNames
<1> HIDE DEF scope
<1>7. Len(scope) = Len(Scope) \/ Len(p) = Len(q)
    BY <1>4
<1> QED
    <2> DEFINE t == RemoteTopicOf[x]
               u == TopicOf[r]
    <2>1. t \in Names /\ u \in Names /\ Len(t) = Len(u)
        BY <1>6
    <2>2. topic_to_keyexpr(t, scope, p) = topic_to_keyexpr(u, Scope, q)
        BY <1>5
    <2> HIDE DEF t, u
    <2>3. p = q /\ t = u
        BY <1>6, <1>7, <2>1, <2>2, KeyReadOneWay, SMTT(30)
    <2> QED
        BY <2>3 DEF t, u

\* A reader that is discovered again joins the routes of remote writers, which exist
\* and are allowed.  Only that all readers are listed needs names that do not collide.
ListedInv ==
    /\ \A ke \in Key : remote_routed_writers[ke] # {} => is_allowed(ke)
    /\ ListedExist
    /\ KeysTell => ReadersListed

\* A reader of a key is on a topic and partition that give it, in this bridge's scope.
LEMMA OwnKeyIsAbout ==
    ASSUME NEW ke
    PROVE  ReadersOf(ke) \subseteq ReadersAbout(ke)
BY DEF ReadersOf, ReadersAbout, KeysOf, KeyFor, Scopes

\* The routes a step does not touch list who they did.
LEMMA ListedSame ==
    ASSUME ListedInv, UNCHANGED <<discovered_readers, local_routed_readers>>,
           \A ke \in Key : remote_routed_writers'[ke] \subseteq remote_routed_writers[ke]
    PROVE  ListedInv'
<1>1. \A ke \in Key : ReadersOf(ke)' = ReadersOf(ke) /\ ReadersAbout(ke)' = ReadersAbout(ke)
    BY DEF ReadersOf, ReadersAbout
<1>2. \A ke \in Key : remote_routed_writers'[ke] # {} => remote_routed_writers[ke] # {}
    OBVIOUS
<1> QED
    BY <1>1, <1>2 DEF ListedInv, ListedExist, ReadersListed

\* A local reader is discovered.
LEMMA ListedDiscovered ==
    ASSUME IInv, ListedInv, NEW r \in Reader, DiscoveredSubscription(r)
    PROVE  ListedInv'
<1>1. PICK outcome \in Outcomes(KeysOf(r) \ routes_to_dds, create_forwarding_dds_writer) :
        DiscoveredSubscription(r)!(outcome)
    BY DEF DiscoveredSubscription
<1> DEFINE outcome_of(ke) == IF ke \in routes_to_dds THEN "created" ELSE outcome[ke]
           status(ke) == try_add_route_to_dds(ke, FALSE, outcome_of(ke))
           routed == {ke \in KeysOf(r) : status(ke) = "Routed"}
<1>2. /\ local_routed_readers' = add_local_routed_reader(r, routed)
      /\ discovered_readers' = discovered_readers \cup {r}
      /\ UNCHANGED remote_routed_writers
    BY <1>1 DEF remote_vars
<1>3. \A ke \in Key : remote_routed_writers[ke] # {} => ke \in routes_to_dds /\ is_allowed(ke)
    BY DEF IInv, ToDdsInv, ListedInv
<1>4. \A ke \in KeysOf(r) : ke \in routes_to_dds /\ is_allowed(ke) => ke \in routed
    BY DEF try_add_route_to_dds
<1>5. routed \in SUBSET KeysOf(r)
    OBVIOUS
<1> HIDE DEF routed
<1>6. \A ke \in Key :
        /\ ReadersOf(ke)' = ReadersOf(ke) \cup (IF ke \in KeysOf(r) THEN {r} ELSE {})
        /\ ReadersAbout(ke) \subseteq ReadersAbout(ke)'
        /\ ke \in KeysOf(r) => r \in ReadersAbout(ke)'
    <2>1. \A ke \in Key : ReadersOf(ke)' = ReadersOf(ke) \cup (IF ke \in KeysOf(r) THEN {r} ELSE {})
        BY <1>2 DEF ReadersOf
    <2>2. \A ke \in Key : ReadersAbout(ke) \subseteq ReadersAbout(ke)'
        BY <1>2 DEF ReadersAbout
    <2>3. \A ke \in KeysOf(r) : r \in ReadersAbout(ke)'
        BY <1>2 DEF ReadersAbout, KeysOf, KeyFor, Scopes
    <2> QED
        BY <2>1, <2>2, <2>3
<1>7. \A ke \in Key : local_routed_readers'[ke] =
            local_routed_readers[ke] \cup (IF ke \in routed THEN {r} ELSE {})
    BY <1>2 DEF add_local_routed_reader
<1>8. ListedExist' /\ (KeysTell => ReadersListed')
    <2>1. ASSUME NEW ke \in Key PROVE local_routed_readers'[ke] \subseteq ReadersAbout(ke)'
        BY <1>5, <1>6, <1>7 DEF ListedInv, ListedExist, ReadersListed
    <2>2. ASSUME KeysTell, NEW ke \in Key, remote_routed_writers'[ke] # {}
          PROVE  ReadersOf(ke)' \subseteq local_routed_readers'[ke]
        <3>1. /\ ReadersOf(ke) \subseteq local_routed_readers[ke]
              /\ ke \in KeysOf(r) => ke \in routed
            BY <1>2, <1>3, <1>4, <2>2 DEF ListedInv, ListedExist, ReadersListed
        <3> QED
            BY <1>6, <1>7, <3>1
    <2> QED
        BY <2>1, <2>2 DEF ListedExist, ReadersListed
<1> QED
    BY <1>2, <1>8 DEF ListedInv

\* A local reader goes.
LEMMA ListedUndiscovered ==
    ASSUME IInv, ListedInv, NEW r, UndiscoveredSubscription(r)
    PROVE  ListedInv'
<1>1. /\ local_routed_readers' = remove_local_routed_reader(r)
      /\ discovered_readers' = discovered_readers \ ({r} \cap discovered_readers)
      /\ UNCHANGED remote_routed_writers
    BY DEF UndiscoveredSubscription, remote_vars
<1>2. \A ke \in Key : local_routed_readers'[ke] = local_routed_readers[ke] \ {r}
    BY <1>1 DEF remove_local_routed_reader
<1>3. \A ke \in Key : /\ ReadersOf(ke)' = ReadersOf(ke) \ {r}
                    /\ ReadersAbout(ke)' = ReadersAbout(ke) \ {r}
    BY <1>1 DEF ReadersOf, ReadersAbout
<1> QED
    BY <1>1, <1>2, <1>3 DEF ListedInv, ListedExist, ReadersListed

\* A remote writer comes: the readers of its keys are looked up again.
LEMMA ListedPut ==
    ASSUME IInv, ListedInv, NEW x \in RemoteWriter, PutWriter(x)
    PROVE  ListedInv'
<1> DEFINE lacking == lacking_writer(RemoteKeysOf(x))
<1>1. PICK outcome \in Outcomes(lacking, create_forwarding_dds_writer) : PutWriter(x)!(outcome)
    BY DEF PutWriter
<1> DEFINE outcome_of(ke) == IF ke \in lacking THEN outcome[ke] ELSE "created"
           routed == {ke \in RemoteKeysOf(x) :
                        try_add_route_to_dds(ke, TRUE, outcome_of(ke)) = "Routed"}
           joining(ke) == UNION {matching(discovered_readers, x, p) :
                                    p \in {q \in RemoteSlotsOf(x) :
                                            RemoteKeyFor(x, q) = ke /\ ke \in routed}}
<1>2. /\ remote_routed_writers' = add_remote_routed_writer(x, routed)
      /\ local_routed_readers' = [ke \in Key |-> local_routed_readers[ke] \cup joining(ke)]
      /\ UNCHANGED discovered_readers
    BY <1>1 DEF entity_vars
<1>3. \A ke \in routed : is_allowed(ke)
    BY DEF try_add_route_to_dds
<1>4. routed \in SUBSET RemoteKeysOf(x) /\ discovered_readers \subseteq Reader
    BY DEF IInv, TypeOK, TablesTypeOK
<1> HIDE DEF routed
<1>5. ASSUME NEW ke, NEW p \in RemoteSlotsOf(x), RemoteKeyFor(x, p) = ke
      PROVE  /\ matching(discovered_readers, x, p) \subseteq ReadersAbout(ke)
             /\ KeysTell => ReadersOf(ke) \subseteq matching(discovered_readers, x, p)
    <2>1. RemoteScopeOf[PluginOf[x]] \in Scopes
        BY RemoteAssumption DEF RemoteAssumption, Remote
    <2>2. matching(discovered_readers, x, p) \subseteq ReadersAbout(ke)
        BY <1>5, <2>1 DEF matching, ReadersAbout, RemoteKeyFor
    <2>3. KeysTell => ReadersOf(ke) \subseteq matching(discovered_readers, x, p)
        BY <1>4, <1>5 DEF KeysTell, matching, ReadersOf
    <2> QED
        BY <2>2, <2>3
<1>6. ASSUME NEW ke \in Key PROVE joining(ke) \subseteq ReadersAbout(ke)
    BY <1>5
<1>7. ASSUME KeysTell, NEW ke \in Key, ke \in routed PROVE ReadersOf(ke) \subseteq joining(ke)
    <2>1. PICK p \in RemoteSlotsOf(x) : RemoteKeyFor(x, p) = ke
        BY <1>4, <1>7 DEF RemoteKeysOf
    <2>2. ReadersOf(ke) \subseteq matching(discovered_readers, x, p)
        BY <1>5, <1>7, <2>1
    <2>3. p \in {q \in RemoteSlotsOf(x) : RemoteKeyFor(x, q) = ke /\ ke \in routed}
        BY <1>7, <2>1
    <2> QED
        BY <2>2, <2>3
<1> HIDE DEF joining
<1>8. \A ke \in Key : ReadersOf(ke)' = ReadersOf(ke) /\ ReadersAbout(ke)' = ReadersAbout(ke)
    BY <1>2 DEF ReadersOf, ReadersAbout
<1>9. \A ke \in Key : remote_routed_writers'[ke] # {} =>
            ke \in routed \/ remote_routed_writers[ke] # {}
    BY <1>2 DEF add_remote_routed_writer
<1>10. \A ke \in Key : remote_routed_writers'[ke] # {} => is_allowed(ke)
    BY <1>3, <1>9 DEF ListedInv
<1>11. ListedExist' /\ (KeysTell => ReadersListed')
    <2>1. ASSUME NEW ke \in Key
          PROVE  /\ local_routed_readers'[ke] \subseteq ReadersAbout(ke)'
                 /\ KeysTell /\ remote_routed_writers'[ke] # {} =>
                        ReadersOf(ke)' \subseteq local_routed_readers'[ke]
        <3>1. local_routed_readers'[ke] = local_routed_readers[ke] \cup joining(ke)
            BY <1>2
        <3>2. /\ local_routed_readers[ke] \subseteq ReadersAbout(ke)
              /\ KeysTell /\ remote_routed_writers[ke] # {} =>
                    ReadersOf(ke) \subseteq local_routed_readers[ke]
            BY DEF ListedInv, ListedExist, ReadersListed
        <3> QED
            BY <1>6, <1>7, <1>8, <1>9, <3>1, <3>2
    <2> QED
        BY <2>1 DEF ListedExist, ReadersListed
<1> QED
    BY <1>10, <1>11 DEF ListedInv

\* A plugin leaves: the routes that lose their readers have no remote writer either.
LEMMA ListedLeft ==
    ASSUME IInv, ListedInv, NEW plugin, PluginLeft(plugin)
    PROVE  ListedInv'
<1> DEFINE gone == routes_without_writer(EntitiesOf(plugin))
<1>1. /\ remote_routed_writers' = remove_remote_routed_writers(EntitiesOf(plugin))
      /\ local_routed_readers' = [ke \in Key |-> IF ke \in gone THEN {}
                                                 ELSE local_routed_readers[ke]]
      /\ UNCHANGED discovered_readers
    BY DEF PluginLeft, entity_vars
<1>2. \A ke \in gone : remote_routed_writers'[ke] = {}
    BY <1>1 DEF routes_without_writer
<1>3. \A ke \in Key : remote_routed_writers'[ke] # {} => remote_routed_writers[ke] # {}
    BY <1>1 DEF remove_remote_routed_writers
<1>4. \A ke \in Key : ReadersOf(ke)' = ReadersOf(ke) /\ ReadersAbout(ke)' = ReadersAbout(ke)
    BY <1>1 DEF ReadersOf, ReadersAbout
<1>5. \A ke \in Key : local_routed_readers'[ke] = IF ke \in gone THEN {}
                                                  ELSE local_routed_readers[ke]
    BY <1>1
<1> HIDE DEF gone
<1> QED
    BY <1>2, <1>3, <1>4, <1>5 DEF ListedInv, ListedExist, ReadersListed

\* What the routes list, through every step of both sides (the handlers of lib.rs).
LEMMA ListedInvariance == Spec => [](IInv /\ ListedInv)
<1>1. Init => ListedInv
    BY DEF Init, TablesInit, ListedInv, ListedExist, ReadersListed, ReadersOf, ReadersAbout
<1>2. IInv /\ ListedInv /\ [Next]_vars => ListedInv'
    <2> SUFFICES ASSUME IInv, ListedInv, [Next]_vars PROVE ListedInv'
        OBVIOUS
    <2>1. ASSUME UNCHANGED <<discovered_readers, local_routed_readers, remote_routed_writers>>
          PROVE  ListedInv'
        BY <2>1, ListedSame
    <2>2. ASSUME UNCHANGED tables PROVE ListedInv'
        BY <2>1, <2>2 DEF tables, entity_vars, to_vars, remote_vars
    <2>3. CASE Environment \/ (\E e \in Entity : Listener(e)) \/ UNCHANGED vars
        BY <2>2, <2>3 DEF Environment, Listener, RemoteAppears, RemoteDisappears, Publish,
            PluginJoins, PluginLeaves, GroupChange, vars
    <2>4. CASE HandlePublication
        BY <2>1, <2>4 DEF HandlePublication, DiscoveredPublication, UndiscoveredPublication,
            to_vars, remote_vars
    <2>5. CASE HandleSubscription
        BY <2>5, ListedDiscovered, ListedUndiscovered DEF HandleSubscription
    <2>6. CASE HandleParticipant
        BY <2>1, <2>6 DEF HandleParticipant, DiscoveredParticipant, UndiscoveredParticipant,
            to_vars, remote_vars
    <2>7. ASSUME NEW x \in RemoteWriter, PutWriter(x) PROVE ListedInv'
        BY <2>7, ListedPut
    <2>8. ASSUME NEW x, DeleteWriter(x) PROVE ListedInv'
        <3>1. /\ remote_routed_writers' = remove_remote_routed_writers({x})
              /\ UNCHANGED <<discovered_readers, local_routed_readers>>
            BY <2>8 DEF DeleteWriter, entity_vars
        <3> QED
            BY <3>1, ListedSame DEF remove_remote_routed_writers
    <2>9. ASSUME NEW x \in RemoteReader, PutReader(x) PROVE ListedInv'
        <3>1. PICK routed \in SUBSET RemoteKeysOf(x) :
                \E working \in SUBSET (routed \ routes_from_dds) : PutReaderEffect(x, routed, working)
            BY <2>9, PutReaderHasEffect DEF IInv
        <3> QED
            BY <2>1, <3>1 DEF PutReaderEffect, entity_vars, to_vars
    <2>10. ASSUME NEW x, DeleteReader(x) PROVE ListedInv'
        BY <2>1, <2>10 DEF DeleteReader, entity_vars, to_vars
    <2>11. CASE \E x \in Remote : HandleSample(x)
        BY <2>7, <2>8, <2>9, <2>10, <2>11 DEF HandleSample
    <2>12. CASE HandleGroupEvent
        BY <2>2, <2>12, ListedLeft DEF HandleGroupEvent, PluginDetected
    <2> QED
        BY <2>3, <2>4, <2>5, <2>6, <2>11, <2>12 DEF Next, HandleEvent
<1> QED
    BY <1>1, <1>2, Invariance, PTL DEF Spec

\* A route of any scope lists only discovered readers that its key is about, whatever
\* the names: the undiscovery of a reader takes it off all routes
\* (remove_local_routed_reader), those that a remote writer of another scope put it on.
THEOREM ListedExistAlways == Spec => []ListedExist
<1>1. ListedInv => ListedExist
    BY DEF ListedInv
<1> QED
    BY <1>1, ListedInvariance, PTL

\* Where names do not collide, a route with a remote writer lists all the discovered
\* readers of its key, whichever came first, whatever creation failed before, and also
\* after a departure dropped the route for a while (add_local_routed_reader, in the
\* handlers of both sides).
THEOREM ReadersListedAlways ==
    ASSUME KeysTell
    PROVE  Spec => []ReadersListed
<1>1. ListedInv => ReadersListed
    BY DEF ListedInv
<1> QED
    BY <1>1, ListedInvariance, PTL
=============================================================================
