---------------------------- MODULE FwdDiscovery ----------------------------
(***************************************************************************)
(* The bridge in "forward discovery" mode (run_fwd_discovery_mode).        *)
(*                                                                         *)
(* The bridge advertises the endpoints of its DDS domain to the other DDS  *)
(* plugins, and creates its routes for the endpoints they advertise: a     *)
(* remote writer gets a route to DDS, a remote reader a route from DDS.    *)
(* A local reader gets a route to DDS as well, but without a DDS writer    *)
(* until a remote writer is known (#102).                                  *)
(*                                                                         *)
(* The event loop receives from three channels in any order: the events of *)
(* its DDS domain, the samples of the other plugins' discovery, and the    *)
(* group events telling which plugins joined or left.                      *)
(***************************************************************************)
EXTENDS RouteTables

CONSTANTS
    Plugin,                         \* the other DDS plugins
    RemoteWriter, RemoteReader,     \* the endpoints of their DDS domains
    PluginOf,                       \* [Remote -> Plugin]
    RemoteTopicOf,                  \* [Remote -> Topic]
    RemotePartitionsOf,             \* [Remote -> SUBSET Partition]
    RemoteQosOf,                    \* [Remote -> Qos]
    RemoteScopeOf,                  \* [Plugin -> Scopes]
    MayLeave,                       \* the plugins that may leave
    MaxSamples                      \* bound: messages in each remote channel

Remote == RemoteWriter \cup RemoteReader

RemoteAssumption ==
    /\ RemoteWriter \cap RemoteReader = {}
    /\ PluginOf \in [Remote -> Plugin]
    /\ RemoteTopicOf \in [Remote -> Topic]
    /\ RemotePartitionsOf \in [Remote -> SUBSET Partition]
    /\ RemoteQosOf \in [Remote -> Qos]
    /\ RemoteScopeOf \in [Plugin -> Scopes]
    /\ MayLeave \in SUBSET Plugin
    /\ MaxSamples \in Nat

ASSUME RemoteAssumption

RemoteSlotsOf(x) ==
    IF RemotePartitionsOf[x] = {} THEN {NoPartition} ELSE RemotePartitionsOf[x]

\* The scope of a route is that of the plugin that advertised the endpoint.
RemoteKeyFor(x, p) == topic_to_keyexpr(RemoteTopicOf[x], RemoteScopeOf[PluginOf[x]], p)

RemoteKeysOf(x) == {RemoteKeyFor(x, p) : p \in RemoteSlotsOf(x)}

EntitiesOf(plugin) == {x \in Remote : PluginOf[x] = plugin}

VARIABLES
    advertised,             \* the endpoints last published as existing
    remote_routed_writers,  \* RouteZenohDDS.remote_routed_writers per key
    remote_routed_readers,  \* RouteDDSZenoh.remote_routed_readers per key
    plugins,                \* the plugins connected to this one
    remote_alive,           \* the endpoints that exist in the remote domains
    fwd_disco,              \* the discovery samples not received yet, in order
                            \*   for each endpoint
    group                   \* the group events not received yet

remote_vars == <<remote_routed_writers, remote_routed_readers>>
zenoh_vars == <<plugins, remote_alive, fwd_disco, group>>
tables == <<entity_vars, entity_routes, from_vars, to_vars, admin_space,
            advertised, remote_vars>>
vars == <<disco_vars, zenoh_vars, tables>>

GroupEvent == [put : BOOLEAN, plugin : Plugin]

Init ==
    /\ DiscoInit /\ TablesInit
    /\ advertised = {}
    /\ remote_routed_writers = [ke \in Key |-> {}]
    /\ remote_routed_readers = [ke \in Key |-> {}]
    /\ plugins = {}
    /\ remote_alive = {}
    /\ fwd_disco = [x \in Remote |-> <<>>]
    /\ group = <<>>

-----------------------------------------------------------------------------
(* Local publications: advertised, but a route is for remote readers only. *)

DiscoveredPublication(w) ==
    /\ advertised' = advertised \cup {w}
    /\ entity_routes' = [entity_routes EXCEPT ![w] = NoRoutes]
    /\ discovered_writers' = discovered_writers \cup {w}
    /\ admin_space' = admin_space \cup {<<"writer", w>>}
    /\ UNCHANGED <<discovered_participants, discovered_readers, from_vars, to_vars>>
    /\ UNCHANGED <<remote_vars, alive, builtin>>

UndiscoveredPublication(w) ==
    /\ \/ /\ w \in discovered_writers
          /\ advertised' = advertised \ {w}
          /\ entity_routes' = [entity_routes EXCEPT ![w] = NoRoutes]
          /\ discovered_writers' = discovered_writers \ {w}
          /\ admin_space' = admin_space \ {<<"writer", w>>}
       \/ /\ w \notin discovered_writers
          /\ UNCHANGED <<advertised, entity_routes, discovered_writers, admin_space>>
    /\ UNCHANGED <<discovered_participants, discovered_readers, from_vars, to_vars>>
    /\ UNCHANGED <<remote_vars, alive, builtin>>

-----------------------------------------------------------------------------
(* Local subscriptions: advertised, with a route that has no DDS writer yet. *)

DiscoveredSubscription(r) ==
    \E outcome \in Outcomes(KeysOf(r) \ routes_to_dds, create_forwarding_dds_writer) :
        LET outcome_of(ke) == IF ke \in routes_to_dds THEN "created" ELSE outcome[ke]
            status(ke) == try_add_route_to_dds(ke, FALSE, outcome_of(ke))
            routed == {ke \in KeysOf(r) : status(ke) = "Routed"}
            created == routed \ routes_to_dds
        IN
        /\ RouteZenohDDS_new(created, TopicOf[r], QosOf[r])
        /\ local_routed_readers' = add_local_routed_reader(r, routed)
        /\ entity_routes' = [entity_routes EXCEPT ![r] =
                [p \in Slot |-> IF p \in SlotsOf(r) THEN status(KeyFor(r, p))
                                ELSE "absent"]]
        /\ advertised' = advertised \cup {r}
        /\ discovered_readers' = discovered_readers \cup {r}
        /\ admin_space' = admin_space \cup {<<"reader", r>>} \cup refs_to_dds(created)
        /\ UNCHANGED <<discovered_participants, discovered_writers, from_vars>>
        /\ UNCHANGED <<dds_writer, remote_vars, alive, builtin>>

routes_to_dds_without_reader(r) ==
    {ke \in routes_to_dds : remove_local_routed_reader(r)[ke] = {}}

\* #102: a route goes when it has neither a local reader nor a remote writer.
unused_routes_to_dds(r) ==
    {ke \in routes_to_dds : /\ remove_local_routed_reader(r)[ke] = {}
                            /\ remote_routed_writers[ke] = {}}

UndiscoveredSubscription(r) ==
    LET gone == unused_routes_to_dds(r)
        known == {r} \cap discovered_readers
    IN
    /\ advertised' = advertised \ known
    /\ entity_routes' = [e \in Endpoint |-> IF e \in known THEN NoRoutes
                                            ELSE entity_routes[e]]
    /\ discovered_readers' = discovered_readers \ known
    /\ admin_space' = (admin_space \ {<<"reader", e>> : e \in known}) \ refs_to_dds(gone)
    /\ local_routed_readers' = remove_local_routed_reader(r)
    /\ drop_to_dds(gone)
    /\ dds_writer' = without_routes(dds_writer, gone)
    /\ EntitiesChange({}, RouteZenohDDS_drop(gone))
    /\ UNCHANGED <<discovered_participants, discovered_writers, from_vars, remote_vars>>

-----------------------------------------------------------------------------
(* Samples of a remote writer: the routes to DDS. *)

add_remote_routed_writer(x, keys) ==
    [ke \in Key |-> IF ke \in keys THEN remote_routed_writers[ke] \cup {x}
                    ELSE remote_routed_writers[ke]]

\* Those of the discovered endpoints on the topic of x and in its partition p.
matching(discovered, x, p) ==
    {e \in discovered : TopicOf[e] = RemoteTopicOf[x] /\ p \in SlotsOf(e)}

\* The statuses of local endpoints: those that match x become "Routed" where x is
\* routed.
routes_updated(discovered, x, routed) ==
    [e \in Endpoint |-> [p \in Slot |->
        IF /\ p \in RemoteSlotsOf(x)
           /\ e \in matching(discovered, x, p)
           /\ RemoteKeyFor(x, p) \in routed
        THEN "Routed" ELSE entity_routes[e][p]]]

PutWriter(x) ==
    \E outcome \in Outcomes(lacking_writer(RemoteKeysOf(x)), create_forwarding_dds_writer) :
        LET lacking == lacking_writer(RemoteKeysOf(x))
            outcome_of(ke) == IF ke \in lacking THEN outcome[ke] ELSE "created"
            routed == {ke \in RemoteKeysOf(x) :
                        try_add_route_to_dds(ke, TRUE, outcome_of(ke)) = "Routed"}
            created == routed \ routes_to_dds
        IN
        /\ RouteZenohDDS_new(created, RemoteTopicOf[x], RemoteQosOf[x])
        /\ dds_writer' = [ke \in Key |-> IF ke \in routed \cap lacking
                                THEN set_dds_writer(ke, RemoteQosOf[x])
                                ELSE dds_writer[ke]]
        /\ remote_routed_writers' = add_remote_routed_writer(x, routed)
        /\ local_routed_readers' =
                [ke \in Key |-> local_routed_readers[ke] \cup
                    UNION {matching(discovered_readers, x, p) :
                            p \in {q \in RemoteSlotsOf(x) :
                                    RemoteKeyFor(x, q) = ke /\ ke \in routed}}]
        /\ entity_routes' = routes_updated(discovered_readers, x, routed)
        /\ admin_space' = admin_space \cup refs_to_dds(created)
        /\ EntitiesChange({OwnWriter(ke) : ke \in routed \cap lacking}, {})
        /\ UNCHANGED <<entity_vars, from_vars, advertised, remote_routed_readers>>

kept_remote_routed_writers(entities) == remote_routed_writers

remove_remote_routed_writers(entities) ==
    [ke \in Key |-> remote_routed_writers[ke] \ entities]

routes_kept_with_writer(entities) == {}

routes_losing_writer(entities) ==
    {ke \in routes_to_dds : remote_routed_writers[ke] \cap entities # {}}

\* The routes to DDS without a remote writer once some are removed.
routes_without_writer(entities) ==
    {ke \in routes_to_dds : remove_remote_routed_writers(entities)[ke] = {}}

any_reader(keys) == keys

without_reader(keys) == {ke \in keys : local_routed_readers[ke] = {}}

\* #102: the DDS writer goes with the last remote writer, the route only when it
\* has no local reader either.
DeleteWriter(x) ==
    LET idle == routes_without_writer({x})
        gone == without_reader(idle)
    IN
    /\ remote_routed_writers' = remove_remote_routed_writers({x})
    /\ drop_to_dds(gone)
    /\ dds_writer' = without_routes(dds_writer, idle)
    /\ admin_space' = admin_space \ refs_to_dds(gone)
    /\ EntitiesChange({}, RouteZenohDDS_drop(idle))
    /\ UNCHANGED <<entity_vars, entity_routes, from_vars, local_routed_readers>>
    /\ UNCHANGED <<advertised, remote_routed_readers>>

-----------------------------------------------------------------------------
(* Samples of a remote reader: the routes from DDS. *)

add_remote_routed_reader(x, keys) ==
    [ke \in Key |-> IF ke \in keys THEN remote_routed_readers[ke] \cup {x}
                    ELSE remote_routed_readers[ke]]

PutReader(x) ==
    \E outcome \in Outcomes(RemoteKeysOf(x) \ routes_from_dds, create_forwarding_dds_reader) :
        LET outcome_of(ke) == IF ke \in routes_from_dds THEN "created" ELSE outcome[ke]
            routed == {ke \in RemoteKeysOf(x) :
                        try_add_route_from_dds(ke, outcome_of(ke)) = "Routed"}
            created == routed \ routes_from_dds
        IN
        /\ routes_from_dds' = routes_from_dds \cup created
        /\ dds_reader' = [ke \in Key |-> IF ke \in created
                                THEN RouteDDSZenoh_new(RemoteTopicOf[x], RemoteQosOf[x],
                                                       outcome_of(ke))
                                ELSE dds_reader[ke]]
        /\ remote_routed_readers' = add_remote_routed_reader(x, routed)
        /\ local_routed_writers' =
                [ke \in Key |-> local_routed_writers[ke] \cup
                    UNION {matching(discovered_writers, x, p) :
                            p \in {q \in RemoteSlotsOf(x) :
                                    RemoteKeyFor(x, q) = ke /\ ke \in routed}}]
        /\ entity_routes' = routes_updated(discovered_writers, x, routed)
        /\ admin_space' = admin_space \cup refs_from_dds(created)
        /\ EntitiesChange({OwnReader(ke) : ke \in {k \in created :
                                                    outcome_of(k) = "created"}}, {})
        /\ UNCHANGED <<entity_vars, to_vars, advertised, remote_routed_writers>>

remove_remote_routed_readers(entities) ==
    [ke \in Key |-> remote_routed_readers[ke] \ entities]

routes_kept_with_reader(entities) == {}

\* The routes from DDS without a remote reader once some are removed.
routes_without_reader(entities) ==
    {ke \in routes_from_dds : remove_remote_routed_readers(entities)[ke] = {}}

drop_from_dds(gone) ==
    /\ routes_from_dds' = routes_from_dds \ gone
    /\ dds_reader' = without_routes(dds_reader, gone)
    /\ local_routed_writers' = [ke \in Key |-> IF ke \in gone THEN {}
                                               ELSE local_routed_writers[ke]]

DeleteReader(x) ==
    LET gone == routes_without_reader({x}) IN
    /\ remote_routed_readers' = remove_remote_routed_readers({x})
    /\ drop_from_dds(gone)
    /\ admin_space' = admin_space \ refs_from_dds(gone)
    /\ EntitiesChange({}, RouteDDSZenoh_drop(gone))
    /\ UNCHANGED <<entity_vars, entity_routes, to_vars, advertised, remote_routed_writers>>

-----------------------------------------------------------------------------
(* Group events. *)

no_past_samples(plugin) == {}

\* The samples a query for past discovery messages of a plugin brings: what it
\* advertises now.  None arrive when it is no longer connected.
past_samples(plugin) ==
    IF plugin \in plugins THEN EntitiesOf(plugin) \cap remote_alive ELSE {}

PluginDetected(plugin) ==
    /\ fwd_disco' = [x \in Remote |-> IF x \in past_samples(plugin)
                                      THEN Append(fwd_disco[x], "put")
                                      ELSE fwd_disco[x]]
    /\ UNCHANGED <<tables, alive, builtin>>

\* All the references to the plugin's endpoints are removed, and the routes left
\* without a remote endpoint dropped, those with a local reader included.
PluginLeft(plugin) ==
    LET gone_to_dds == routes_without_writer(EntitiesOf(plugin))
        gone_from_dds == routes_without_reader(EntitiesOf(plugin))
    IN
    /\ remote_routed_writers' = remove_remote_routed_writers(EntitiesOf(plugin))
    /\ remote_routed_readers' = remove_remote_routed_readers(EntitiesOf(plugin))
    /\ drop_to_dds(gone_to_dds)
    /\ dds_writer' = without_routes(dds_writer, gone_to_dds)
    /\ local_routed_readers' = [ke \in Key |-> IF ke \in gone_to_dds THEN {}
                                               ELSE local_routed_readers[ke]]
    /\ drop_from_dds(gone_from_dds)
    /\ admin_space' = admin_space \ (refs_to_dds(gone_to_dds) \cup refs_from_dds(gone_from_dds))
    /\ EntitiesChange({}, RouteZenohDDS_drop(gone_to_dds)
                            \cup RouteDDSZenoh_drop(gone_from_dds))
    /\ UNCHANGED <<entity_vars, entity_routes, advertised, fwd_disco>>

-----------------------------------------------------------------------------
(* The event loop. *)

HandlePublication ==
    \/ \E w \in Writer : Receive(Discovered(w)) /\ DiscoveredPublication(w)
    \/ \E w \in Writer \cup OwnWriters :
            Receive(Undiscovered(w)) /\ UndiscoveredPublication(w)

HandleSubscription ==
    \/ \E r \in Reader : Receive(Discovered(r)) /\ DiscoveredSubscription(r)
    \/ \E r \in Reader \cup OwnReaders :
            Receive(Undiscovered(r)) /\ UndiscoveredSubscription(r)

HandleParticipant ==
    /\ \/ \E p \in Participant : Receive(Discovered(p)) /\ DiscoveredParticipant(p)
       \/ \E p \in Participant : Receive(Undiscovered(p)) /\ UndiscoveredParticipant(p)
    /\ UNCHANGED <<advertised, remote_vars>>

HandleEvent ==
    (HandlePublication \/ HandleSubscription \/ HandleParticipant) /\ UNCHANGED zenoh_vars

ReceiveSample(x, kind) ==
    /\ fwd_disco[x] # <<>>
    /\ Head(fwd_disco[x]) = kind
    /\ fwd_disco' = [fwd_disco EXCEPT ![x] = Tail(fwd_disco[x])]
    /\ UNCHANGED <<disco, plugins, remote_alive, group>>

HandleSample(x) ==
    \/ ReceiveSample(x, "put") /\ x \in RemoteWriter /\ PutWriter(x)
    \/ ReceiveSample(x, "delete") /\ x \in RemoteWriter /\ DeleteWriter(x)
    \/ ReceiveSample(x, "put") /\ x \in RemoteReader /\ PutReader(x)
    \/ ReceiveSample(x, "delete") /\ x \in RemoteReader /\ DeleteReader(x)

ReceiveGroupEvent == group # <<>> /\ group' = Tail(group)

HandleGroupEvent ==
    /\ ReceiveGroupEvent
    /\ \/ Head(group).put /\ PluginDetected(Head(group).plugin)
       \/ ~ Head(group).put /\ PluginLeft(Head(group).plugin)
    /\ UNCHANGED <<disco, plugins, remote_alive>>

-----------------------------------------------------------------------------
(* The other plugins: their endpoints appear and disappear, which they publish *)
(* as long as they are connected; they join, and leave without a word.         *)

Publish(x, kind) ==
    /\ Len(fwd_disco[x]) < MaxSamples
    /\ fwd_disco' = IF PluginOf[x] \in plugins
                    THEN [fwd_disco EXCEPT ![x] = Append(fwd_disco[x], kind)]
                    ELSE fwd_disco
    /\ UNCHANGED <<plugins, group, disco_vars, tables>>

RemoteAppears(x) ==
    /\ x \notin remote_alive
    /\ remote_alive' = remote_alive \cup {x}
    /\ Publish(x, "put")

RemoteDisappears(x) ==
    /\ x \in remote_alive
    /\ remote_alive' = remote_alive \ {x}
    /\ Publish(x, "delete")

GroupChange(event) ==
    /\ Len(group) < MaxSamples
    /\ group' = Append(group, event)
    /\ UNCHANGED <<remote_alive, fwd_disco, disco_vars, tables>>

PluginJoins(plugin) ==
    /\ plugin \notin plugins
    /\ \A x \in EntitiesOf(plugin) : Len(fwd_disco[x]) < MaxSamples
    /\ plugins' = plugins \cup {plugin}
    /\ GroupChange([put |-> TRUE, plugin |-> plugin])

PluginLeaves(plugin) ==
    /\ plugin \in plugins \cap MayLeave
    /\ plugins' = plugins \ {plugin}
    /\ GroupChange([put |-> FALSE, plugin |-> plugin])

Environment ==
    \/ \E e \in Foreign : (Appear(e) \/ Update(e) \/ Disappear(e))
                            /\ UNCHANGED <<zenoh_vars, tables>>
    \/ \E x \in Remote : RemoteAppears(x) \/ RemoteDisappears(x)
    \/ \E plugin \in Plugin : PluginJoins(plugin) \/ PluginLeaves(plugin)

Listener(e) == on_data(e) /\ UNCHANGED <<zenoh_vars, tables>>

Next ==
    \/ Environment
    \/ \E e \in Entity : Listener(e)
    \/ HandleEvent
    \/ \E x \in Remote : HandleSample(x)
    \/ HandleGroupEvent

Spec == Init /\ [][Next]_vars

-----------------------------------------------------------------------------
(* Type and safety. *)

\* Every variable has its type.
TypeOK ==
    /\ DiscoTypeOK /\ TablesTypeOK
    /\ advertised \in SUBSET Endpoint
    /\ remote_routed_writers \in [Key -> SUBSET RemoteWriter]
    /\ remote_routed_readers \in [Key -> SUBSET RemoteReader]
    /\ plugins \in SUBSET Plugin
    /\ remote_alive \in SUBSET Remote
    /\ fwd_disco \in [Remote -> Seq({"put", "delete"})]
    /\ group \in Seq(GroupEvent)

\* A route to DDS exists exactly as long as it has a local reader or a remote
\* writer, a route from DDS exactly as long as it has a remote reader.
RoutesAreUsed ==
    /\ routes_to_dds =
        {ke \in Key : local_routed_readers[ke] # {} \/ remote_routed_writers[ke] # {}}
    /\ routes_from_dds = {ke \in Key : remote_routed_readers[ke] # {}}

\* A route to DDS has a DDS writer exactly when a remote writer is on it (#102).
\* remap_entities_info relies on it: it would loop for ever on a route that lists
\* a remote writer but has no DDS writer to give the GUID of.
WriterIffRemoteWriter ==
    \A ke \in Key : dds_writer[ke] # NoEntity <=> remote_routed_writers[ke] # {}

\* The admin space refers to exactly the entities and routes the maps hold.
AdminSpaceExact ==
    admin_space =
        ({"participant"} \X discovered_participants)
        \cup ({"writer"} \X discovered_writers)
        \cup ({"reader"} \X discovered_readers)
        \cup ({"from_dds"} \X routes_from_dds)
        \cup ({"to_dds"} \X routes_to_dds)

\* The bridge's endpoints in the DDS domain are those its routes hold.
NoEndpointLeak ==
    /\ \A ke \in Key : OwnWriter(ke) \in alive <=> dds_writer[ke] # NoEntity
    /\ \A ke \in Key : OwnReader(ke) \in alive <=> dds_reader[ke] \in DdsEndpoint
    /\ \A ke \in Key : dds_reader[ke] # NoEntity <=> ke \in routes_from_dds

ReadersOf(ke) == {r \in discovered_readers : ke \in KeysOf(r)}

\* The discovered readers on a topic and partition that give ke in some scope.
ReadersAbout(ke) ==
    {r \in discovered_readers : \E scope \in Scopes, p \in SlotsOf(r) :
        ke = topic_to_keyexpr(TopicOf[r], scope, p)}

\* A route to DDS lists discovered readers only, of its key but for the scope, which
\* may be another bridge's.
ListedExist == \A ke \in Key : local_routed_readers[ke] \subseteq ReadersAbout(ke)

\* So it does, and one with a remote writer lists all the readers of its key: whichever came first, whatever creation failed before, and also after the
\* departure of a plugin dropped the route for a while.  (With names that do not
\* collide; readers are listed by topic and partition.)
ReadersListed ==
    /\ ListedExist
    /\ \A ke \in Key : remote_routed_writers[ke] # {} =>
            ReadersOf(ke) \subseteq local_routed_readers[ke]

\* Once the DDS domain is quiet, the endpoints that exist are those advertised.
AdvertisedMirror == Quiet => advertised = alive \cap Visible \cap Endpoint

QuietZenoh == group = <<>> /\ \A x \in Remote : fwd_disco[x] = <<>>

ServedKeys(x) ==
    {ke \in Key : x \in remote_routed_writers[ke] \cup remote_routed_readers[ke]}

\* The keys to serve x on: those that are allowed, but where creations may fail.
ServableKeys(x) == {ke \in RemoteKeysOf(x) : is_allowed(ke) /\ ke \notin MayFail}

\* Once all samples and group events are handled, each endpoint of a connected
\* plugin is served on its keys: joins, departures, queries for past samples and
\* live samples never end with one missing.
QuiescentServed ==
    QuietZenoh => \A x \in remote_alive : PluginOf[x] \in plugins =>
        ServableKeys(x) \subseteq ServedKeys(x)

Released(entities) ==
    QuietZenoh => \A x \in entities : ServedKeys(x) # {} =>
        x \in remote_alive /\ PluginOf[x] \in plugins

\* Once all samples and group events are handled, no reference is left to an
\* endpoint that is gone, by itself or with its plugin.
QuiescentReleased == Released(Remote)

\* No reference is left to a gone endpoint of a plugin that stays, whatever the
\* departures of other plugins do to the routes it shares with them.
StayingReleased == Released({x \in Remote : PluginOf[x] \notin MayLeave})

-----------------------------------------------------------------------------
(* What a step may never do, and what must happen. *)

\* A DDS writer or reader of a route is neither deleted nor replaced by a step
\* that leaves one of the remote endpoints it stands for.
ProxiesStay ==
    \A ke \in Key :
        /\ remote_routed_writers[ke] \cap remote_routed_writers'[ke] # {} =>
                dds_writer'[ke] = dds_writer[ke] /\ ke \in routes_to_dds'
        /\ remote_routed_readers[ke] \cap remote_routed_readers'[ke] # {} =>
                dds_reader'[ke] = dds_reader[ke] /\ ke \in routes_from_dds'

ProxyKept == [][ProxiesStay]_vars

PluginDeparture == group # <<>> /\ ~ Head(group).put /\ group' = Tail(group)

ReaderRoutesStay ==
    \A ke \in routes_to_dds :
        local_routed_readers[ke] \cap discovered_readers' # {} => ke \in routes_to_dds'

\* #102: the route of a local reader, its Zenoh subscriber, is kept as long as
\* the reader is discovered, unless a plugin leaves (see the README).
ReaderRouteKept == [][PluginDeparture \/ ReaderRoutesStay]_vars

\* An endpoint that stays in the domain of a plugin that stays connected ends up
\* served on each of its keys.
EventuallyServed ==
    \A x \in Remote :
        <>[](x \in remote_alive /\ PluginOf[x] \in plugins) =>
            <>[](ServableKeys(x) \subseteq ServedKeys(x))

-----------------------------------------------------------------------------
(* The abstract specification each direction implements: for the remote       *)
(* endpoints, which leave one by one or with their plugin.                    *)

FromDds == INSTANCE RouteLedger WITH
    Client <- RemoteReader,
    Group <- {{x} : x \in RemoteReader}
                \cup {EntitiesOf(plugin) \cap RemoteReader : plugin \in Plugin},
    open <- routes_from_dds, serves <- remote_routed_readers

\* A route to DDS is open for the remote writers as long as it has a DDS writer.
ToDds == INSTANCE RouteLedger WITH
    Client <- RemoteWriter,
    Group <- {{x} : x \in RemoteWriter}
                \cup {EntitiesOf(plugin) \cap RemoteWriter : plugin \in Plugin},
    open <- {ke \in Key : dds_writer[ke] # NoEntity}, serves <- remote_routed_writers

\* The routes of each direction implement the ledger of RouteLedger: the DDS reader
\* or writer of a key comes with the first remote endpoint and goes with the last.
LedgerFromDds == FromDds!Spec
LedgerToDds == ToDds!Spec
=============================================================================
