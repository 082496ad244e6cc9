--------------------------- MODULE DiscoveryLemmas ---------------------------
(***************************************************************************)
(* What the proofs about both discovery modes need of DdsDiscovery and     *)
(* RouteTables.                                                            *)
(***************************************************************************)
EXTENDS RouteTables, TLAPS

\* The slots of an endpoint are slots, and its keys are keys.
LEMMA KeysAreKeys ==
    ASSUME NEW e \in Endpoint
    PROVE  /\ SlotsOf(e) \subseteq Slot
           /\ KeysOf(e) \subseteq Key
           /\ \A p \in SlotsOf(e) : KeyFor(e, p) \in KeysOf(e)
<1>1. SlotsOf(e) \subseteq Slot
    BY EntitiesAssumption DEF EntitiesAssumption, SlotsOf, Slot
<1>2. TopicOf[e] \in Topic /\ Scope \in Scopes
    BY EntitiesAssumption DEF EntitiesAssumption, Scopes
<1>3. \A p \in SlotsOf(e) : KeyFor(e, p) \in Key
    BY <1>1, <1>2 DEF KeyFor, Key
<1> QED
    BY <1>1, <1>3 DEF KeysOf

\* The bridge's own entities are not those it discovers.
LEMMA OwnAreNotForeign ==
    /\ \A e \in Foreign : e \notin Own
    /\ Writer \cap OwnWriters = {} /\ Reader \cap OwnReaders = {}
    /\ \A e \in Writer \cup Reader \cup Participant \cup OwnWriters \cup OwnReaders :
            e \in Entity
BY EntitiesAssumption DEF EntitiesAssumption, Foreign, Endpoint, Own, OwnEndpoint, Entity

\* A change of the entities preserves the types of the domain.
LEMMA EntitiesChangeType ==
    ASSUME DiscoTypeOK, NEW born \in SUBSET Entity, NEW dead \in SUBSET Entity,
           EntitiesChange(born, dead)
    PROVE  /\ alive' \in SUBSET Entity
           /\ builtin' \in [Entity -> {"taken", "alive", "disposed"}]
BY DEF DiscoTypeOK, EntitiesChange

\* Receiving an event preserves the type of the channel.
LEMMA ReceiveType ==
    ASSUME DiscoTypeOK, NEW event, Receive(event)
    PROVE  /\ disco' \in Seq(DiscoveryEvent)
           /\ \A i \in DOMAIN disco' :
                disco'[i].key \in Own => disco'[i].key # Self /\ ~ disco'[i].discovered
<1>1. disco \in Seq(DiscoveryEvent) /\ disco # <<>> /\ disco' = Tail(disco)
    BY DEF DiscoTypeOK, Receive
<1>2. disco' \in Seq(DiscoveryEvent)
    BY <1>1
<1>3. \A i \in DOMAIN disco' : i + 1 \in DOMAIN disco /\ disco'[i] = disco[i + 1]
    BY <1>1
<1> QED
    BY <1>2, <1>3 DEF DiscoTypeOK

\* A change in the domain preserves the types.
LEMMA ForeignType ==
    ASSUME DiscoTypeOK, NEW e \in Foreign, Appear(e) \/ Update(e) \/ Disappear(e)
    PROVE  DiscoTypeOK'
<1>2. disco' = disco
    BY DEF Appear, Update, Disappear, Change
<1>3. {e} \in SUBSET Entity
    BY DEF Entity
<1>4. \/ EntitiesChange({e}, {})
      \/ EntitiesChange({}, {e})
    BY DEF Appear, Update, Disappear, Change
<1>5. /\ alive' \in SUBSET Entity
      /\ builtin' \in [Entity -> {"taken", "alive", "disposed"}]
    BY <1>3, <1>4, EntitiesChangeType
<1> QED
    BY <1>2, <1>5 DEF DiscoTypeOK

\* So does the listener, which never sends the discovery of an entity of the bridge.
LEMMA OnDataType ==
    ASSUME DiscoTypeOK, NEW e \in Entity, on_data(e)
    PROVE  DiscoTypeOK'
<1>1. /\ alive' = alive
      /\ builtin' \in [Entity -> {"taken", "alive", "disposed"}]
    BY DEF DiscoTypeOK, on_data
<1>2. /\ disco' \in Seq(DiscoveryEvent)
      /\ \A i \in DOMAIN disco' :
            disco'[i].key \in Own => disco'[i].key # Self /\ ~ disco'[i].discovered
    <2>1. CASE disco' = disco
        BY <2>1 DEF DiscoTypeOK
    <2>2. CASE ~ ignored(e) /\ send_discovery_event(event_of(e))
        <3>1. event_of(e) \in DiscoveryEvent
            BY DEF event_of, DiscoveryEvent
        <3>2. e \in Own => e # Self /\ ~ event_of(e).discovered
            BY <2>2 DEF event_of, ignored, Own
        <3>3. event_of(e).key = e
            BY DEF event_of
        <3>4. disco \in Seq(DiscoveryEvent) /\ disco' = Append(disco, event_of(e))
            BY <2>2 DEF send_discovery_event, DiscoTypeOK
        <3>5. \A i \in DOMAIN disco' :
                \/ i \in DOMAIN disco /\ disco'[i] = disco[i]
                \/ disco'[i] = event_of(e)
            BY <3>1, <3>4
        <3>6. disco' \in Seq(DiscoveryEvent)
            BY <3>1, <3>4
        <3> QED
            BY <3>2, <3>3, <3>5, <3>6 DEF DiscoTypeOK
    <2> QED
        BY <2>1, <2>2 DEF on_data
<1> QED
    BY <1>1, <1>2 DEF DiscoTypeOK

-----------------------------------------------------------------------------
(* What the bridge has learnt, or is about to learn, of the entities in of:   *)
(* exists, sample and events are alive, builtin and disco.                    *)

IsLastOf(e, events, i) ==
    events[i].key = e /\ \A j \in 1..Len(events) : j > i => events[j].key # e

\* A sample not taken tells what became of its entity; when it is taken the last event
\* in the channel does, and when there is none the bridge knows.
Mirrored(e, exists, sample, events, known) ==
    /\ sample[e] = "alive" => e \in exists
    /\ sample[e] = "disposed" => e \notin exists
    /\ sample[e] = "taken" =>
        /\ \A i \in 1..Len(events) : IsLastOf(e, events, i) =>
                IF events[i].discovered THEN e \in exists ELSE e \notin exists
        /\ (\A i \in 1..Len(events) : events[i].key # e) => (e \in known <=> e \in exists)

OnlyVisible(events) ==
    \A i \in 1..Len(events) : events[i].discovered => events[i].key \in Visible

Mirrors(of, exists, sample, events, known) ==
    /\ known \subseteq of
    /\ \A e \in of : Mirrored(e, exists, sample, events, known)

\* Sending what the sample of f tells, which is taken.
LEMMA MirroredSent ==
    ASSUME NEW e, NEW f, NEW exists, NEW sample, NEW sample2, NEW known,
           NEW events \in Seq(DiscoveryEvent), NEW event \in DiscoveryEvent,
           event.key = f, event.discovered <=> sample[f] = "alive",
           sample[f] \in {"alive", "disposed"},
           IF e = f THEN sample2[e] = "taken" ELSE sample2[e] = sample[e],
           Mirrored(e, exists, sample, events, known)
    PROVE  Mirrored(e, exists, sample2, Append(events, event), known)
<1> DEFINE events2 == Append(events, event)
<1>1. /\ Len(events) \in Nat /\ Len(events2) = Len(events) + 1
      /\ \A i \in 1..Len(events) : events2[i] = events[i]
      /\ events2[Len(events) + 1] = event
    OBVIOUS
<1> HIDE DEF events2
<1>2. CASE e = f
    <2>1. ASSUME NEW i \in 1..Len(events2), IsLastOf(e, events2, i)
          PROVE  i = Len(events) + 1
        BY <1>1, <1>2, <2>1 DEF IsLastOf
    <2>2. CASE sample[f] = "alive"
        <3>1. event.discovered /\ e \in exists
            BY <1>2, <2>2 DEF Mirrored
        <3> QED
            BY <1>1, <1>2, <2>1, <3>1 DEF Mirrored, events2
    <2>3. CASE sample[f] = "disposed"
        <3>1. ~ event.discovered /\ e \notin exists
            BY <1>2, <2>3 DEF Mirrored
        <3> QED
            BY <1>1, <1>2, <2>1, <3>1 DEF Mirrored, events2
    <2> QED
        BY <2>2, <2>3
<1>3. CASE e # f
    <2>1. ASSUME NEW i \in 1..Len(events2), IsLastOf(e, events2, i)
          PROVE  i \in 1..Len(events) /\ IsLastOf(e, events, i) /\ events2[i] = events[i]
        BY <1>1, <1>3, <2>1 DEF IsLastOf
    <2>2. (\A i \in 1..Len(events2) : events2[i].key # e) =>
                \A i \in 1..Len(events) : events[i].key # e
        BY <1>1
    <2> QED
        BY <1>3, <2>1, <2>2 DEF Mirrored, events2
<1> QED
    BY <1>2, <1>3

\* Handling the first event: the bridge knows what it tells.
LEMMA MirroredReceived ==
    ASSUME NEW e, NEW exists, NEW sample, NEW known, NEW known2,
           NEW events \in Seq(DiscoveryEvent), events # <<>>,
           Head(events).key = e =>
                IF Head(events).discovered THEN e \in known2 ELSE e \notin known2,
           Head(events).key # e => (e \in known2 <=> e \in known),
           Mirrored(e, exists, sample, events, known)
    PROVE  Mirrored(e, exists, sample, Tail(events), known2)
<1> DEFINE events2 == Tail(events)
<1>1. /\ Len(events) \in Nat \ {0} /\ Len(events2) = Len(events) - 1
      /\ \A i \in 1..Len(events2) : events2[i] = events[i + 1]
      /\ Head(events) = events[1]
    OBVIOUS
<1> HIDE DEF events2
<1>2. ASSUME NEW j \in 1..Len(events), j # 1
      PROVE  j - 1 \in 1..Len(events2) /\ events2[j - 1] = events[j]
    BY <1>1, <1>2
<1>3. ASSUME NEW i \in 1..Len(events2), IsLastOf(e, events2, i)
      PROVE  i + 1 \in 1..Len(events) /\ IsLastOf(e, events, i + 1)
    <2>1. i + 1 \in 1..Len(events) /\ events2[i] = events[i + 1]
        BY <1>1
    <2>2. ASSUME NEW j \in 1..Len(events), j > i + 1
          PROVE  events[j].key # e
        <3>1. j - 1 \in 1..Len(events2) /\ j - 1 > i /\ events2[j - 1] = events[j]
            BY <1>2, <2>2
        <3> QED
            BY <1>3, <3>1 DEF IsLastOf
    <2> QED
        BY <1>3, <2>1, <2>2 DEF IsLastOf
<1>4. ASSUME \A i \in 1..Len(events2) : events2[i].key # e
      PROVE  \/ events[1].key = e /\ IsLastOf(e, events, 1)
             \/ events[1].key # e /\ \A i \in 1..Len(events) : events[i].key # e
    <2>1. \A j \in 1..Len(events) : j # 1 => events[j].key # e
        BY <1>2, <1>4
    <2> QED
        BY <1>1, <2>1 DEF IsLastOf
<1>5. ASSUME sample[e] = "taken", \A i \in 1..Len(events2) : events2[i].key # e
      PROVE  e \in known2 <=> e \in exists
    <2>1. CASE events[1].key = e /\ IsLastOf(e, events, 1)
        <3>1. IF events[1].discovered THEN e \in exists ELSE e \notin exists
            BY <1>1, <1>5, <2>1 DEF Mirrored
        <3> QED
            BY <1>1, <2>1, <3>1
    <2>2. CASE events[1].key # e /\ \A i \in 1..Len(events) : events[i].key # e
        <3>1. e \in known <=> e \in exists
            BY <1>5, <2>2 DEF Mirrored
        <3> QED
            BY <1>1, <2>2, <3>1
    <2> QED
        BY <1>4, <1>5, <2>1, <2>2
<1> QED
    BY <1>1, <1>3, <1>5 DEF Mirrored, events2

\* Entities of other participants are no entities of the bridge.
LEMMA VisibleAreForeign ==
    \A e \in Visible : e \in Foreign /\ e \in Entity /\ e \notin Own
BY OwnAreNotForeign DEF Visible, Entity

\* A change in the domain is told by a sample.
LEMMA MirrorsForeign ==
    ASSUME DiscoTypeOK, NEW f \in Foreign, Appear(f) \/ Update(f) \/ Disappear(f),
           NEW of \in SUBSET Visible, NEW known,
           Mirrors(of, alive, builtin, disco, known)
    PROVE  disco' = disco /\ Mirrors(of, alive', builtin', disco', known)
<1>1. disco' = disco
    BY DEF Appear, Update, Disappear, Change
<1>2. \/ f \in alive' /\ builtin'[f] = "alive"
      \/ f \notin alive' /\ builtin'[f] = "disposed"
    BY DEF Appear, Update, Disappear, Change, EntitiesChange, Entity
<1>3. \A e \in of : e # f => builtin'[e] = builtin[e] /\ (e \in alive' <=> e \in alive)
    BY VisibleAreForeign DEF Appear, Update, Disappear, Change, EntitiesChange
<1>4. ASSUME NEW e \in of PROVE Mirrored(e, alive', builtin', disco', known)
    <2>1. Mirrored(e, alive, builtin, disco, known)
        BY DEF Mirrors
    <2>2. CASE e = f
        BY <1>2, <2>2 DEF Mirrored
    <2>3. CASE e # f
        BY <1>1, <1>3, <2>1, <2>3 DEF Mirrored
    <2> QED
        BY <2>2, <2>3
<1> QED
    BY <1>1, <1>4 DEF Mirrors

\* The listener sends what a sample tells, or ignores an entity that is not visible.
LEMMA MirrorsOnData ==
    ASSUME DiscoTypeOK, NEW f \in Entity, on_data(f), OnlyVisible(disco),
           NEW of \in SUBSET Visible, NEW known,
           Mirrors(of, alive, builtin, disco, known)
    PROVE  OnlyVisible(disco') /\ Mirrors(of, alive', builtin', disco', known)
<1>1. /\ builtin \in [Entity -> {"taken", "alive", "disposed"}]
      /\ builtin[f] \in {"alive", "disposed"}
      /\ builtin' = [builtin EXCEPT ![f] = "taken"]
      /\ alive' = alive
      /\ disco \in Seq(DiscoveryEvent)
    BY DEF DiscoTypeOK, on_data
<1>2. builtin'[f] = "taken" /\ \A e \in Entity : e # f => builtin'[e] = builtin[e]
    BY <1>1
<1>3. CASE (ignored(f) \/ maybe_ignored(f)) /\ UNCHANGED disco
    <2>1. f \notin Visible
        <3>1. f \in Own => f \notin Visible
            BY VisibleAreForeign
        <3>2. f \notin Own => f \in Endpoint /\ TopicOf[f] \in BuiltinTopic
            BY <1>3 DEF ignored, maybe_ignored, Own
        <3> QED
            BY <3>1, <3>2 DEF Visible
    <2>2. ASSUME NEW e \in of PROVE Mirrored(e, alive', builtin', disco', known)
        <3>1. e # f /\ builtin'[e] = builtin[e]
            BY <1>2, <2>1, VisibleAreForeign
        <3>2. Mirrored(e, alive, builtin, disco, known)
            BY DEF Mirrors
        <3> QED
            BY <1>1, <1>3, <3>1, <3>2 DEF Mirrored
    <2> QED
        BY <1>3, <2>2 DEF Mirrors
<1>4. CASE ~ ignored(f) /\ send_discovery_event(event_of(f))
    <2>1. /\ disco' = Append(disco, event_of(f)) /\ event_of(f) \in DiscoveryEvent
          /\ event_of(f).key = f
          /\ event_of(f).discovered <=> builtin[f] = "alive"
        BY <1>4 DEF send_discovery_event, event_of, DiscoveryEvent
    <2>2. ASSUME NEW e \in of PROVE Mirrored(e, alive', builtin', disco', known)
        <3>1. Mirrored(e, alive, builtin, disco, known)
            BY DEF Mirrors
        <3>2. IF e = f THEN builtin'[e] = "taken" ELSE builtin'[e] = builtin[e]
            BY <1>2, VisibleAreForeign
        <3> QED
            BY <1>1, <2>1, <3>1, <3>2, MirroredSent
    <2>3. builtin[f] = "alive" => f \in Visible
        BY <1>4 DEF ignored, Visible, Entity, Own
    <2>4. OnlyVisible(disco')
        <3>1. \A i \in 1..Len(disco') :
                    \/ i \in 1..Len(disco) /\ disco'[i] = disco[i]
                    \/ disco'[i] = event_of(f)
            BY <1>1, <2>1
        <3> QED
            BY <2>1, <2>3, <3>1 DEF OnlyVisible
    <2> QED
        BY <2>2, <2>4 DEF Mirrors
<1> QED
    BY <1>3, <1>4 DEF on_data

\* The handler of an event makes the bridge know what it tells.
LEMMA MirrorsReceived ==
    ASSUME DiscoTypeOK, OnlyVisible(disco), NEW event, Receive(event),
           NEW of \in SUBSET Visible, NEW known, NEW known2 \in SUBSET of,
           \A e \in of : builtin'[e] = builtin[e] /\ (e \in alive' <=> e \in alive),
           \A e \in of : IF event.key # e THEN e \in known2 <=> e \in known
                         ELSE IF event.discovered THEN e \in known2
                         ELSE e \notin known2,
           Mirrors(of, alive, builtin, disco, known)
    PROVE  OnlyVisible(disco') /\ Mirrors(of, alive', builtin', disco', known2)
<1>1. /\ disco \in Seq(DiscoveryEvent) /\ disco # <<>>
      /\ Head(disco) = event /\ disco' = Tail(disco)
    BY DEF DiscoTypeOK, Receive
<1>2. ASSUME NEW e \in of PROVE Mirrored(e, alive', builtin', disco', known2)
    <2>1. Mirrored(e, alive, builtin, disco, known)
        BY DEF Mirrors
    <2>2. Mirrored(e, alive, builtin, disco', known2)
        BY <1>1, <2>1, MirroredReceived
    <2> QED
        BY <2>2 DEF Mirrored
<1>3. OnlyVisible(disco')
    <2>1. \A i \in 1..Len(disco') : i + 1 \in 1..Len(disco) /\ disco'[i] = disco[i + 1]
        BY <1>1
    <2> QED
        BY <2>1 DEF OnlyVisible
<1> QED
    BY <1>2, <1>3 DEF Mirrors

\* The bridge's own endpoints, which handlers create and delete, do not matter.
LEMMA OwnEndpointsInvisible ==
    ASSUME NEW born \in SUBSET OwnEndpoint, NEW dead \in SUBSET OwnEndpoint,
           EntitiesChange(born, dead)
    PROVE  \A e \in Visible : builtin'[e] = builtin[e] /\ (e \in alive' <=> e \in alive)
BY VisibleAreForeign DEF EntitiesChange, Own

\* A quiet system knows what exists.
LEMMA MirrorsQuiet ==
    ASSUME Quiet, NEW of \in SUBSET Visible, NEW known,
           Mirrors(of, alive, builtin, disco, known)
    PROVE  known = alive \cap of
<1>1. disco = <<>> /\ Len(disco) = 0 /\ \A e \in of : builtin[e] = "taken"
    BY VisibleAreForeign DEF Quiet
<1>2. \A e \in of : e \in known <=> e \in alive
    BY <1>1 DEF Mirrors, Mirrored
<1> QED
    BY <1>2 DEF Mirrors

\* At first nothing exists and nothing is known.
LEMMA MirrorsInit ==
    ASSUME DiscoInit, NEW of \in SUBSET Visible
    PROVE  OnlyVisible(disco) /\ Mirrors(of, alive, builtin, disco, {})
<1>1. disco = <<>> /\ 1..Len(disco) = {} /\ alive = {Self}
    BY DEF DiscoInit
<1>2. \A e \in of : e # Self /\ builtin[e] = "taken"
    BY VisibleAreForeign DEF DiscoInit, Own
<1> QED
    BY <1>1, <1>2 DEF Mirrors, Mirrored, OnlyVisible
=============================================================================
