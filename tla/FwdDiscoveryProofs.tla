-------------------------- MODULE FwdDiscoveryProofs --------------------------
(***************************************************************************)
(* Proofs about FwdDiscovery for all entities, plugins, names and          *)
(* configurations.                                                         *)
(***************************************************************************)
EXTENDS FwdDiscovery, DiscoveryLemmas

-----------------------------------------------------------------------------
(* The inductive invariant: one part per direction, next to the types and  *)
(* the admin space.  That the topic of a route is one gives the DDS writer *)
(* created later for an old route its type.                                *)

ToDdsInv ==
    /\ routes_to_dds =
        {ke \in Key : local_routed_readers[ke] # {} \/ remote_routed_writers[ke] # {}}
    /\ \A ke \in Key : dds_writer[ke] # NoEntity <=> remote_routed_writers[ke] # {}
    /\ \A ke \in Key : OwnWriter(ke) \in alive <=> dds_writer[ke] # NoEntity
    /\ \A ke \in routes_to_dds : topic_name[ke] \in Topic

FromDdsInv ==
    /\ routes_from_dds = {ke \in Key : remote_routed_readers[ke] # {}}
    /\ \A ke \in Key : OwnReader(ke) \in alive <=> dds_reader[ke] \in DdsEndpoint
    /\ \A ke \in Key : dds_reader[ke] # NoEntity <=> ke \in routes_from_dds
    /\ \A ke \in Key : dds_reader[ke] = BadEntity => ke \in Periodic \cap MayFail

IInv == TypeOK /\ ToDdsInv /\ FromDdsInv /\ AdminSpaceExact

\* The inductive invariant implies the invariants the runs check.
LEMMA Consequences ==
    ASSUME IInv
    PROVE  TypeOK /\ RoutesAreUsed /\ WriterIffRemoteWriter /\ AdminSpaceExact /\ NoEndpointLeak
BY DEF IInv, ToDdsInv, FromDdsInv, RoutesAreUsed, WriterIffRemoteWriter, NoEndpointLeak

\* What a step does to the remote endpoints of the routes,
RemoteStep ==
    \/ UNCHANGED remote_vars
    \/ \E x \in RemoteWriter : \E keys \in SUBSET RemoteKeysOf(x) :
        /\ remote_routed_writers' = add_remote_routed_writer(x, keys)
        /\ UNCHANGED remote_routed_readers
    \/ \E x \in RemoteReader : \E keys \in SUBSET RemoteKeysOf(x) :
        /\ remote_routed_readers' = add_remote_routed_reader(x, keys)
        /\ UNCHANGED remote_routed_writers
    \/ \E x \in RemoteWriter :
        /\ remote_routed_writers' = remove_remote_routed_writers({x})
        /\ UNCHANGED remote_routed_readers
    \/ \E x \in RemoteReader :
        /\ remote_routed_readers' = remove_remote_routed_readers({x})
        /\ UNCHANGED remote_routed_writers
    \/ \E plugin \in Plugin :
        /\ remote_routed_writers' = remove_remote_routed_writers(EntitiesOf(plugin))
        /\ remote_routed_readers' = remove_remote_routed_readers(EntitiesOf(plugin))

\* and what it leaves of the routes' DDS endpoints and local readers.
Promise ==
    /\ RemoteStep
    /\ \A ke \in Key : dds_writer'[ke] # dds_writer[ke] =>
            remote_routed_writers[ke] = {} \/ remote_routed_writers'[ke] = {}
    /\ \A ke \in Key : dds_reader'[ke] # dds_reader[ke] =>
            remote_routed_readers[ke] = {} \/ remote_routed_readers'[ke] = {}
    /\ \/ PluginDeparture
       \/ \A ke \in Key : local_routed_readers[ke] \cap discovered_readers'
                            \subseteq local_routed_readers'[ke]

-----------------------------------------------------------------------------
(* The operators the handlers are built from. *)

\* The keys of a remote endpoint are keys, its topic and QoS those of an endpoint.
LEMMA RemoteKeysAreKeys ==
    ASSUME NEW x \in Remote
    PROVE  /\ RemoteKeysOf(x) \subseteq Key
           /\ RemoteTopicOf[x] \in Topic /\ RemoteQosOf[x] \in Qos
           /\ forwarding_writer_qos(RemoteQosOf[x]) \in Qos
<1>1. /\ RemoteTopicOf[x] \in Topic /\ RemoteQosOf[x] \in Qos
      /\ RemoteScopeOf[PluginOf[x]] \in Scopes
      /\ RemoteSlotsOf(x) \subseteq Slot
    BY RemoteAssumption DEF RemoteAssumption, RemoteSlotsOf, Slot
<1>2. \A p \in RemoteSlotsOf(x) : RemoteKeyFor(x, p) \in Key
    BY <1>1 DEF RemoteKeyFor, Key
<1>3. forwarding_writer_qos(RemoteQosOf[x]) \in Qos
    BY <1>1 DEF forwarding_writer_qos, Qos
<1> QED
    BY <1>1, <1>2, <1>3 DEF RemoteKeysOf

\* The domain after endpoints of routes are created,
LEMMA BornEndpoints ==
    ASSUME DiscoTypeOK, NEW readers \in SUBSET Key, NEW writers \in SUBSET Key, NEW born,
           born = {OwnReader(ke) : ke \in readers} \cup {OwnWriter(ke) : ke \in writers},
           EntitiesChange(born, {})
    PROVE  /\ \A ke \in Key : OwnReader(ke) \in alive' <=> OwnReader(ke) \in alive \/ ke \in readers
           /\ \A ke \in Key : OwnWriter(ke) \in alive' <=> OwnWriter(ke) \in alive \/ ke \in writers
           /\ alive' \in SUBSET Entity
           /\ builtin' \in [Entity -> {"taken", "alive", "disposed"}]
<1>1. born \in SUBSET Entity
    BY DEF Entity, Own, OwnEndpoint, OwnReaders, OwnWriters
<1>2. /\ alive' \in SUBSET Entity
      /\ builtin' \in [Entity -> {"taken", "alive", "disposed"}]
    BY <1>1, EntitiesChangeType
<1>3. alive' = alive \cup born
    BY DEF EntitiesChange
<1>4. \A ke \in Key : OwnReader(ke) \in born <=> ke \in readers
    BY DEF OwnReader, OwnWriter
<1>5. \A ke \in Key : OwnWriter(ke) \in born <=> ke \in writers
    BY DEF OwnReader, OwnWriter
<1> QED
    BY <1>2, <1>3, <1>4, <1>5

\* and after they are deleted.
LEMMA DeadEndpoints ==
    ASSUME DiscoTypeOK, NEW from_dds \in SUBSET Key, NEW to_dds \in SUBSET Key, NEW dead,
           dead = RouteZenohDDS_drop(to_dds) \cup RouteDDSZenoh_drop(from_dds),
           EntitiesChange({}, dead)
    PROVE  /\ \A ke \in Key : OwnReader(ke) \in alive' <=> OwnReader(ke) \in alive /\ ke \notin from_dds
           /\ \A ke \in Key : OwnWriter(ke) \in alive' <=> OwnWriter(ke) \in alive /\ ke \notin to_dds
           /\ alive' \in SUBSET Entity
           /\ builtin' \in [Entity -> {"taken", "alive", "disposed"}]
<1>1. dead \in SUBSET Entity
    BY DEF DiscoTypeOK, RouteZenohDDS_drop, RouteDDSZenoh_drop
<1>2. /\ alive' \in SUBSET Entity
      /\ builtin' \in [Entity -> {"taken", "alive", "disposed"}]
    BY <1>1, EntitiesChangeType
<1>3. alive' = alive \ dead
    BY DEF EntitiesChange
<1>4. \A ke \in Key : OwnReader(ke) \in dead <=> ke \in from_dds /\ OwnReader(ke) \in alive
    BY DEF OwnReader, OwnWriter, RouteZenohDDS_drop, RouteDDSZenoh_drop
<1>5. \A ke \in Key : OwnWriter(ke) \in dead <=> ke \in to_dds /\ OwnWriter(ke) \in alive
    BY DEF OwnReader, OwnWriter, RouteZenohDDS_drop, RouteDDSZenoh_drop
<1> QED
    BY <1>2, <1>3, <1>4, <1>5

\* A direction that a step does not touch.
LEMMA ToDdsUntouched ==
    ASSUME IInv, UNCHANGED <<to_vars, remote_routed_writers>>,
           \A ke \in Key : OwnWriter(ke) \in alive' <=> OwnWriter(ke) \in alive
    PROVE  ToDdsInv'
BY DEF IInv, ToDdsInv, to_vars

\* The same for the routes from DDS.
LEMMA FromDdsUntouched ==
    ASSUME IInv, UNCHANGED <<from_vars, remote_routed_readers>>,
           \A ke \in Key : OwnReader(ke) \in alive' <=> OwnReader(ke) \in alive
    PROVE  FromDdsInv'
BY DEF IInv, FromDdsInv, from_vars

\* The types of the channel from the DDS domain, and of the domain, after a handler.
LEMMA HandlerDiscoType ==
    ASSUME DiscoTypeOK, disco' = disco \/ \E event : Receive(event),
           alive' \in SUBSET Entity,
           builtin' \in [Entity -> {"taken", "alive", "disposed"}]
    PROVE  DiscoTypeOK'
<1>1. CASE disco' = disco
    BY <1>1 DEF DiscoTypeOK
<1>2. CASE \E event : Receive(event)
    BY <1>2, ReceiveType DEF DiscoTypeOK
<1> QED
    BY <1>1, <1>2

\* The types of the channels from the other plugins after a sample is received,
LEMMA SampleType ==
    ASSUME TypeOK, NEW x \in Remote, NEW kind_of, ReceiveSample(x, kind_of)
    PROVE  fwd_disco' \in [Remote -> Seq({"put", "delete"})]
<1>1. fwd_disco \in [Remote -> Seq({"put", "delete"})] /\ fwd_disco[x] # <<>>
    BY DEF TypeOK, ReceiveSample
<1>2. Tail(fwd_disco[x]) \in Seq({"put", "delete"})
    BY <1>1
<1> QED
    BY <1>1, <1>2 DEF ReceiveSample

-----------------------------------------------------------------------------
(* The handlers of the own domain's events. *)

\* A local writer comes or goes: it is advertised, and no route changes.
LEMMA PublicationStep ==
    ASSUME IInv, NEW w, NEW event, Receive(event), UNCHANGED zenoh_vars,
           \/ w \in Writer /\ DiscoveredPublication(w)
           \/ UndiscoveredPublication(w)
    PROVE  IInv' /\ Promise
<1>1. /\ UNCHANGED <<discovered_participants, discovered_readers, from_vars, to_vars>>
      /\ UNCHANGED <<remote_vars, alive, builtin>>
    BY DEF DiscoveredPublication, UndiscoveredPublication
<1>2. \/ /\ w \in Writer
         /\ advertised' = advertised \cup {w}
         /\ entity_routes' = [entity_routes EXCEPT ![w] = NoRoutes]
         /\ discovered_writers' = discovered_writers \cup {w}
         /\ admin_space' = admin_space \cup {<<"writer", w>>}
      \/ /\ advertised' = advertised \ {w}
         /\ entity_routes' = [entity_routes EXCEPT ![w] = NoRoutes]
         /\ discovered_writers' = discovered_writers \ {w}
         /\ admin_space' = admin_space \ {<<"writer", w>>}
      \/ UNCHANGED <<advertised, entity_routes, discovered_writers, admin_space>>
    BY DEF DiscoveredPublication, UndiscoveredPublication
<1>3. TypeOK'
    <2>1. DiscoTypeOK'
        BY <1>1, HandlerDiscoType DEF IInv, TypeOK, DiscoTypeOK
    <2>2. NoRoutes \in [Slot -> RouteStatus]
        BY DEF NoRoutes, RouteStatus
    <2>3. entity_routes' \in [Endpoint -> [Slot -> RouteStatus]]
        BY <1>2, <2>2 DEF IInv, TypeOK, TablesTypeOK
    <2>4. /\ advertised' \in SUBSET Endpoint
          /\ discovered_writers' \in SUBSET Writer
          /\ admin_space' \in SUBSET AdminRef
        BY <1>2 DEF IInv, TypeOK, TablesTypeOK, AdminRef, Endpoint
    <2> QED
        BY <1>1, <2>1, <2>3, <2>4 DEF IInv, TypeOK, TablesTypeOK, from_vars, to_vars,
            remote_vars, zenoh_vars
<1>4. ToDdsInv' /\ FromDdsInv'
    BY <1>1, ToDdsUntouched, FromDdsUntouched DEF remote_vars
<1>5. AdminSpaceExact'
    BY <1>1, <1>2 DEF IInv, AdminSpaceExact, from_vars, to_vars
<1>6. Promise
    BY <1>1 DEF Promise, RemoteStep, from_vars, to_vars
<1> QED
    BY <1>3, <1>4, <1>5, <1>6 DEF IInv

\* The discovery of reader r: the keys that end up routed, and the statuses.
SubscriptionEffect(r, routed, statuses) ==
    LET created == routed \ routes_to_dds IN
    /\ routes_to_dds' = routes_to_dds \cup routed
    /\ topic_name' = [ke \in Key |-> IF ke \in created THEN TopicOf[r] ELSE topic_name[ke]]
    /\ querying' \subseteq querying \cup created
    /\ local_routed_readers' = add_local_routed_reader(r, routed)
    /\ entity_routes' = [entity_routes EXCEPT ![r] = statuses]
    /\ advertised' = advertised \cup {r}
    /\ discovered_readers' = discovered_readers \cup {r}
    /\ admin_space' = admin_space \cup {<<"reader", r>>} \cup refs_to_dds(created)
    /\ UNCHANGED <<discovered_participants, discovered_writers, from_vars>>
    /\ UNCHANGED <<dds_writer, remote_vars, alive, builtin>>

\* A discovered subscription has that effect, whatever outcome each creation has.
LEMMA DiscoveredSubscriptionEffect ==
    ASSUME NEW r \in Reader, DiscoveredSubscription(r)
    PROVE  \E routed \in SUBSET Key, statuses \in [Slot -> RouteStatus] :
                SubscriptionEffect(r, routed, statuses)
<1>1. PICK outcome \in Outcomes(KeysOf(r) \ routes_to_dds, create_forwarding_dds_writer) :
        DiscoveredSubscription(r)!(outcome)
    BY DEF DiscoveredSubscription
<1> DEFINE outcome_of(ke) == IF ke \in routes_to_dds THEN "created" ELSE outcome[ke]
           status(ke) == try_add_route_to_dds(ke, FALSE, outcome_of(ke))
           routed == {ke \in KeysOf(r) : status(ke) = "Routed"}
           statuses == [p \in Slot |-> IF p \in SlotsOf(r) THEN status(KeyFor(r, p))
                                       ELSE "absent"]
<1>2. routed \in SUBSET Key
    BY KeysAreKeys DEF Endpoint
<1>3. statuses \in [Slot -> RouteStatus]
    BY DEF try_add_route_to_dds, RouteStatus
<1>4. RouteZenohDDS_new(routed \ routes_to_dds, TopicOf[r], QosOf[r])
    BY <1>1
<1>5. SubscriptionEffect(r, routed, statuses)
    <2>1. /\ routes_to_dds' = routes_to_dds \cup routed
          /\ topic_name' = [ke \in Key |-> IF ke \in routed \ routes_to_dds THEN TopicOf[r]
                                           ELSE topic_name[ke]]
          /\ querying' \subseteq querying \cup (routed \ routes_to_dds)
        BY <1>4 DEF RouteZenohDDS_new
    <2>2. /\ local_routed_readers' = add_local_routed_reader(r, routed)
          /\ entity_routes' = [entity_routes EXCEPT ![r] = statuses]
          /\ advertised' = advertised \cup {r}
          /\ discovered_readers' = discovered_readers \cup {r}
        BY <1>1
    <2>3. /\ admin_space' = admin_space \cup {<<"reader", r>>}
                                \cup refs_to_dds(routed \ routes_to_dds)
          /\ UNCHANGED <<discovered_participants, discovered_writers, from_vars>>
          /\ UNCHANGED <<dds_writer, remote_vars, alive, builtin>>
        BY <1>1
    <2> QED
        BY <2>1, <2>2, <2>3 DEF SubscriptionEffect
<1> QED
    BY <1>2, <1>3, <1>5

\* A local reader gets a route without DDS writer, or joins one.
LEMMA DiscoveredSubscriptionStep ==
    ASSUME IInv, NEW r \in Reader, NEW event, Receive(event), UNCHANGED zenoh_vars,
           DiscoveredSubscription(r)
    PROVE  IInv' /\ Promise
<1>1. PICK routed \in SUBSET Key, statuses \in [Slot -> RouteStatus] :
        SubscriptionEffect(r, routed, statuses)
    BY DiscoveredSubscriptionEffect
<1>2. r \in Endpoint /\ TopicOf[r] \in Topic
    BY EntitiesAssumption DEF EntitiesAssumption, Endpoint
<1>3. TypeOK'
    <2>1. DiscoTypeOK'
        BY <1>1, HandlerDiscoType DEF SubscriptionEffect, IInv, TypeOK, DiscoTypeOK
    <2>2. entity_routes' \in [Endpoint -> [Slot -> RouteStatus]]
        BY <1>1 DEF SubscriptionEffect, IInv, TypeOK, TablesTypeOK
    <2>3. local_routed_readers' \in [Key -> SUBSET Reader]
        BY <1>1 DEF SubscriptionEffect, add_local_routed_reader, IInv, TypeOK, TablesTypeOK
    <2>4. /\ routes_to_dds' \in SUBSET Key /\ querying' \in SUBSET Key
          /\ topic_name' \in [Key -> Topic \cup {NoEntity}]
        BY <1>1, <1>2 DEF SubscriptionEffect, IInv, TypeOK, TablesTypeOK
    <2>5. /\ advertised' \in SUBSET Endpoint
          /\ discovered_readers' \in SUBSET Reader
          /\ admin_space' \in SUBSET AdminRef
        BY <1>1, <1>2 DEF SubscriptionEffect, IInv, TypeOK, TablesTypeOK, AdminRef, refs_to_dds
    <2> QED
        BY <1>1, <2>1, <2>2, <2>3, <2>4, <2>5 DEF SubscriptionEffect, IInv, TypeOK,
            TablesTypeOK, from_vars, remote_vars, zenoh_vars
<1>4. ToDdsInv'
    BY <1>1, <1>2 DEF SubscriptionEffect, add_local_routed_reader, IInv, ToDdsInv, remote_vars
<1>5. FromDdsInv'
    BY <1>1, FromDdsUntouched DEF SubscriptionEffect, remote_vars
<1>6. AdminSpaceExact'
    BY <1>1 DEF SubscriptionEffect, refs_to_dds, IInv, AdminSpaceExact, from_vars
<1>7. Promise
    BY <1>1 DEF SubscriptionEffect, add_local_routed_reader, Promise, RemoteStep, from_vars
<1> QED
    BY <1>3, <1>4, <1>5, <1>6, <1>7 DEF IInv

\* A local reader goes, with the routes that have no other use.
LEMMA UndiscoveredSubscriptionStep ==
    ASSUME IInv, NEW r, NEW event, Receive(event), UNCHANGED zenoh_vars,
           UndiscoveredSubscription(r)
    PROVE  IInv' /\ Promise
<1> DEFINE gone == unused_routes_to_dds(r)
           known == {r} \cap discovered_readers
<1>1. /\ advertised' = advertised \ known
      /\ entity_routes' = [e \in Endpoint |-> IF e \in known THEN NoRoutes
                                              ELSE entity_routes[e]]
      /\ discovered_readers' = discovered_readers \ known
      /\ admin_space' = (admin_space \ {<<"reader", e>> : e \in known}) \ refs_to_dds(gone)
      /\ local_routed_readers' = remove_local_routed_reader(r)
      /\ routes_to_dds' = routes_to_dds \ gone
      /\ topic_name' = without_routes(topic_name, gone)
      /\ querying' = querying \ gone
      /\ dds_writer' = without_routes(dds_writer, gone)
      /\ EntitiesChange({}, RouteZenohDDS_drop(gone))
      /\ UNCHANGED <<discovered_participants, discovered_writers, from_vars, remote_vars>>
    BY DEF UndiscoveredSubscription, drop_to_dds
<1>2. gone \in SUBSET Key
    BY DEF IInv, TypeOK, TablesTypeOK, unused_routes_to_dds
<1>3. /\ \A ke \in Key : OwnReader(ke) \in alive' <=> OwnReader(ke) \in alive
      /\ \A ke \in Key : OwnWriter(ke) \in alive' <=> OwnWriter(ke) \in alive /\ ke \notin gone
      /\ alive' \in SUBSET Entity
      /\ builtin' \in [Entity -> {"taken", "alive", "disposed"}]
    <2>1. RouteZenohDDS_drop(gone) = RouteZenohDDS_drop(gone) \cup RouteDDSZenoh_drop({})
        BY DEF RouteDDSZenoh_drop
    <2>2. DiscoTypeOK /\ {} \in SUBSET Key
        BY DEF IInv, TypeOK
    <2> QED
        BY <1>1, <1>2, <2>1, <2>2, DeadEndpoints
<1>4. TypeOK'
    <2>1. DiscoTypeOK'
        BY <1>3, HandlerDiscoType DEF IInv, TypeOK
    <2>2. entity_routes' \in [Endpoint -> [Slot -> RouteStatus]]
        BY <1>1 DEF IInv, TypeOK, TablesTypeOK, NoRoutes, RouteStatus
    <2>3. local_routed_readers' \in [Key -> SUBSET Reader]
        BY <1>1 DEF remove_local_routed_reader, IInv, TypeOK, TablesTypeOK
    <2>4. /\ routes_to_dds' \in SUBSET Key /\ querying' \in SUBSET Key
          /\ topic_name' \in [Key -> Topic \cup {NoEntity}]
          /\ dds_writer' \in [Key -> DdsEndpoint \cup {NoEntity}]
        BY <1>1 DEF without_routes, IInv, TypeOK, TablesTypeOK
    <2>5. /\ advertised' \in SUBSET Endpoint
          /\ discovered_readers' \in SUBSET Reader
          /\ admin_space' \in SUBSET AdminRef
        BY <1>1 DEF IInv, TypeOK, TablesTypeOK
    <2> QED
        BY <1>1, <2>1, <2>2, <2>3, <2>4, <2>5 DEF IInv, TypeOK, TablesTypeOK, from_vars,
            remote_vars, zenoh_vars
<1>5. \A ke \in gone : /\ remote_routed_writers[ke] = {} /\ dds_writer[ke] = NoEntity
                       /\ local_routed_readers'[ke] = {}
    BY <1>1, <1>2 DEF unused_routes_to_dds, IInv, ToDdsInv
<1>6. \A ke \in routes_to_dds \ gone : \/ local_routed_readers'[ke] # {}
                                       \/ remote_routed_writers[ke] # {}
    BY <1>1 DEF unused_routes_to_dds
<1>7. \A ke \in Key : local_routed_readers'[ke] = local_routed_readers[ke] \ {r}
    BY <1>1 DEF remove_local_routed_reader
<1>8. /\ \A ke \in Key : dds_writer'[ke] = dds_writer[ke]
      /\ \A ke \in routes_to_dds' : topic_name'[ke] = topic_name[ke]
    BY <1>1, <1>5 DEF without_routes, IInv, TypeOK, TablesTypeOK
<1>9. ToDdsInv'
    BY <1>1, <1>3, <1>5, <1>6, <1>7, <1>8 DEF IInv, ToDdsInv, remote_vars
<1>10. FromDdsInv'
    BY <1>1, <1>3, FromDdsUntouched DEF remote_vars
<1>11. AdminSpaceExact'
    BY <1>1 DEF refs_to_dds, IInv, AdminSpaceExact, from_vars
<1>12. Promise
    <2>1. r \notin discovered_readers'
        BY <1>1
    <2> QED
        BY <1>1, <1>7, <1>8, <2>1 DEF Promise, RemoteStep, from_vars
<1> QED
    BY <1>4, <1>9, <1>10, <1>11, <1>12 DEF IInv

-----------------------------------------------------------------------------
(* The handlers of the samples about remote writers. *)

\* A sample that says that writer x exists: the keys that end up routed.
PutWriterEffect(x, routed) ==
    LET created == routed \ routes_to_dds
        lacking == {ke \in routed : ke \notin routes_to_dds \/ dds_writer[ke] = NoEntity}
    IN
    /\ routes_to_dds' = routes_to_dds \cup routed
    /\ topic_name' = [ke \in Key |-> IF ke \in created THEN RemoteTopicOf[x]
                                     ELSE topic_name[ke]]
    /\ querying' \subseteq querying \cup created
    /\ dds_writer' = [ke \in Key |-> IF ke \in lacking
                            THEN set_dds_writer(ke, RemoteQosOf[x]) ELSE dds_writer[ke]]
    /\ remote_routed_writers' = add_remote_routed_writer(x, routed)
    /\ local_routed_readers' \in [Key -> SUBSET Reader]
    /\ \A ke \in Key : local_routed_readers[ke] \subseteq local_routed_readers'[ke]
    /\ \A ke \in Key \ routed : local_routed_readers'[ke] = local_routed_readers[ke]
    /\ entity_routes' \in [Endpoint -> [Slot -> RouteStatus]]
    /\ admin_space' = admin_space \cup refs_to_dds(created)
    /\ EntitiesChange({OwnWriter(ke) : ke \in lacking}, {})
    /\ UNCHANGED <<entity_vars, from_vars, advertised, remote_routed_readers>>

\* The statuses a sample of a remote endpoint updates keep their type.
LEMMA RoutesUpdatedType ==
    ASSUME TypeOK, NEW discovered, NEW x, NEW routed
    PROVE  routes_updated(discovered, x, routed) \in [Endpoint -> [Slot -> RouteStatus]]
BY DEF TypeOK, TablesTypeOK, routes_updated, RouteStatus

\* Such a sample has that effect, whatever outcome each creation has.
LEMMA PutWriterHasEffect ==
    ASSUME TypeOK, NEW x \in RemoteWriter, PutWriter(x)
    PROVE  \E routed \in SUBSET RemoteKeysOf(x) : PutWriterEffect(x, routed)
<1> DEFINE lacking == lacking_writer(RemoteKeysOf(x))
<1>1. PICK outcome \in Outcomes(lacking, create_forwarding_dds_writer) : PutWriter(x)!(outcome)
    BY DEF PutWriter
<1> DEFINE outcome_of(ke) == IF ke \in lacking THEN outcome[ke] ELSE "created"
           routed == {ke \in RemoteKeysOf(x) :
                        try_add_route_to_dds(ke, TRUE, outcome_of(ke)) = "Routed"}
           created == routed \ routes_to_dds
           filled == {ke \in routed : ke \notin routes_to_dds \/ dds_writer[ke] = NoEntity}
           joining(ke) == UNION {matching(discovered_readers, x, p) :
                                    p \in {q \in RemoteSlotsOf(x) :
                                            RemoteKeyFor(x, q) = ke /\ ke \in routed}}
<1>2. routed \in SUBSET RemoteKeysOf(x) /\ routed \in SUBSET Key
    BY RemoteKeysAreKeys DEF Remote
<1>3. routed \cap lacking = filled
    BY DEF lacking_writer
<1>4. RouteZenohDDS_new(created, RemoteTopicOf[x], RemoteQosOf[x])
    BY <1>1
<1>5. dds_writer' = [ke \in Key |-> IF ke \in routed \cap lacking
                            THEN set_dds_writer(ke, RemoteQosOf[x]) ELSE dds_writer[ke]]
    BY <1>1
<1>6. local_routed_readers' = [ke \in Key |-> local_routed_readers[ke] \cup joining(ke)]
    BY <1>1
<1>7. /\ \A ke : joining(ke) \subseteq discovered_readers
      /\ \A ke : ke \notin routed => joining(ke) = {}
    BY DEF matching
<1>8. discovered_readers \subseteq Reader /\ local_routed_readers \in [Key -> SUBSET Reader]
    BY DEF TypeOK, TablesTypeOK
<1>9. entity_routes' \in [Endpoint -> [Slot -> RouteStatus]]
    BY <1>1, RoutesUpdatedType
<1>10. EntitiesChange({OwnWriter(ke) : ke \in routed \cap lacking}, {})
    BY <1>1
<1>11. PutWriterEffect(x, routed)
    <2>1. /\ routes_to_dds' = routes_to_dds \cup routed
          /\ topic_name' = [ke \in Key |-> IF ke \in created THEN RemoteTopicOf[x]
                                           ELSE topic_name[ke]]
          /\ querying' \subseteq querying \cup created
        BY <1>4 DEF RouteZenohDDS_new
    <2>2. /\ local_routed_readers' \in [Key -> SUBSET Reader]
          /\ \A ke \in Key : local_routed_readers[ke] \subseteq local_routed_readers'[ke]
          /\ \A ke \in Key \ routed : local_routed_readers'[ke] = local_routed_readers[ke]
        <3> HIDE DEF joining
        <3> QED
            BY <1>6, <1>7, <1>8
    <2>3. /\ remote_routed_writers' = add_remote_routed_writer(x, routed)
          /\ admin_space' = admin_space \cup refs_to_dds(created)
          /\ UNCHANGED <<entity_vars, from_vars, advertised, remote_routed_readers>>
        BY <1>1
    <2> QED
        BY <1>3, <1>5, <1>9, <1>10, <2>1, <2>2, <2>3 DEF PutWriterEffect
<1> QED
    BY <1>2, <1>11

\* A remote writer opens routes, or joins those there are and gives those that
\* were there for local readers their DDS writer.
LEMMA PutWriterStep ==
    ASSUME IInv, NEW x \in RemoteWriter, NEW kind_of, ReceiveSample(x, kind_of), PutWriter(x)
    PROVE  IInv' /\ Promise
<1>1. PICK routed \in SUBSET RemoteKeysOf(x) : PutWriterEffect(x, routed)
    BY PutWriterHasEffect DEF IInv
<1> DEFINE created == routed \ routes_to_dds
           lacking == {ke \in routed : ke \notin routes_to_dds \/ dds_writer[ke] = NoEntity}
<1>2. x \in Remote /\ routed \in SUBSET Key
    BY RemoteKeysAreKeys DEF Remote
<1>3. /\ \A ke \in Key : OwnReader(ke) \in alive' <=> OwnReader(ke) \in alive
      /\ \A ke \in Key : OwnWriter(ke) \in alive' <=> OwnWriter(ke) \in alive \/ ke \in lacking
      /\ alive' \in SUBSET Entity
      /\ builtin' \in [Entity -> {"taken", "alive", "disposed"}]
    <2> DEFINE born == {OwnWriter(ke) : ke \in lacking}
    <2>1. born = {OwnReader(ke) : ke \in {}} \cup {OwnWriter(ke) : ke \in lacking}
        OBVIOUS
    <2>2. EntitiesChange(born, {}) /\ lacking \in SUBSET Key /\ {} \in SUBSET Key /\ DiscoTypeOK
        BY <1>1, <1>2 DEF PutWriterEffect, IInv, TypeOK
    <2> HIDE DEF born, lacking
    <2> QED
        BY <2>1, <2>2, BornEndpoints
<1>4. /\ topic_name' \in [Key -> Topic \cup {NoEntity}]
      /\ \A ke \in routes_to_dds' : topic_name'[ke] \in Topic
    BY <1>1, <1>2, RemoteKeysAreKeys DEF PutWriterEffect, IInv, TypeOK, TablesTypeOK, ToDdsInv
<1>5. \A ke \in lacking : set_dds_writer(ke, RemoteQosOf[x]) \in DdsEndpoint
    BY <1>1, <1>2, <1>4, RemoteKeysAreKeys DEF PutWriterEffect, set_dds_writer, DdsEndpoint
<1>6. NoEntity \notin DdsEndpoint
    BY RoutesAssumption DEF RoutesAssumption, DdsEndpoint
<1>7. /\ dds_writer' \in [Key -> DdsEndpoint \cup {NoEntity}]
      /\ \A ke \in lacking : dds_writer'[ke] # NoEntity
      /\ \A ke \in Key \ lacking : dds_writer'[ke] = dds_writer[ke]
    BY <1>1, <1>2, <1>5, <1>6 DEF PutWriterEffect, IInv, TypeOK, TablesTypeOK
<1>8. TypeOK'
    <2>1. DiscoTypeOK'
        BY <1>3, HandlerDiscoType DEF IInv, TypeOK, ReceiveSample
    <2>2. remote_routed_writers' \in [Key -> SUBSET RemoteWriter]
        BY <1>1, <1>2 DEF PutWriterEffect, add_remote_routed_writer, IInv, TypeOK
    <2>3. /\ routes_to_dds' \in SUBSET Key /\ querying' \in SUBSET Key
          /\ admin_space' \in SUBSET AdminRef
        BY <1>1, <1>2 DEF PutWriterEffect, IInv, TypeOK, TablesTypeOK, AdminRef, refs_to_dds
    <2>4. fwd_disco' \in [Remote -> Seq({"put", "delete"})]
        BY <1>2, SampleType DEF IInv
    <2> QED
        BY <1>1, <1>2, <1>4, <1>7, <2>1, <2>2, <2>3, <2>4 DEF PutWriterEffect, IInv, TypeOK,
            TablesTypeOK, entity_vars, from_vars, ReceiveSample
<1>9. ToDdsInv'
    <2>1. routes_to_dds' = {ke \in Key : \/ local_routed_readers'[ke] # {}
                                         \/ remote_routed_writers'[ke] # {}}
        BY <1>1, <1>2 DEF PutWriterEffect, add_remote_routed_writer, IInv, ToDdsInv
    <2>2. \A ke \in Key : remote_routed_writers'[ke] # {} <=>
                            ke \in routed \/ remote_routed_writers[ke] # {}
        BY <1>1, <1>2 DEF PutWriterEffect, add_remote_routed_writer
    <2>3. \A ke \in Key : dds_writer'[ke] # NoEntity <=> ke \in routed \/ dds_writer[ke] # NoEntity
        BY <1>7
    <2> QED
        BY <1>3, <1>4, <2>1, <2>2, <2>3, <1>7 DEF IInv, ToDdsInv
<1>10. FromDdsInv'
    BY <1>1, <1>3, FromDdsUntouched DEF PutWriterEffect
<1>11. AdminSpaceExact'
    BY <1>1, <1>2 DEF PutWriterEffect, refs_to_dds, IInv, AdminSpaceExact, entity_vars, from_vars
<1>12. Promise
    <2>1. \A ke \in lacking : remote_routed_writers[ke] = {}
        BY <1>2 DEF IInv, ToDdsInv
    <2>2. RemoteStep
        BY <1>1, <1>2 DEF PutWriterEffect, RemoteStep
    <2> QED
        BY <1>1, <1>2, <1>7, <2>1, <2>2 DEF PutWriterEffect, Promise, from_vars
<1> QED
    BY <1>8, <1>9, <1>10, <1>11, <1>12 DEF IInv

\* Remote writers go: the DDS writers of the routes they were the last ones of go,
\* and some of those routes, gone, namely those without local reader, or all.
LEMMA WritersLeave ==
    ASSUME IInv, NEW entities, NEW idle, idle = routes_without_writer(entities),
           NEW gone \in SUBSET idle,
           \A ke \in idle \ gone : local_routed_readers[ke] # {},
           remote_routed_writers' = remove_remote_routed_writers(entities),
           drop_to_dds(gone),
           dds_writer' = without_routes(dds_writer, idle),
           local_routed_readers' = [ke \in Key |-> IF ke \in gone THEN {}
                                                   ELSE local_routed_readers[ke]],
           \A ke \in Key : OwnWriter(ke) \in alive' <=> OwnWriter(ke) \in alive /\ ke \notin idle
    PROVE  /\ ToDdsInv'
           /\ routes_to_dds' \in SUBSET Key /\ querying' \in SUBSET Key
           /\ topic_name' \in [Key -> Topic \cup {NoEntity}]
           /\ dds_writer' \in [Key -> DdsEndpoint \cup {NoEntity}]
           /\ local_routed_readers' \in [Key -> SUBSET Reader]
           /\ remote_routed_writers' \in [Key -> SUBSET RemoteWriter]
           /\ \A ke \in Key : dds_writer'[ke] # dds_writer[ke] => remote_routed_writers'[ke] = {}
<1>1. /\ routes_to_dds' = routes_to_dds \ gone
      /\ topic_name' = without_routes(topic_name, gone)
      /\ querying' = querying \ gone
    BY DEF drop_to_dds
<1>2. /\ \A ke \in Key : remote_routed_writers'[ke] = remote_routed_writers[ke] \ entities
      /\ \A ke \in Key : remote_routed_writers'[ke] = remove_remote_routed_writers(entities)[ke]
    BY DEF remove_remote_routed_writers
<1>3. idle = {ke \in routes_to_dds : remote_routed_writers'[ke] = {}} /\ routes_to_dds \subseteq Key
    BY <1>2 DEF routes_without_writer, IInv, TypeOK, TablesTypeOK
<1>4. \A ke \in Key : dds_writer'[ke] = IF ke \in idle THEN NoEntity ELSE dds_writer[ke]
    BY DEF without_routes
<1>5. \A ke \in Key : remote_routed_writers'[ke] # {} => remote_routed_writers[ke] # {}
    BY <1>2
<1>6. ToDdsInv'
    <2>1. routes_to_dds' = {ke \in Key : \/ local_routed_readers'[ke] # {}
                                         \/ remote_routed_writers'[ke] # {}}
        BY <1>1, <1>3, <1>5 DEF IInv, ToDdsInv
    <2>2. \A ke \in Key : dds_writer'[ke] # NoEntity <=> remote_routed_writers'[ke] # {}
        BY <1>3, <1>4, <1>5 DEF IInv, ToDdsInv
    <2>3. \A ke \in Key : OwnWriter(ke) \in alive' <=> dds_writer'[ke] # NoEntity
        BY <1>4 DEF IInv, ToDdsInv
    <2>4. \A ke \in routes_to_dds' : topic_name'[ke] = topic_name[ke]
        BY <1>1, <1>3 DEF without_routes
    <2> QED
        BY <1>1, <2>1, <2>2, <2>3, <2>4 DEF IInv, ToDdsInv
<1>7. /\ topic_name' \in [Key -> Topic \cup {NoEntity}]
      /\ dds_writer' \in [Key -> DdsEndpoint \cup {NoEntity}]
    BY <1>1 DEF without_routes, IInv, TypeOK, TablesTypeOK
<1>8. /\ local_routed_readers' \in [Key -> SUBSET Reader]
      /\ remote_routed_writers' \in [Key -> SUBSET RemoteWriter]
    BY DEF remove_remote_routed_writers, IInv, TypeOK, TablesTypeOK
<1> QED
    BY <1>1, <1>3, <1>4, <1>6, <1>7, <1>8 DEF IInv, TypeOK, TablesTypeOK

\* What drops need of the domain, in the form the lemmas above use.
LEMMA DroppedToDds ==
    ASSUME DiscoTypeOK, NEW to_dds \in SUBSET Key, EntitiesChange({}, RouteZenohDDS_drop(to_dds))
    PROVE  /\ \A ke \in Key : OwnReader(ke) \in alive' <=> OwnReader(ke) \in alive
           /\ \A ke \in Key : OwnWriter(ke) \in alive' <=> OwnWriter(ke) \in alive /\ ke \notin to_dds
           /\ alive' \in SUBSET Entity
           /\ builtin' \in [Entity -> {"taken", "alive", "disposed"}]
<1>1. RouteZenohDDS_drop(to_dds) = RouteZenohDDS_drop(to_dds) \cup RouteDDSZenoh_drop({})
    BY DEF RouteDDSZenoh_drop
<1>2. {} \in SUBSET Key
    OBVIOUS
<1> QED
    BY <1>1, <1>2, DeadEndpoints

\* The same for the routes from DDS.
LEMMA DroppedFromDds ==
    ASSUME DiscoTypeOK, NEW from_dds \in SUBSET Key,
           EntitiesChange({}, RouteDDSZenoh_drop(from_dds))
    PROVE  /\ \A ke \in Key : OwnReader(ke) \in alive' <=> OwnReader(ke) \in alive /\ ke \notin from_dds
           /\ \A ke \in Key : OwnWriter(ke) \in alive' <=> OwnWriter(ke) \in alive
           /\ alive' \in SUBSET Entity
           /\ builtin' \in [Entity -> {"taken", "alive", "disposed"}]
<1>1. RouteDDSZenoh_drop(from_dds) = RouteZenohDDS_drop({}) \cup RouteDDSZenoh_drop(from_dds)
    BY DEF RouteZenohDDS_drop
<1>2. {} \in SUBSET Key
    OBVIOUS
<1> QED
    BY <1>1, <1>2, DeadEndpoints

\* A remote writer goes.
LEMMA DeleteWriterStep ==
    ASSUME IInv, NEW x \in RemoteWriter, NEW kind_of, ReceiveSample(x, kind_of), DeleteWriter(x)
    PROVE  IInv' /\ Promise
<1> DEFINE idle == routes_without_writer({x})
           gone == without_reader(idle)
<1>1. /\ remote_routed_writers' = remove_remote_routed_writers({x})
      /\ drop_to_dds(gone)
      /\ dds_writer' = without_routes(dds_writer, idle)
      /\ admin_space' = admin_space \ refs_to_dds(gone)
      /\ EntitiesChange({}, RouteZenohDDS_drop(idle))
      /\ UNCHANGED <<entity_vars, entity_routes, from_vars, local_routed_readers>>
      /\ UNCHANGED <<advertised, remote_routed_readers>>
    BY DEF DeleteWriter
<1>2. x \in Remote
    BY DEF Remote
<1>3. idle \in SUBSET Key /\ gone \in SUBSET idle /\ DiscoTypeOK
    BY DEF routes_without_writer, without_reader, IInv, TypeOK, TablesTypeOK
<1>4. \A ke \in idle \ gone : local_routed_readers[ke] # {}
    BY DEF without_reader
<1>5. local_routed_readers' = [ke \in Key |-> IF ke \in gone THEN {} ELSE local_routed_readers[ke]]
    BY <1>1 DEF without_reader, IInv, TypeOK, TablesTypeOK
<1>6. /\ \A ke \in Key : OwnReader(ke) \in alive' <=> OwnReader(ke) \in alive
      /\ \A ke \in Key : OwnWriter(ke) \in alive' <=> OwnWriter(ke) \in alive /\ ke \notin idle
      /\ alive' \in SUBSET Entity
      /\ builtin' \in [Entity -> {"taken", "alive", "disposed"}]
    BY <1>1, <1>3, DroppedToDds
<1>7. /\ ToDdsInv'
      /\ routes_to_dds' \in SUBSET Key /\ querying' \in SUBSET Key
      /\ topic_name' \in [Key -> Topic \cup {NoEntity}]
      /\ dds_writer' \in [Key -> DdsEndpoint \cup {NoEntity}]
      /\ local_routed_readers' \in [Key -> SUBSET Reader]
      /\ remote_routed_writers' \in [Key -> SUBSET RemoteWriter]
      /\ \A ke \in Key : dds_writer'[ke] # dds_writer[ke] => remote_routed_writers'[ke] = {}
    <2> HIDE DEF idle, gone
    <2>1. idle = routes_without_writer({x})
        BY DEF idle
    <2> QED
        BY <1>1, <1>3, <1>4, <1>5, <1>6, <2>1, WritersLeave
<1>8. TypeOK'
    <2>1. DiscoTypeOK'
        BY <1>6, HandlerDiscoType DEF IInv, TypeOK, ReceiveSample
    <2>2. fwd_disco' \in [Remote -> Seq({"put", "delete"})]
        BY <1>2, SampleType DEF IInv
    <2>3. admin_space' \in SUBSET AdminRef
        BY <1>1 DEF IInv, TypeOK, TablesTypeOK
    <2> QED
        BY <1>1, <1>7, <2>1, <2>2, <2>3 DEF IInv, TypeOK, TablesTypeOK, entity_vars, from_vars,
            ReceiveSample
<1>9. FromDdsInv'
    BY <1>1, <1>6, FromDdsUntouched
<1>10. AdminSpaceExact'
    BY <1>1 DEF drop_to_dds, refs_to_dds, IInv, AdminSpaceExact, entity_vars, from_vars
<1>11. Promise
    <2>1. RemoteStep
        BY <1>1 DEF RemoteStep
    <2> QED
        BY <1>1, <1>7, <2>1 DEF Promise, from_vars
<1> QED
    BY <1>7, <1>8, <1>9, <1>10, <1>11 DEF IInv

-----------------------------------------------------------------------------
(* The handlers of the samples about remote readers. *)

\* A sample that says that reader x exists: the keys that end up routed, and those
\* of them whose new DDS reader works.
PutReaderEffect(x, routed, working) ==
    LET created == routed \ routes_from_dds IN
    /\ routes_from_dds' = routes_from_dds \cup routed
    /\ dds_reader' = [ke \in Key |->
            IF ke \in working THEN [topic |-> RemoteTopicOf[x], qos |-> RemoteQosOf[x]]
            ELSE IF ke \in created THEN BadEntity ELSE dds_reader[ke]]
    /\ remote_routed_readers' = add_remote_routed_reader(x, routed)
    /\ local_routed_writers' \in [Key -> SUBSET Writer]
    /\ entity_routes' \in [Endpoint -> [Slot -> RouteStatus]]
    /\ admin_space' = admin_space \cup refs_from_dds(created)
    /\ created \ working \subseteq Periodic \cap MayFail
    /\ EntitiesChange({OwnReader(ke) : ke \in working}, {})
    /\ UNCHANGED <<entity_vars, to_vars, advertised, remote_routed_writers>>

\* Such a sample has that effect, whatever outcome each creation has.
LEMMA PutReaderHasEffect ==
    ASSUME TypeOK, NEW x \in RemoteReader, PutReader(x)
    PROVE  \E routed \in SUBSET RemoteKeysOf(x) : \E working \in SUBSET (routed \ routes_from_dds) :
                PutReaderEffect(x, routed, working)
<1>1. PICK outcome \in Outcomes(RemoteKeysOf(x) \ routes_from_dds, create_forwarding_dds_reader) :
        PutReader(x)!(outcome)
    BY DEF PutReader
<1> DEFINE outcome_of(ke) == IF ke \in routes_from_dds THEN "created" ELSE outcome[ke]
           routed == {ke \in RemoteKeysOf(x) :
                        try_add_route_from_dds(ke, outcome_of(ke)) = "Routed"}
           created == routed \ routes_from_dds
           working == {ke \in created : outcome_of(ke) = "created"}
           joining(ke) == UNION {matching(discovered_writers, x, p) :
                                    p \in {q \in RemoteSlotsOf(x) :
                                            RemoteKeyFor(x, q) = ke /\ ke \in routed}}
<1>2. /\ routed \in SUBSET RemoteKeysOf(x) /\ routed \in SUBSET Key
      /\ working \in SUBSET created
    BY RemoteKeysAreKeys DEF Remote
<1>3. \A ke \in created : outcome_of(ke) = "unchecked" <=> ke \notin working
    <2>1. \A ke \in created : outcome[ke] \in {"created", "error", "unchecked"}
        BY DEF Outcomes
    <2>2. \A ke \in created : outcome_of(ke) = outcome[ke] /\ outcome_of(ke) # "error"
        BY DEF try_add_route_from_dds
    <2> QED
        BY <2>1, <2>2
<1>4. dds_reader' = [ke \in Key |-> IF ke \in created
                            THEN RouteDDSZenoh_new(RemoteTopicOf[x], RemoteQosOf[x],
                                                   outcome_of(ke))
                            ELSE dds_reader[ke]]
    BY <1>1
<1>5. dds_reader' = [ke \in Key |->
            IF ke \in working THEN [topic |-> RemoteTopicOf[x], qos |-> RemoteQosOf[x]]
            ELSE IF ke \in created THEN BadEntity ELSE dds_reader[ke]]
    <2>1. \A ke \in created :
            RouteDDSZenoh_new(RemoteTopicOf[x], RemoteQosOf[x], outcome_of(ke)) =
                IF ke \in working THEN [topic |-> RemoteTopicOf[x], qos |-> RemoteQosOf[x]]
                ELSE BadEntity
        <3> HIDE DEF created, working, outcome_of
        <3> QED
            BY <1>3 DEF RouteDDSZenoh_new
    <2> HIDE DEF created, working, outcome_of
    <2> QED
        BY <1>2, <1>4, <2>1
<1>6. local_routed_writers' = [ke \in Key |-> local_routed_writers[ke] \cup joining(ke)]
    BY <1>1
<1>7. \A ke : joining(ke) \subseteq discovered_writers
    BY DEF matching
<1>8. discovered_writers \subseteq Writer /\ local_routed_writers \in [Key -> SUBSET Writer]
    BY DEF TypeOK, TablesTypeOK
<1>9. local_routed_writers' \in [Key -> SUBSET Writer]
    <2> HIDE DEF joining
    <2> QED
        BY <1>6, <1>7, <1>8
<1>10. entity_routes' \in [Endpoint -> [Slot -> RouteStatus]]
    BY <1>1, RoutesUpdatedType
<1>11. EntitiesChange({OwnReader(ke) : ke \in working}, {})
    BY <1>1
<1>12. /\ routes_from_dds' = routes_from_dds \cup created
       /\ remote_routed_readers' = add_remote_routed_reader(x, routed)
       /\ admin_space' = admin_space \cup refs_from_dds(created)
       /\ UNCHANGED <<entity_vars, to_vars, advertised, remote_routed_writers>>
    BY <1>1
<1>13. created \ working \subseteq Periodic \cap MayFail
    <2>1. \A ke \in created : /\ outcome_of(ke) = outcome[ke]
                             /\ outcome[ke] \in create_forwarding_dds_reader(ke)
        BY DEF Outcomes
    <2>2. \A ke \in created \ working : outcome[ke] = "unchecked"
        BY <1>3, <2>1
    <2> HIDE DEF created, working, outcome_of
    <2> QED
        BY <2>1, <2>2 DEF create_forwarding_dds_reader, get_read_period
<1>14. PutReaderEffect(x, routed, working)
    <2> HIDE DEF routed, working
    <2> QED
        BY <1>13, <1>5, <1>9, <1>10, <1>11, <1>12 DEF PutReaderEffect
<1> QED
    BY <1>2, <1>14

\* A remote reader opens routes, or joins those there are.
LEMMA PutReaderStep ==
    ASSUME IInv, NEW x \in RemoteReader, NEW kind_of, ReceiveSample(x, kind_of), PutReader(x)
    PROVE  IInv' /\ Promise
<1>1. PICK routed \in SUBSET RemoteKeysOf(x) : \E working \in SUBSET (routed \ routes_from_dds) :
        PutReaderEffect(x, routed, working)
    BY PutReaderHasEffect DEF IInv
<1>2. PICK working \in SUBSET (routed \ routes_from_dds) : PutReaderEffect(x, routed, working)
    BY <1>1
<1>3. x \in Remote /\ routed \in SUBSET Key
    BY RemoteKeysAreKeys DEF Remote
<1>4. /\ \A ke \in Key : OwnReader(ke) \in alive' <=> OwnReader(ke) \in alive \/ ke \in working
      /\ \A ke \in Key : OwnWriter(ke) \in alive' <=> OwnWriter(ke) \in alive
      /\ alive' \in SUBSET Entity
      /\ builtin' \in [Entity -> {"taken", "alive", "disposed"}]
    <2> DEFINE born == {OwnReader(ke) : ke \in working}
    <2>1. born = {OwnReader(ke) : ke \in working} \cup {OwnWriter(ke) : ke \in {}}
        OBVIOUS
    <2>2. EntitiesChange(born, {}) /\ working \in SUBSET Key /\ {} \in SUBSET Key /\ DiscoTypeOK
        BY <1>2, <1>3 DEF PutReaderEffect, IInv, TypeOK
    <2> HIDE DEF born
    <2> QED
        BY <2>1, <2>2, BornEndpoints
<1>5. /\ [topic |-> RemoteTopicOf[x], qos |-> RemoteQosOf[x]] \in DdsEndpoint
      /\ BadEntity \notin DdsEndpoint /\ NoEntity \notin DdsEndpoint /\ NoEntity # BadEntity
    BY <1>3, RemoteKeysAreKeys, RoutesAssumption DEF RoutesAssumption, DdsEndpoint
<1>6. /\ dds_reader' \in [Key -> DdsEndpoint \cup {NoEntity, BadEntity}]
      /\ \A ke \in routed \ routes_from_dds :
            dds_reader'[ke] # NoEntity /\ (dds_reader'[ke] \in DdsEndpoint <=> ke \in working)
      /\ \A ke \in Key \ (routed \ routes_from_dds) : dds_reader'[ke] = dds_reader[ke]
    BY <1>2, <1>3, <1>5 DEF PutReaderEffect, IInv, TypeOK, TablesTypeOK
<1>7. TypeOK'
    <2>1. DiscoTypeOK'
        BY <1>4, HandlerDiscoType DEF IInv, TypeOK, ReceiveSample
    <2>2. remote_routed_readers' \in [Key -> SUBSET RemoteReader]
        BY <1>2, <1>3 DEF PutReaderEffect, add_remote_routed_reader, IInv, TypeOK
    <2>3. /\ routes_from_dds' \in SUBSET Key
          /\ admin_space' \in SUBSET AdminRef
        BY <1>2, <1>3 DEF PutReaderEffect, IInv, TypeOK, TablesTypeOK, AdminRef, refs_from_dds
    <2>4. fwd_disco' \in [Remote -> Seq({"put", "delete"})]
        BY <1>3, SampleType DEF IInv
    <2> QED
        BY <1>2, <1>6, <2>1, <2>2, <2>3, <2>4 DEF PutReaderEffect, IInv, TypeOK,
            TablesTypeOK, entity_vars, to_vars, ReceiveSample
<1>8. ToDdsInv'
    BY <1>2, <1>4, ToDdsUntouched DEF PutReaderEffect
<1>9. FromDdsInv'
    <2>1. \A ke \in Key : remote_routed_readers'[ke] # {} <=>
                            ke \in routed \/ remote_routed_readers[ke] # {}
        BY <1>2, <1>3 DEF PutReaderEffect, add_remote_routed_reader
    <2>2. routes_from_dds' = {ke \in Key : remote_routed_readers'[ke] # {}}
        BY <1>2, <1>3, <2>1 DEF PutReaderEffect, IInv, FromDdsInv
    <2>3. \A ke \in Key : dds_reader'[ke] # NoEntity <=> ke \in routes_from_dds'
        BY <1>2, <1>6 DEF PutReaderEffect, IInv, FromDdsInv
    <2>4. \A ke \in Key : OwnReader(ke) \in alive' <=> dds_reader'[ke] \in DdsEndpoint
        BY <1>2, <1>4, <1>5, <1>6 DEF IInv, FromDdsInv
    <2>5. \A ke \in Key : dds_reader'[ke] = BadEntity => ke \in Periodic \cap MayFail
        BY <1>2, <1>5, <1>6 DEF PutReaderEffect, IInv, FromDdsInv
    <2> QED
        BY <2>2, <2>3, <2>4, <2>5 DEF FromDdsInv
<1>10. AdminSpaceExact'
    BY <1>2, <1>3 DEF PutReaderEffect, refs_from_dds, IInv, AdminSpaceExact, entity_vars, to_vars
<1>11. Promise
    <2>1. RemoteStep
        BY <1>2, <1>3 DEF PutReaderEffect, RemoteStep
    <2>2. \A ke \in routed \ routes_from_dds : remote_routed_readers[ke] = {}
        BY <1>3 DEF IInv, FromDdsInv
    <2>3. UNCHANGED <<dds_writer, local_routed_readers>>
        BY <1>2, <1>3 DEF PutReaderEffect, to_vars
    <2> QED
        BY <1>6, <2>1, <2>2, <2>3 DEF Promise
<1> QED
    BY <1>7, <1>8, <1>9, <1>10, <1>11 DEF IInv

\* Remote readers go, and with the last ones of a key its route.
LEMMA ReadersLeave ==
    ASSUME IInv, NEW entities, NEW gone, gone = routes_without_reader(entities),
           remote_routed_readers' = remove_remote_routed_readers(entities),
           drop_from_dds(gone),
           \A ke \in Key : OwnReader(ke) \in alive' <=> OwnReader(ke) \in alive /\ ke \notin gone
    PROVE  /\ FromDdsInv'
           /\ routes_from_dds' \in SUBSET Key
           /\ dds_reader' \in [Key -> DdsEndpoint \cup {NoEntity, BadEntity}]
           /\ local_routed_writers' \in [Key -> SUBSET Writer]
           /\ remote_routed_readers' \in [Key -> SUBSET RemoteReader]
           /\ \A ke \in Key : dds_reader'[ke] # dds_reader[ke] => remote_routed_readers'[ke] = {}
<1>1. /\ routes_from_dds' = routes_from_dds \ gone
      /\ dds_reader' = without_routes(dds_reader, gone)
      /\ local_routed_writers' = [ke \in Key |-> IF ke \in gone THEN {}
                                                 ELSE local_routed_writers[ke]]
    BY DEF drop_from_dds
<1>2. /\ \A ke \in Key : remote_routed_readers'[ke] = remote_routed_readers[ke] \ entities
      /\ \A ke \in Key : remote_routed_readers'[ke] = remove_remote_routed_readers(entities)[ke]
    BY DEF remove_remote_routed_readers
<1>3. gone = {ke \in routes_from_dds : remote_routed_readers'[ke] = {}} /\ routes_from_dds \subseteq Key
    BY <1>2 DEF routes_without_reader, IInv, TypeOK, TablesTypeOK
<1>4. \A ke \in Key : dds_reader'[ke] = IF ke \in gone THEN NoEntity ELSE dds_reader[ke]
    BY <1>1 DEF without_routes
<1>5. NoEntity \notin DdsEndpoint /\ NoEntity # BadEntity
    BY RoutesAssumption DEF RoutesAssumption, DdsEndpoint
<1>6. FromDdsInv'
    <2>1. routes_from_dds' = {ke \in Key : remote_routed_readers'[ke] # {}}
        BY <1>1, <1>2, <1>3 DEF IInv, FromDdsInv
    <2>2. \A ke \in Key : OwnReader(ke) \in alive' <=> dds_reader'[ke] \in DdsEndpoint
        BY <1>4, <1>5 DEF IInv, FromDdsInv
    <2>3. \A ke \in Key : dds_reader'[ke] # NoEntity <=> ke \in routes_from_dds'
        BY <1>1, <1>3, <1>4 DEF IInv, FromDdsInv
    <2>4. \A ke \in Key : dds_reader'[ke] = BadEntity => ke \in Periodic \cap MayFail
        BY <1>4, <1>5 DEF IInv, FromDdsInv
    <2> QED
        BY <2>1, <2>2, <2>3, <2>4 DEF FromDdsInv
<1>7. /\ dds_reader' \in [Key -> DdsEndpoint \cup {NoEntity, BadEntity}]
      /\ local_routed_writers' \in [Key -> SUBSET Writer]
      /\ remote_routed_readers' \in [Key -> SUBSET RemoteReader]
    BY <1>1 DEF without_routes, remove_remote_routed_readers, IInv, TypeOK, TablesTypeOK
<1> QED
    BY <1>1, <1>3, <1>4, <1>6, <1>7

\* A remote reader goes.
LEMMA DeleteReaderStep ==
    ASSUME IInv, NEW x \in RemoteReader, NEW kind_of, ReceiveSample(x, kind_of), DeleteReader(x)
    PROVE  IInv' /\ Promise
<1> DEFINE gone == routes_without_reader({x})
<1>1. /\ remote_routed_readers' = remove_remote_routed_readers({x})
      /\ drop_from_dds(gone)
      /\ admin_space' = admin_space \ refs_from_dds(gone)
      /\ EntitiesChange({}, RouteDDSZenoh_drop(gone))
      /\ UNCHANGED <<entity_vars, entity_routes, to_vars, advertised, remote_routed_writers>>
    BY DEF DeleteReader
<1>2. x \in Remote
    BY DEF Remote
<1>3. gone \in SUBSET Key /\ DiscoTypeOK
    BY DEF routes_without_reader, IInv, TypeOK, TablesTypeOK
<1>4. /\ \A ke \in Key : OwnReader(ke) \in alive' <=> OwnReader(ke) \in alive /\ ke \notin gone
      /\ \A ke \in Key : OwnWriter(ke) \in alive' <=> OwnWriter(ke) \in alive
      /\ alive' \in SUBSET Entity
      /\ builtin' \in [Entity -> {"taken", "alive", "disposed"}]
    BY <1>1, <1>3, DroppedFromDds
<1>5. /\ FromDdsInv'
      /\ routes_from_dds' \in SUBSET Key
      /\ dds_reader' \in [Key -> DdsEndpoint \cup {NoEntity, BadEntity}]
      /\ local_routed_writers' \in [Key -> SUBSET Writer]
      /\ remote_routed_readers' \in [Key -> SUBSET RemoteReader]
      /\ \A ke \in Key : dds_reader'[ke] # dds_reader[ke] => remote_routed_readers'[ke] = {}
    <2> HIDE DEF gone
    <2>1. gone = routes_without_reader({x})
        BY DEF gone
    <2> QED
        BY <1>1, <1>4, <2>1, ReadersLeave
<1>6. TypeOK'
    <2>1. DiscoTypeOK'
        BY <1>4, HandlerDiscoType DEF IInv, TypeOK, ReceiveSample
    <2>2. fwd_disco' \in [Remote -> Seq({"put", "delete"})]
        BY <1>2, SampleType DEF IInv
    <2>3. admin_space' \in SUBSET AdminRef
        BY <1>1 DEF IInv, TypeOK, TablesTypeOK
    <2> QED
        BY <1>1, <1>5, <2>1, <2>2, <2>3 DEF IInv, TypeOK, TablesTypeOK, entity_vars, to_vars,
            ReceiveSample
<1>7. ToDdsInv'
    BY <1>1, <1>4, ToDdsUntouched
<1>8. AdminSpaceExact'
    BY <1>1 DEF drop_from_dds, refs_from_dds, IInv, AdminSpaceExact, entity_vars, to_vars
<1>9. Promise
    <2>1. RemoteStep
        BY <1>1 DEF RemoteStep
    <2> QED
        BY <1>1, <1>5, <2>1 DEF Promise, to_vars
<1> QED
    BY <1>5, <1>6, <1>7, <1>8, <1>9 DEF IInv

-----------------------------------------------------------------------------
(* The handlers of the group events. *)

\* A group event taken from its channel leaves that well typed.
LEMMA GroupEventType ==
    ASSUME TypeOK, ReceiveGroupEvent
    PROVE  group' \in Seq(GroupEvent) /\ Head(group) \in GroupEvent
<1>1. group \in Seq(GroupEvent) /\ group # <<>>
    BY DEF TypeOK, ReceiveGroupEvent
<1> QED
    BY <1>1 DEF ReceiveGroupEvent

\* A plugin joins: what it advertises is queried.
LEMMA PluginDetectedStep ==
    ASSUME IInv, NEW plugin \in Plugin, ReceiveGroupEvent, PluginDetected(plugin),
           UNCHANGED <<disco, plugins, remote_alive>>
    PROVE  IInv' /\ Promise
<1>1. UNCHANGED tables /\ UNCHANGED <<alive, builtin>>
    BY DEF PluginDetected
<1>2. fwd_disco' \in [Remote -> Seq({"put", "delete"})]
    <2>1. fwd_disco \in [Remote -> Seq({"put", "delete"})]
        BY DEF IInv, TypeOK
    <2>2. \A x \in Remote : Append(fwd_disco[x], "put") \in Seq({"put", "delete"})
        BY <2>1
    <2> QED
        BY <2>1, <2>2 DEF PluginDetected
<1>3. TypeOK'
    BY <1>1, <1>2, GroupEventType DEF tables, entity_vars, from_vars, to_vars, remote_vars, IInv,
        TypeOK, TablesTypeOK, DiscoTypeOK
<1>4. ToDdsInv' /\ FromDdsInv' /\ AdminSpaceExact'
    BY <1>1 DEF tables, entity_vars, from_vars, to_vars, remote_vars, IInv, ToDdsInv, FromDdsInv,
        AdminSpaceExact
<1>5. Promise
    BY <1>1 DEF tables, entity_vars, from_vars, to_vars, Promise, RemoteStep
<1> QED
    BY <1>3, <1>4, <1>5 DEF IInv

\* A plugin leaves: so do all its endpoints, and the routes they were the last of,
\* those with a local reader included.
LEMMA PluginLeftStep ==
    ASSUME IInv, NEW plugin \in Plugin, PluginDeparture, PluginLeft(plugin),
           UNCHANGED <<disco, plugins, remote_alive>>
    PROVE  IInv' /\ Promise
<1> DEFINE entities == EntitiesOf(plugin)
           gone_to == routes_without_writer(entities)
           gone_from == routes_without_reader(entities)
<1>1. /\ remote_routed_writers' = remove_remote_routed_writers(entities)
      /\ remote_routed_readers' = remove_remote_routed_readers(entities)
      /\ drop_to_dds(gone_to)
      /\ dds_writer' = without_routes(dds_writer, gone_to)
      /\ local_routed_readers' = [ke \in Key |-> IF ke \in gone_to THEN {}
                                                 ELSE local_routed_readers[ke]]
      /\ drop_from_dds(gone_from)
      /\ admin_space' = admin_space \ (refs_to_dds(gone_to) \cup refs_from_dds(gone_from))
      /\ EntitiesChange({}, RouteZenohDDS_drop(gone_to) \cup RouteDDSZenoh_drop(gone_from))
      /\ UNCHANGED <<entity_vars, entity_routes, advertised, fwd_disco>>
    BY DEF PluginLeft
<1>2. gone_to \in SUBSET Key /\ gone_from \in SUBSET Key /\ DiscoTypeOK
    BY DEF routes_without_reader, routes_without_writer, IInv, TypeOK, TablesTypeOK
<1>3. /\ \A ke \in Key : OwnReader(ke) \in alive' <=> OwnReader(ke) \in alive /\ ke \notin gone_from
      /\ \A ke \in Key : OwnWriter(ke) \in alive' <=> OwnWriter(ke) \in alive /\ ke \notin gone_to
      /\ alive' \in SUBSET Entity
      /\ builtin' \in [Entity -> {"taken", "alive", "disposed"}]
    BY <1>1, <1>2, DeadEndpoints
<1>4. /\ ToDdsInv'
      /\ routes_to_dds' \in SUBSET Key /\ querying' \in SUBSET Key
      /\ topic_name' \in [Key -> Topic \cup {NoEntity}]
      /\ dds_writer' \in [Key -> DdsEndpoint \cup {NoEntity}]
      /\ local_routed_readers' \in [Key -> SUBSET Reader]
      /\ remote_routed_writers' \in [Key -> SUBSET RemoteWriter]
      /\ \A ke \in Key : dds_writer'[ke] # dds_writer[ke] => remote_routed_writers'[ke] = {}
    <2> HIDE DEF gone_to, entities
    <2>1. /\ gone_to = routes_without_writer(entities)
          /\ gone_to \in SUBSET gone_to
          /\ \A ke \in gone_to \ gone_to : local_routed_readers[ke] # {}
        BY DEF gone_to
    <2> QED
        BY <1>1, <1>3, <2>1, WritersLeave
<1>5. /\ FromDdsInv'
      /\ routes_from_dds' \in SUBSET Key
      /\ dds_reader' \in [Key -> DdsEndpoint \cup {NoEntity, BadEntity}]
      /\ local_routed_writers' \in [Key -> SUBSET Writer]
      /\ remote_routed_readers' \in [Key -> SUBSET RemoteReader]
      /\ \A ke \in Key : dds_reader'[ke] # dds_reader[ke] => remote_routed_readers'[ke] = {}
    <2> HIDE DEF gone_from, entities
    <2>1. gone_from = routes_without_reader(entities)
        BY DEF gone_from
    <2> QED
        BY <1>1, <1>3, <2>1, ReadersLeave
<1>6. TypeOK'
    <2>1. DiscoTypeOK'
        BY <1>3, HandlerDiscoType DEF IInv, TypeOK
    <2>2. group' \in Seq(GroupEvent)
        BY GroupEventType DEF PluginDeparture, ReceiveGroupEvent, IInv
    <2>3. admin_space' \in SUBSET AdminRef
        BY <1>1 DEF IInv, TypeOK, TablesTypeOK
    <2> QED
        BY <1>1, <1>4, <1>5, <2>1, <2>2, <2>3 DEF IInv, TypeOK, TablesTypeOK, entity_vars
<1>7. AdminSpaceExact'
    BY <1>1 DEF drop_to_dds, drop_from_dds, refs_from_dds, refs_to_dds, IInv, AdminSpaceExact,
        entity_vars
<1>8. Promise
    <2>1. RemoteStep
        BY <1>1 DEF RemoteStep
    <2> QED
        BY <1>4, <1>5, <2>1 DEF Promise
<1> QED
    BY <1>4, <1>5, <1>6, <1>7, <1>8 DEF IInv

-----------------------------------------------------------------------------
(* The other steps: participants, the DDS domain, its listener and the other *)
(* plugins.                                                                  *)

\* A participant comes or goes: only what the admin space shows changes.
LEMMA ParticipantStep ==
    ASSUME IInv, NEW p \in Participant, NEW event, Receive(event), UNCHANGED zenoh_vars,
           UNCHANGED <<advertised, remote_vars>>,
           DiscoveredParticipant(p) \/ UndiscoveredParticipant(p)
    PROVE  IInv' /\ Promise
<1>1. /\ UNCHANGED <<discovered_writers, discovered_readers, entity_routes>>
      /\ UNCHANGED <<from_vars, to_vars, alive, builtin>>
    BY DEF DiscoveredParticipant, UndiscoveredParticipant
<1>2. \/ /\ discovered_participants' = discovered_participants \cup {p}
         /\ admin_space' = admin_space \cup {<<"participant", p>>}
      \/ /\ discovered_participants' = discovered_participants \ {p}
         /\ admin_space' = admin_space \ {<<"participant", p>>}
    BY DEF DiscoveredParticipant, UndiscoveredParticipant
<1>3. TypeOK'
    <2>1. DiscoTypeOK'
        BY <1>1, HandlerDiscoType DEF IInv, TypeOK, DiscoTypeOK
    <2>2. discovered_participants' \in SUBSET Participant /\ admin_space' \in SUBSET AdminRef
        BY <1>2 DEF IInv, TypeOK, TablesTypeOK, AdminRef
    <2> QED
        BY <1>1, <2>1, <2>2 DEF IInv, TypeOK, TablesTypeOK, from_vars, to_vars, remote_vars,
            zenoh_vars
<1>4. ToDdsInv' /\ FromDdsInv'
    BY <1>1, ToDdsUntouched, FromDdsUntouched DEF remote_vars
<1>5. AdminSpaceExact'
    BY <1>1, <1>2 DEF IInv, AdminSpaceExact, from_vars, to_vars
<1>6. Promise
    BY <1>1 DEF Promise, RemoteStep, from_vars, to_vars
<1> QED
    BY <1>3, <1>4, <1>5, <1>6 DEF IInv

\* A step outside the event loop does not change the tables, nor the endpoints of
\* the bridge.
LEMMA OutsideStep ==
    ASSUME IInv, UNCHANGED tables, DiscoTypeOK',
           \A e \in OwnEndpoint : e \in alive' <=> e \in alive,
           plugins' \in SUBSET Plugin, remote_alive' \in SUBSET Remote,
           fwd_disco' \in [Remote -> Seq({"put", "delete"})], group' \in Seq(GroupEvent)
    PROVE  IInv' /\ Promise
<1>1. UNCHANGED <<entity_vars, entity_routes, from_vars, to_vars, admin_space, advertised,
                  remote_vars>>
    BY DEF tables
<1>2. \A ke \in Key : OwnReader(ke) \in OwnEndpoint /\ OwnWriter(ke) \in OwnEndpoint
    BY DEF OwnEndpoint, OwnReaders, OwnWriters
<1>3. ToDdsInv' /\ FromDdsInv'
    BY <1>1, <1>2, ToDdsUntouched, FromDdsUntouched DEF remote_vars
<1>4. TypeOK'
    BY <1>1 DEF entity_vars, from_vars, to_vars, remote_vars, IInv, TypeOK, TablesTypeOK
<1>5. AdminSpaceExact'
    BY <1>1 DEF entity_vars, from_vars, to_vars, IInv, AdminSpaceExact
<1>6. Promise
    BY <1>1 DEF entity_vars, from_vars, to_vars, Promise, RemoteStep
<1> QED
    BY <1>3, <1>4, <1>5, <1>6 DEF IInv

\* An entity of another participant changes.
LEMMA ForeignStep ==
    ASSUME IInv, NEW e \in Foreign, Appear(e) \/ Update(e) \/ Disappear(e),
           UNCHANGED <<zenoh_vars, tables>>
    PROVE  IInv' /\ Promise
<1>1. DiscoTypeOK'
    BY ForeignType DEF IInv, TypeOK
<1>2. \A o \in OwnEndpoint : o # e
    BY OwnAreNotForeign DEF Own
<1>3. \A o \in OwnEndpoint : o \in alive' <=> o \in alive
    BY <1>2 DEF Appear, Update, Disappear, Change, EntitiesChange
<1>4. UNCHANGED tables /\ UNCHANGED <<plugins, remote_alive, fwd_disco, group>>
    BY DEF zenoh_vars
<1> QED
    BY <1>1, <1>3, <1>4, OutsideStep DEF IInv, TypeOK

\* The listener takes a sample.
LEMMA ListenerStep ==
    ASSUME IInv, NEW e \in Entity, Listener(e)
    PROVE  IInv' /\ Promise
<1>1. on_data(e) /\ UNCHANGED <<zenoh_vars, tables>>
    BY DEF Listener
<1>2. DiscoTypeOK'
    BY <1>1, OnDataType DEF IInv, TypeOK
<1>3. UNCHANGED alive
    BY <1>1 DEF on_data
<1>4. UNCHANGED tables /\ UNCHANGED <<plugins, remote_alive, fwd_disco, group>>
    BY <1>1 DEF zenoh_vars
<1> QED
    BY <1>2, <1>3, <1>4, OutsideStep DEF IInv, TypeOK

\* An endpoint of another plugin appears or disappears.
LEMMA RemoteChangeStep ==
    ASSUME IInv, NEW x \in Remote, RemoteAppears(x) \/ RemoteDisappears(x)
    PROVE  IInv' /\ Promise
<1>1. PICK kind \in {"put", "delete"} : Publish(x, kind)
    BY DEF RemoteAppears, RemoteDisappears
<1>2. remote_alive' \in SUBSET Remote
    BY DEF RemoteAppears, RemoteDisappears, IInv, TypeOK
<1>3. UNCHANGED tables /\ UNCHANGED <<plugins, group>> /\ UNCHANGED <<alive, builtin, disco>>
    BY <1>1 DEF Publish, disco_vars
<1>4. fwd_disco' \in [Remote -> Seq({"put", "delete"})]
    <2>1. fwd_disco \in [Remote -> Seq({"put", "delete"})]
        BY DEF IInv, TypeOK
    <2>2. Append(fwd_disco[x], kind) \in Seq({"put", "delete"})
        BY <2>1
    <2> QED
        BY <1>1, <2>1, <2>2 DEF Publish
<1>5. DiscoTypeOK'
    BY <1>3 DEF IInv, TypeOK, DiscoTypeOK
<1> QED
    BY <1>2, <1>3, <1>4, <1>5, OutsideStep DEF IInv, TypeOK

\* A plugin joins or leaves.
LEMMA MembershipStep ==
    ASSUME IInv, NEW plugin \in Plugin, PluginJoins(plugin) \/ PluginLeaves(plugin)
    PROVE  IInv' /\ Promise
<1>1. PICK put \in BOOLEAN : GroupChange([put |-> put, plugin |-> plugin])
    BY DEF PluginJoins, PluginLeaves
<1>2. plugins' \in SUBSET Plugin
    BY DEF PluginJoins, PluginLeaves, IInv, TypeOK
<1>3. /\ UNCHANGED tables /\ UNCHANGED <<remote_alive, fwd_disco>>
      /\ UNCHANGED <<alive, builtin, disco>>
    BY <1>1 DEF GroupChange, disco_vars
<1>4. group' \in Seq(GroupEvent)
    <2>1. group \in Seq(GroupEvent) /\ [put |-> put, plugin |-> plugin] \in GroupEvent
        BY DEF IInv, TypeOK, GroupEvent
    <2> QED
        BY <1>1, <2>1 DEF GroupChange
<1>5. DiscoTypeOK'
    BY <1>3 DEF IInv, TypeOK, DiscoTypeOK
<1> QED
    BY <1>2, <1>3, <1>4, <1>5, OutsideStep DEF IInv, TypeOK

-----------------------------------------------------------------------------
(* The invariant is inductive. *)

\* Nothing is routed at first.
LEMMA InitIInv == Init => IInv
<1> SUFFICES ASSUME Init PROVE IInv
    OBVIOUS
<1>1. DiscoTypeOK
    BY DEF Init, DiscoInit, DiscoTypeOK, Entity, Own
<1>2. \A ke \in Key : OwnReader(ke) \notin alive /\ OwnWriter(ke) \notin alive
    BY EntitiesAssumption DEF EntitiesAssumption, OwnEndpoint, OwnReaders, OwnWriters, Init, DiscoInit
<1>3. TypeOK
    BY <1>1 DEF TypeOK, Init, TablesInit, TablesTypeOK, NoRoutes, RouteStatus
<1>4. NoEntity \notin DdsEndpoint /\ NoEntity # BadEntity
    BY RoutesAssumption DEF RoutesAssumption, DdsEndpoint
<1>5. ToDdsInv /\ FromDdsInv
    BY <1>2, <1>4 DEF Init, TablesInit, ToDdsInv, FromDdsInv
<1>6. AdminSpaceExact
    BY DEF Init, TablesInit, AdminSpaceExact
<1> QED
    BY <1>3, <1>5, <1>6 DEF IInv

\* Every step preserves it and keeps the promise.
LEMMA StepPreserves == IInv /\ [Next]_vars => IInv' /\ Promise
<1> SUFFICES ASSUME IInv, [Next]_vars PROVE IInv' /\ Promise
    OBVIOUS
<1>1. CASE Environment
    BY <1>1, ForeignStep, RemoteChangeStep, MembershipStep DEF Environment
<1>2. CASE \E e \in Entity : Listener(e)
    BY <1>2, ListenerStep
<1>3. CASE HandleEvent
    <2>1. CASE HandlePublication /\ UNCHANGED zenoh_vars
        BY <2>1, PublicationStep DEF HandlePublication
    <2>2. CASE HandleSubscription /\ UNCHANGED zenoh_vars
        BY <2>2, DiscoveredSubscriptionStep, UndiscoveredSubscriptionStep DEF HandleSubscription
    <2>3. CASE HandleParticipant /\ UNCHANGED zenoh_vars
        BY <2>3, ParticipantStep DEF HandleParticipant
    <2> QED
        BY <1>3, <2>1, <2>2, <2>3 DEF HandleEvent
<1>4. CASE \E x \in Remote : HandleSample(x)
    BY <1>4, PutWriterStep, DeleteWriterStep, PutReaderStep, DeleteReaderStep DEF HandleSample
<1>5. CASE HandleGroupEvent
    <2>1. /\ ReceiveGroupEvent /\ UNCHANGED <<disco, plugins, remote_alive>>
          /\ Head(group).plugin \in Plugin
        BY <1>5, GroupEventType DEF HandleGroupEvent, GroupEvent, IInv
    <2>2. CASE Head(group).put /\ PluginDetected(Head(group).plugin)
        BY <2>1, <2>2, PluginDetectedStep
    <2>3. CASE ~ Head(group).put /\ PluginLeft(Head(group).plugin)
        BY <2>1, <2>3, PluginLeftStep DEF PluginDeparture, ReceiveGroupEvent
    <2> QED
        BY <1>5, <2>2, <2>3 DEF HandleGroupEvent
<1>6. CASE UNCHANGED vars
    <2>1. UNCHANGED tables /\ UNCHANGED <<plugins, remote_alive, fwd_disco, group>>
          /\ UNCHANGED <<alive, builtin, disco>>
        BY <1>6 DEF vars, zenoh_vars, disco_vars
    <2>2. DiscoTypeOK'
        BY <2>1 DEF IInv, TypeOK, DiscoTypeOK
    <2> QED
        BY <2>1, <2>2, OutsideStep DEF IInv, TypeOK
<1> QED
    BY <1>1, <1>2, <1>3, <1>4, <1>5, <1>6 DEF Next

\* Every behaviour keeps the inductive invariant.
THEOREM Invariance == Spec => []IInv
<1>1. IInv /\ [Next]_vars => IInv'
    BY StepPreserves
<1> QED
    BY <1>1, InitIInv, PTL DEF Spec

\* Every variable keeps its type, and no discovery of an own entity is sent.
THEOREM TypeCorrectness == Spec => []TypeOK
BY Invariance, PTL DEF IInv

\* A route to DDS exists exactly as long as it lists a local reader or a remote
\* writer, a route from DDS exactly as long as it lists a remote reader.
THEOREM RoutesAreUsedAlways == Spec => []RoutesAreUsed
<1>1. IInv => RoutesAreUsed
    BY Consequences
<1> QED
    BY <1>1, Invariance, PTL

\* A route to DDS has a DDS writer exactly when it lists a remote writer.
THEOREM WriterIffRemoteWriterAlways == Spec => []WriterIffRemoteWriter
<1>1. IInv => WriterIffRemoteWriter
    BY Consequences
<1> QED
    BY <1>1, Invariance, PTL

\* The admin space refers to exactly the entities and routes that exist.
THEOREM AdminSpaceExactAlways == Spec => []AdminSpaceExact
BY Invariance, PTL DEF IInv

\* The bridge's endpoints in the DDS domain are exactly those of its routes.
THEOREM NoEndpointLeakAlways == Spec => []NoEndpointLeak
<1>1. IInv => NoEndpointLeak
    BY Consequences
<1> QED
    BY <1>1, Invariance, PTL

-----------------------------------------------------------------------------
(* What no step does: consequences of the promise each handler keeps.        *)

\* No step takes the DDS endpoint of a route from a remote endpoint that stays.
THEOREM ProxyKeptEver == Spec => ProxyKept
<1>1. IInv /\ [Next]_vars => [ProxiesStay]_vars
    <2> SUFFICES ASSUME IInv, [Next]_vars PROVE ProxiesStay
        OBVIOUS
    <2>1. IInv' /\ Promise
        BY StepPreserves
    <2> QED
        BY <2>1 DEF Promise, IInv, ToDdsInv, FromDdsInv, ProxiesStay
<1> QED
    BY <1>1, Invariance, PTL DEF Spec, ProxyKept

\* No step but the departure of a plugin takes its route from a local reader.
THEOREM ReaderRouteKeptEver == Spec => ReaderRouteKept
<1>1. IInv /\ [Next]_vars => [PluginDeparture \/ ReaderRoutesStay]_vars
    <2> SUFFICES ASSUME IInv, [Next]_vars, ~ PluginDeparture PROVE ReaderRoutesStay
        OBVIOUS
    <2>1. IInv' /\ Promise
        BY StepPreserves
    <2>2. routes_to_dds \subseteq Key
        BY DEF IInv, TypeOK, TablesTypeOK
    <2> QED
        BY <2>1, <2>2 DEF Promise, IInv, ToDdsInv, ReaderRoutesStay
<1> QED
    BY <1>1, Invariance, PTL DEF Spec, ReaderRouteKept

-----------------------------------------------------------------------------
(* Refinement: the routes of each direction implement the ledger.            *)

\* A step of the bridge is a step of the ledger of the routes from DDS, or leaves
\* it unchanged.
LEMMA FromDdsStep ==
    IInv /\ [Next]_vars => [FromDds!Next]_<<routes_from_dds, remote_routed_readers>>
<1> SUFFICES ASSUME IInv, [Next]_vars
             PROVE  [FromDds!Next]_<<routes_from_dds, remote_routed_readers>>
    OBVIOUS
<1>1. RemoteStep /\ IInv'
    BY StepPreserves DEF Promise
<1>2. /\ routes_from_dds = {ke \in Key : remote_routed_readers[ke] # {}}
      /\ routes_from_dds' = {ke \in Key : remote_routed_readers'[ke] # {}}
      /\ remote_routed_readers \in [Key -> SUBSET RemoteReader]
    BY <1>1 DEF IInv, FromDdsInv, TypeOK
<1>3. ASSUME UNCHANGED remote_routed_readers
      PROVE  UNCHANGED <<routes_from_dds, remote_routed_readers>>
    BY <1>2, <1>3
<1>4. ASSUME NEW x \in RemoteReader, NEW keys \in SUBSET Key,
             remote_routed_readers' = add_remote_routed_reader(x, keys)
      PROVE  FromDds!Join(x, keys)
    BY <1>2, <1>4 DEF add_remote_routed_reader, FromDds!Join
<1>5. ASSUME NEW entities, remote_routed_readers' = remove_remote_routed_readers(entities)
      PROVE  FromDds!Leave(entities \cap RemoteReader)
    BY <1>2, <1>5 DEF remove_remote_routed_readers, FromDds!Leave
<1>6. ASSUME NEW x \in RemoteReader, remote_routed_readers' = remove_remote_routed_readers({x})
      PROVE  FromDds!Leave({x})
    <2>1. {x} \cap RemoteReader = {x}
        OBVIOUS
    <2> QED
        BY <1>5, <1>6, <2>1
<1>7. CASE UNCHANGED remote_routed_readers
    BY <1>3, <1>7
<1>8. CASE \E x \in RemoteReader : \E keys \in SUBSET RemoteKeysOf(x) :
            remote_routed_readers' = add_remote_routed_reader(x, keys)
    BY <1>4, <1>8, RemoteKeysAreKeys DEF FromDds!Next, Remote
<1>9. CASE \E x \in RemoteReader : remote_routed_readers' = remove_remote_routed_readers({x})
    <2>1. PICK x \in RemoteReader : remote_routed_readers' = remove_remote_routed_readers({x})
        BY <1>9
    <2>2. FromDds!Leave({x})
        BY <1>6, <2>1
    <2> QED
        BY <2>2 DEF FromDds!Next
<1>10. CASE \E plugin \in Plugin :
            remote_routed_readers' = remove_remote_routed_readers(EntitiesOf(plugin))
    <2>1. PICK plugin \in Plugin :
            remote_routed_readers' = remove_remote_routed_readers(EntitiesOf(plugin))
        BY <1>10
    <2>2. FromDds!Leave(EntitiesOf(plugin) \cap RemoteReader)
        BY <1>5, <2>1
    <2> QED
        BY <2>2 DEF FromDds!Next
<1> QED
    BY <1>1, <1>7, <1>8, <1>9, <1>10 DEF RemoteStep, remote_vars

\* The routes from DDS implement the ledger of the remote readers.
THEOREM FromDdsImplementsLedger == Spec => LedgerFromDds
<1>1. Init => FromDds!Init
    BY DEF Init, TablesInit, FromDds!Init
<1> QED
    BY <1>1, FromDdsStep, Invariance, PTL DEF Spec, LedgerFromDds, FromDds!Spec

\* A step of the bridge is a step of the ledger of the routes to DDS, or leaves it
\* unchanged.
LEMMA ToDdsStep ==
    IInv /\ [Next]_vars =>
        [ToDds!Next]_<<{ke \in Key : dds_writer[ke] # NoEntity}, remote_routed_writers>>
<1> SUFFICES ASSUME IInv, [Next]_vars
             PROVE  [ToDds!Next]_<<{ke \in Key : dds_writer[ke] # NoEntity},
                                   remote_routed_writers>>
    OBVIOUS
<1>1. RemoteStep /\ IInv'
    BY StepPreserves DEF Promise
<1>2. /\ {ke \in Key : dds_writer[ke] # NoEntity} = {ke \in Key : remote_routed_writers[ke] # {}}
      /\ {ke \in Key : dds_writer'[ke] # NoEntity} = {ke \in Key : remote_routed_writers'[ke] # {}}
      /\ remote_routed_writers \in [Key -> SUBSET RemoteWriter]
    BY <1>1 DEF IInv, ToDdsInv, TypeOK
<1>3. ASSUME UNCHANGED remote_routed_writers
      PROVE  {ke \in Key : dds_writer'[ke] # NoEntity} = {ke \in Key : dds_writer[ke] # NoEntity}
    BY <1>2, <1>3
<1>4. ASSUME NEW x \in RemoteWriter, NEW keys \in SUBSET Key,
             remote_routed_writers' = add_remote_routed_writer(x, keys)
      PROVE  ToDds!Join(x, keys)
    BY <1>2, <1>4 DEF add_remote_routed_writer, ToDds!Join
<1>5. ASSUME NEW entities, remote_routed_writers' = remove_remote_routed_writers(entities)
      PROVE  ToDds!Leave(entities \cap RemoteWriter)
    BY <1>2, <1>5 DEF remove_remote_routed_writers, ToDds!Leave
<1>6. ASSUME NEW x \in RemoteWriter, remote_routed_writers' = remove_remote_routed_writers({x})
      PROVE  ToDds!Leave({x})
    <2>1. {x} \cap RemoteWriter = {x}
        OBVIOUS
    <2> QED
        BY <1>5, <1>6, <2>1
<1>7. CASE UNCHANGED remote_routed_writers
    BY <1>3, <1>7
<1>8. CASE \E x \in RemoteWriter : \E keys \in SUBSET RemoteKeysOf(x) :
            remote_routed_writers' = add_remote_routed_writer(x, keys)
    BY <1>4, <1>8, RemoteKeysAreKeys DEF ToDds!Next, Remote
<1>9. CASE \E x \in RemoteWriter : remote_routed_writers' = remove_remote_routed_writers({x})
    <2>1. PICK x \in RemoteWriter : remote_routed_writers' = remove_remote_routed_writers({x})
        BY <1>9
    <2>2. ToDds!Leave({x})
        BY <1>6, <2>1
    <2> QED
        BY <2>2 DEF ToDds!Next
<1>10. CASE \E plugin \in Plugin :
            remote_routed_writers' = remove_remote_routed_writers(EntitiesOf(plugin))
    <2>1. PICK plugin \in Plugin :
            remote_routed_writers' = remove_remote_routed_writers(EntitiesOf(plugin))
        BY <1>10
    <2>2. ToDds!Leave(EntitiesOf(plugin) \cap RemoteWriter)
        BY <1>5, <2>1
    <2> QED
        BY <2>2 DEF ToDds!Next
<1> QED
    BY <1>1, <1>7, <1>8, <1>9, <1>10 DEF RemoteStep, remote_vars

\* The routes to DDS implement the ledger of the remote writers.
THEOREM ToDdsImplementsLedger == Spec => LedgerToDds
<1>1. Init => ToDds!Init
    BY DEF Init, TablesInit, ToDds!Init
<1> QED
    BY <1>1, ToDdsStep, Invariance, PTL DEF Spec, LedgerToDds, ToDds!Spec

-----------------------------------------------------------------------------
(* The bridge ends up advertising the endpoints of its domain.               *)

\* What is advertised is what is discovered, and the last word on each endpoint is
\* on its way to the bridge.
AdvertisedInv ==
    /\ advertised = discovered_writers \cup discovered_readers
    /\ OnlyVisible(disco)
    /\ Mirrors(Visible \cap Endpoint, alive, builtin, disco, advertised)

\* The handler of an event of an endpoint preserves that when it takes it for true.
LEMMA EndpointHandlerMirrors ==
    ASSUME IInv, AdvertisedInv, NEW event, Receive(event),
           \A e \in Visible : builtin'[e] = builtin[e] /\ (e \in alive' <=> e \in alive),
           advertised' = IF event.discovered THEN advertised \cup ({event.key} \cap Endpoint)
                         ELSE advertised \ {event.key},
           advertised' = discovered_writers' \cup discovered_readers'
    PROVE  AdvertisedInv'
<1> DEFINE of == Visible \cap Endpoint
<1>1. DiscoTypeOK /\ advertised \subseteq of
    BY DEF IInv, TypeOK, AdvertisedInv, Mirrors
<1>2. event.discovered => event.key \in Visible
    <2>1. disco \in Seq(DiscoveryEvent) /\ disco # <<>> /\ event = disco[1]
        BY <1>1 DEF DiscoTypeOK, Receive
    <2>2. 1 \in 1..Len(disco)
        BY <2>1
    <2> QED
        BY <2>1, <2>2 DEF AdvertisedInv, OnlyVisible
<1>3. advertised' \in SUBSET of
    BY <1>1, <1>2
<1>4. \A e \in of : IF event.key # e THEN e \in advertised' <=> e \in advertised
                    ELSE IF event.discovered THEN e \in advertised' ELSE e \notin advertised'
    OBVIOUS
<1>5. \A e \in of : builtin'[e] = builtin[e] /\ (e \in alive' <=> e \in alive)
    OBVIOUS
<1>6. of \in SUBSET Visible /\ Mirrors(of, alive, builtin, disco, advertised)
    BY DEF AdvertisedInv
<1>7. OnlyVisible(disco)
    BY DEF AdvertisedInv
<1>8. OnlyVisible(disco') /\ Mirrors(of, alive', builtin', disco', advertised')
    <2> HIDE DEF of
    <2> QED
        BY <1>1, <1>3, <1>4, <1>5, <1>6, <1>7, MirrorsReceived
<1> QED
    BY <1>8 DEF AdvertisedInv

\* The effect of each handler of the own domain's events on what is advertised.
LEMMA HandlersMirror ==
    ASSUME IInv, AdvertisedInv, HandleEvent
    PROVE  AdvertisedInv'
<1>1. /\ discovered_writers \subseteq Writer /\ discovered_readers \subseteq Reader
      /\ advertised = discovered_writers \cup discovered_readers
      /\ advertised \subseteq Visible
    BY DEF IInv, TypeOK, TablesTypeOK, AdvertisedInv, Mirrors
<1>2. /\ Writer \cap Reader = {} /\ Writer \cap Participant = {}
      /\ Reader \cap Participant = {}
    BY EntitiesAssumption DEF EntitiesAssumption, Endpoint
<1>3. ASSUME NEW e PROVE /\ Discovered(e).discovered /\ Discovered(e).key = e
                         /\ ~ Undiscovered(e).discovered /\ Undiscovered(e).key = e
    BY DEF Discovered, Undiscovered
<1>4. ASSUME NEW w \in Writer, Receive(Discovered(w)), DiscoveredPublication(w)
      PROVE  AdvertisedInv'
    <2>1. /\ advertised' = advertised \cup {w} /\ {w} \cap Endpoint = {w}
          /\ discovered_writers' = discovered_writers \cup {w}
          /\ UNCHANGED <<discovered_readers, alive, builtin>>
        BY <1>4 DEF DiscoveredPublication, Endpoint
    <2> QED
        BY <1>1, <1>3, <1>4, <2>1, EndpointHandlerMirrors
<1>5. ASSUME NEW r \in Reader, Receive(Discovered(r)), DiscoveredSubscription(r)
      PROVE  AdvertisedInv'
    <2>1. PICK routed \in SUBSET Key, statuses \in [Slot -> RouteStatus] :
            SubscriptionEffect(r, routed, statuses)
        BY <1>5, DiscoveredSubscriptionEffect
    <2>2. /\ advertised' = advertised \cup {r} /\ {r} \cap Endpoint = {r}
          /\ discovered_readers' = discovered_readers \cup {r}
          /\ UNCHANGED <<discovered_writers, alive, builtin>>
        BY <2>1 DEF SubscriptionEffect, Endpoint
    <2> QED
        BY <1>1, <1>3, <1>5, <2>2, EndpointHandlerMirrors
<1>6. ASSUME NEW w \in Writer \cup OwnWriters, Receive(Undiscovered(w)),
             UndiscoveredPublication(w)
      PROVE  AdvertisedInv'
    <2>1. w \notin discovered_readers
        <3>1. w \in OwnWriters => w \notin Visible
            BY VisibleAreForeign DEF Own, OwnEndpoint
        <3> QED
            BY <1>1, <1>2, <3>1
    <2>2. /\ advertised' = advertised \ {w}
          /\ discovered_writers' = discovered_writers \ {w}
          /\ UNCHANGED <<discovered_readers, alive, builtin>>
        BY <1>1, <1>6, <2>1 DEF UndiscoveredPublication
    <2>3. advertised' = discovered_writers' \cup discovered_readers'
        BY <1>1, <2>1, <2>2
    <2> QED
        BY <1>3, <1>6, <2>2, <2>3, EndpointHandlerMirrors
<1>7. ASSUME NEW r \in Reader \cup OwnReaders, Receive(Undiscovered(r)),
             UndiscoveredSubscription(r)
      PROVE  AdvertisedInv'
    <2>1. r \notin discovered_writers
        <3>1. r \in OwnReaders => r \notin Visible
            BY VisibleAreForeign DEF Own, OwnEndpoint
        <3> QED
            BY <1>1, <1>2, <3>1
    <2>2. /\ advertised' = advertised \ {r}
          /\ discovered_readers' = discovered_readers \ {r}
          /\ UNCHANGED discovered_writers
        BY <1>1, <1>7, <2>1 DEF UndiscoveredSubscription
    <2>3. \A e \in Visible : builtin'[e] = builtin[e] /\ (e \in alive' <=> e \in alive)
        <3>1. RouteZenohDDS_drop(unused_routes_to_dds(r)) \in SUBSET OwnEndpoint
            BY DEF RouteZenohDDS_drop, unused_routes_to_dds, OwnEndpoint, OwnWriters, IInv,
                TypeOK, TablesTypeOK
        <3>2. EntitiesChange({}, RouteZenohDDS_drop(unused_routes_to_dds(r)))
            BY <1>7 DEF UndiscoveredSubscription
        <3> QED
            BY <3>1, <3>2, OwnEndpointsInvisible
    <2>4. advertised' = discovered_writers' \cup discovered_readers'
        BY <1>1, <2>1, <2>2
    <2> QED
        BY <1>3, <1>7, <2>2, <2>3, <2>4, EndpointHandlerMirrors
<1>8. ASSUME NEW p \in Participant, NEW event, event.key = p, Receive(event),
             DiscoveredParticipant(p) \/ UndiscoveredParticipant(p), UNCHANGED advertised
      PROVE  AdvertisedInv'
    <2>1. UNCHANGED <<discovered_writers, discovered_readers, alive, builtin>>
        BY <1>8 DEF DiscoveredParticipant, UndiscoveredParticipant
    <2>2. {p} \cap Endpoint = {} /\ p \notin advertised
        BY <1>1, <1>2 DEF Endpoint
    <2> QED
        BY <1>1, <1>8, <2>1, <2>2, EndpointHandlerMirrors
<1>9. CASE HandleParticipant
    BY <1>3, <1>8, <1>9 DEF HandleParticipant
<1> QED
    BY <1>4, <1>5, <1>6, <1>7, <1>9 DEF HandleEvent, HandlePublication, HandleSubscription

\* The handlers of samples and group events create and delete only endpoints of the
\* bridge in its own domain.
LEMMA RemoteHandlersMirror ==
    ASSUME IInv, AdvertisedInv, (\E x \in Remote : HandleSample(x)) \/ HandleGroupEvent
    PROVE  AdvertisedInv'
<1>1. ASSUME NEW born \in SUBSET OwnEndpoint, NEW dead \in SUBSET OwnEndpoint,
             EntitiesChange(born, dead), UNCHANGED <<entity_vars, advertised, disco>>
      PROVE  AdvertisedInv'
    <2>1. \A e \in Visible : builtin'[e] = builtin[e] /\ (e \in alive' <=> e \in alive)
        BY <1>1, OwnEndpointsInvisible
    <2>2. \A e \in Visible : Mirrored(e, alive, builtin, disco, advertised) =>
                                Mirrored(e, alive', builtin', disco', advertised')
        BY <1>1, <2>1 DEF Mirrored
    <2> QED
        BY <1>1, <2>2 DEF AdvertisedInv, Mirrors, entity_vars
<1>2. routes_to_dds \subseteq Key /\ routes_from_dds \subseteq Key
    BY DEF IInv, TypeOK, TablesTypeOK
<1>3. ASSUME NEW keys \in SUBSET Key
      PROVE  /\ {OwnWriter(ke) : ke \in keys} \in SUBSET OwnEndpoint
             /\ {OwnReader(ke) : ke \in keys} \in SUBSET OwnEndpoint
    BY DEF OwnEndpoint, OwnWriters, OwnReaders
<1>4. ASSUME NEW keys \in SUBSET Key
      PROVE  /\ RouteZenohDDS_drop(keys) \in SUBSET OwnEndpoint
             /\ RouteDDSZenoh_drop(keys) \in SUBSET OwnEndpoint
    BY <1>3 DEF RouteZenohDDS_drop, RouteDDSZenoh_drop
<1>5. {} \in SUBSET OwnEndpoint
    OBVIOUS
<1>6. ASSUME NEW x \in RemoteWriter, PutWriter(x), UNCHANGED disco
      PROVE  AdvertisedInv'
    <2>1. PICK routed \in SUBSET RemoteKeysOf(x) : PutWriterEffect(x, routed)
        BY <1>6, PutWriterHasEffect DEF IInv
    <2> DEFINE lacking == {ke \in routed : ke \notin routes_to_dds \/ dds_writer[ke] = NoEntity}
    <2>2. EntitiesChange({OwnWriter(ke) : ke \in lacking}, {})
          /\ UNCHANGED <<entity_vars, advertised>>
        BY <2>1 DEF PutWriterEffect
    <2>3. lacking \in SUBSET Key
        BY RemoteKeysAreKeys DEF Remote
    <2> HIDE DEF lacking
    <2>4. {OwnWriter(ke) : ke \in lacking} \in SUBSET OwnEndpoint
        BY <1>3, <2>3
    <2> QED
        BY <1>1, <1>5, <1>6, <2>2, <2>4
<1>7. ASSUME NEW x \in RemoteReader, PutReader(x), UNCHANGED disco
      PROVE  AdvertisedInv'
    <2>1. PICK routed \in SUBSET RemoteKeysOf(x) :
                \E working \in SUBSET (routed \ routes_from_dds) :
                    PutReaderEffect(x, routed, working)
        BY <1>7, PutReaderHasEffect DEF IInv
    <2>2. PICK working \in SUBSET (routed \ routes_from_dds) :
                PutReaderEffect(x, routed, working)
        BY <2>1
    <2>3. EntitiesChange({OwnReader(ke) : ke \in working}, {})
          /\ UNCHANGED <<entity_vars, advertised>>
        BY <2>2 DEF PutReaderEffect
    <2>4. working \in SUBSET Key
        BY RemoteKeysAreKeys DEF Remote
    <2>5. {OwnReader(ke) : ke \in working} \in SUBSET OwnEndpoint
        BY <1>3, <2>4
    <2> QED
        BY <1>1, <1>5, <1>7, <2>3, <2>5
<1>8. ASSUME NEW x, DeleteWriter(x), UNCHANGED disco
      PROVE  AdvertisedInv'
    <2>1. routes_without_writer({x}) \in SUBSET Key
        BY <1>2 DEF routes_without_writer
    <2>2. EntitiesChange({}, RouteZenohDDS_drop(routes_without_writer({x})))
          /\ UNCHANGED <<entity_vars, advertised>>
        BY <1>8 DEF DeleteWriter
    <2> QED
        BY <1>1, <1>4, <1>5, <1>8, <2>1, <2>2
<1>9. ASSUME NEW x, DeleteReader(x), UNCHANGED disco
      PROVE  AdvertisedInv'
    <2>1. routes_without_reader({x}) \in SUBSET Key
        BY <1>2 DEF routes_without_reader
    <2>2. EntitiesChange({}, RouteDDSZenoh_drop(routes_without_reader({x})))
          /\ UNCHANGED <<entity_vars, advertised>>
        BY <1>9 DEF DeleteReader
    <2> QED
        BY <1>1, <1>4, <1>5, <1>9, <2>1, <2>2
<1>10. ASSUME NEW plugin, PluginLeft(plugin), UNCHANGED disco
       PROVE  AdvertisedInv'
    <2> DEFINE to_dds == routes_without_writer(EntitiesOf(plugin))
               from_dds == routes_without_reader(EntitiesOf(plugin))
    <2>1. to_dds \in SUBSET Key /\ from_dds \in SUBSET Key
        BY <1>2 DEF routes_without_reader, routes_without_writer
    <2>2. EntitiesChange({}, RouteZenohDDS_drop(to_dds) \cup RouteDDSZenoh_drop(from_dds))
          /\ UNCHANGED <<entity_vars, advertised>>
        BY <1>10 DEF PluginLeft
    <2> HIDE DEF to_dds, from_dds
    <2>3. RouteZenohDDS_drop(to_dds) \cup RouteDDSZenoh_drop(from_dds) \in SUBSET OwnEndpoint
        BY <1>4, <2>1
    <2> QED
        BY <1>1, <1>5, <1>10, <2>2, <2>3
<1>11. ASSUME NEW plugin, PluginDetected(plugin), UNCHANGED disco
       PROVE  AdvertisedInv'
    BY <1>11 DEF PluginDetected, tables, entity_vars, AdvertisedInv
<1>12. ASSUME NEW x \in Remote, HandleSample(x) PROVE AdvertisedInv'
    BY <1>6, <1>7, <1>8, <1>9, <1>12 DEF HandleSample, ReceiveSample
<1> QED
    BY <1>10, <1>11, <1>12 DEF HandleGroupEvent

\* Once all samples are taken and all events handled, exactly the endpoints that
\* exist are advertised to the other plugins, however the builtin readers overwrote
\* their samples and the threads of DDS reordered them.
THEOREM AdvertisedMirrorAlways == Spec => []AdvertisedMirror
<1> DEFINE of == Visible \cap Endpoint
<1>1. Init => AdvertisedInv
    <2> SUFFICES ASSUME Init PROVE AdvertisedInv
        OBVIOUS
    <2>1. DiscoInit /\ advertised = {} /\ discovered_writers \cup discovered_readers = {}
        BY DEF Init, TablesInit
    <2> QED
        BY <2>1, MirrorsInit DEF AdvertisedInv
<1>2. IInv /\ AdvertisedInv /\ [Next]_vars => AdvertisedInv'
    <2> SUFFICES ASSUME IInv, AdvertisedInv, [Next]_vars PROVE AdvertisedInv'
        OBVIOUS
    <2>1. /\ DiscoTypeOK /\ OnlyVisible(disco)
          /\ of \in SUBSET Visible /\ Mirrors(of, alive, builtin, disco, advertised)
        BY DEF IInv, TypeOK, AdvertisedInv
    <2>2. ASSUME UNCHANGED tables
          PROVE  UNCHANGED <<advertised, discovered_writers, discovered_readers>>
        BY <2>2 DEF tables, entity_vars
    <2>3. ASSUME NEW e \in Foreign, Appear(e) \/ Update(e) \/ Disappear(e), UNCHANGED tables
          PROVE  AdvertisedInv'
        <3>1. disco' = disco /\ Mirrors(of, alive', builtin', disco', advertised)
            <4> HIDE DEF of
            <4> QED
                BY <2>1, <2>3, MirrorsForeign
        <3> QED
            BY <2>1, <2>2, <2>3, <3>1 DEF AdvertisedInv
    <2>4. ASSUME UNCHANGED tables, UNCHANGED disco_vars PROVE AdvertisedInv'
        BY <2>2, <2>4 DEF disco_vars, AdvertisedInv
    <2>5. CASE Environment
        BY <2>3, <2>4, <2>5 DEF Environment, RemoteAppears, RemoteDisappears, Publish,
            PluginJoins, PluginLeaves, GroupChange
    <2>6. ASSUME NEW e \in Entity, Listener(e) PROVE AdvertisedInv'
        <3>1. on_data(e) /\ UNCHANGED tables
            BY <2>6 DEF Listener
        <3>2. OnlyVisible(disco') /\ Mirrors(of, alive', builtin', disco', advertised)
            <4> HIDE DEF of
            <4> QED
                BY <2>1, <3>1, MirrorsOnData
        <3> QED
            BY <2>2, <3>1, <3>2 DEF AdvertisedInv
    <2>7. CASE HandleEvent
        BY <2>7, HandlersMirror
    <2>8. CASE (\E x \in Remote : HandleSample(x)) \/ HandleGroupEvent
        BY <2>8, RemoteHandlersMirror
    <2>9. CASE UNCHANGED vars
        BY <2>4, <2>9 DEF vars
    <2> QED
        BY <2>5, <2>6, <2>7, <2>8, <2>9 DEF Next
<1>3. AdvertisedInv => AdvertisedMirror
    <2> SUFFICES ASSUME AdvertisedInv, Quiet PROVE advertised = alive \cap of
        BY DEF AdvertisedMirror
    <2>1. of \in SUBSET Visible /\ Mirrors(of, alive, builtin, disco, advertised)
        BY DEF AdvertisedInv
    <2> HIDE DEF of
    <2> QED
        BY <2>1, MirrorsQuiet
<1> QED
    BY <1>1, <1>2, <1>3, Invariance, PTL DEF Spec
=============================================================================
