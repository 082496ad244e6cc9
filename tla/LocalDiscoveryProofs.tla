------------------------ MODULE LocalDiscoveryProofs ------------------------
(***************************************************************************)
(* Proofs about LocalDiscovery for all entities, names and configurations. *)
(***************************************************************************)
EXTENDS LocalDiscovery, DiscoveryLemmas

-----------------------------------------------------------------------------
(* The operators the handlers are built from. *)

\* The QoS adaptations give a QoS.
LEMMA AdaptedQos ==
    ASSUME NEW qos \in Qos
    PROVE  /\ adapt_writer_qos_for_reader(qos) \in Qos
           /\ adapt_reader_qos_for_writer(qos) \in Qos
           /\ forwarding_writer_qos(qos) \in Qos
BY DEF Qos, adapt_writer_qos_for_reader, adapt_reader_qos_for_writer,
       forwarding_writer_qos

\* The route of an endpoint gets an endpoint on the same topic.
LEMMA RouteEndpoints ==
    ASSUME NEW e \in Endpoint
    PROVE  /\ \A o \in {"created", "error", "unchecked"} :
                RouteDDSZenoh_new(TopicOf[e], adapt_writer_qos_for_reader(QosOf[e]), o)
                    \in DdsEndpoint \cup {BadEntity}
           /\ RouteDDSZenoh_new(TopicOf[e], adapt_writer_qos_for_reader(QosOf[e]), "created")
                    \in DdsEndpoint
           /\ TopicOf[e] \in Topic
           /\ \A ke : topic_name'[ke] \in Topic =>
                set_dds_writer(ke, adapt_reader_qos_for_writer(QosOf[e])) \in DdsEndpoint
<1>1. TopicOf[e] \in Topic /\ QosOf[e] \in Qos
    BY EntitiesAssumption DEF EntitiesAssumption
<1>2. /\ adapt_writer_qos_for_reader(QosOf[e]) \in Qos
      /\ forwarding_writer_qos(adapt_reader_qos_for_writer(QosOf[e])) \in Qos
    BY <1>1, AdaptedQos
<1> QED
    BY <1>1, <1>2 DEF RouteDDSZenoh_new, set_dds_writer, DdsEndpoint

\* A route's status is one of those DdsEntity.routes may hold.
LEMMA StatusType ==
    /\ \A ke, o : try_add_route_from_dds(ke, o) \in RouteStatus
    /\ \A ke, b, o : try_add_route_to_dds(ke, b, o) \in RouteStatus
BY DEF try_add_route_from_dds, try_add_route_to_dds, RouteStatus

-----------------------------------------------------------------------------
(* Types. *)

\* The empty tables and the bridge's own participant have their types.
LEMMA InitTypeOK == Init => TypeOK
BY EntitiesAssumption
   DEF Init, DiscoInit, TablesInit, TypeOK, DiscoTypeOK, TablesTypeOK, NoRoutes,
       RouteStatus, Entity, Own

\* The domain only publishes samples about entities of other participants.
LEMMA DomainType ==
    ASSUME TypeOK, Domain, UNCHANGED tables
    PROVE  TypeOK'
<1>1. DiscoTypeOK'
    BY ForeignType DEF Domain, TypeOK
<1> QED
    BY <1>1 DEF TypeOK, TablesTypeOK, tables, entity_vars, from_vars, to_vars

\* The listener never sends the discovery of an entity of the bridge.
LEMMA ListenerType ==
    ASSUME TypeOK, NEW e \in Entity, on_data(e), UNCHANGED tables
    PROVE  TypeOK'
<1>1. DiscoTypeOK'
    BY OnDataType DEF TypeOK
<1> QED
    BY <1>1 DEF TypeOK, TablesTypeOK, tables, entity_vars, from_vars, to_vars

-----------------------------------------------------------------------------
(* What the handlers do, without the outcome of each creation. *)

\* The discovery of writer w: the keys that end up routed, of the new ones those
\* whose DDS reader exists, and the statuses of the writer.
PublicationEffect(w, routed, born, status) ==
    LET created == routed \ routes_from_dds IN
    /\ born \subseteq created
    /\ \A ke \in KeysOf(w) \cap routes_from_dds : is_allowed(ke) => ke \in routed
    /\ \A ke \in routed : is_allowed(ke)
    /\ routes_from_dds' = routes_from_dds \cup routed
    /\ dds_reader' \in [Key -> DdsEndpoint \cup {NoEntity, BadEntity}]
    /\ \A ke \in created : dds_reader'[ke] = BadEntity <=> ke \notin born
    /\ \A ke \in created : dds_reader'[ke] # NoEntity
    /\ \A ke \in Key \ created : dds_reader'[ke] = dds_reader[ke]
    /\ local_routed_writers' = add_local_routed_writer(w, routed)
    /\ entity_routes' = [entity_routes EXCEPT ![w] = status]
    /\ \A p \in Slot \ SlotsOf(w) : status[p] = "absent"
    /\ \A p \in SlotsOf(w) :
            /\ status[p] # "absent"
            /\ status[p] = "Routed" <=> KeyFor(w, p) \in routed
            /\ status[p] = "NotAllowed" <=> ~ is_allowed(KeyFor(w, p))
    /\ discovered_writers' = discovered_writers \cup {w}
    /\ admin_space' = admin_space \cup {<<"writer", w>>} \cup refs_from_dds(routed)
    /\ EntitiesChange({OwnReader(ke) : ke \in born}, {})
    /\ UNCHANGED <<discovered_participants, discovered_readers, to_vars>>

\* A discovered publication has that effect, whatever outcome each creation has.
LEMMA DiscoveredPublicationEffect ==
    ASSUME TypeOK, NEW w \in Writer, DiscoveredPublication(w),
           refs_from_dds(routes_from_dds) \subseteq admin_space
    PROVE  \E routed \in SUBSET KeysOf(w), born \in SUBSET Key,
              status \in [Slot -> RouteStatus] : PublicationEffect(w, routed, born, status)
<1>1. PICK outcome \in Outcomes(KeysOf(w) \ routes_from_dds, create_forwarding_dds_reader) :
        DiscoveredPublication(w)!(outcome)
    BY DEF DiscoveredPublication
<1> DEFINE outcome_of(ke) == IF ke \in routes_from_dds THEN "created" ELSE outcome[ke]
           status(ke) == try_add_route_from_dds(ke, outcome_of(ke))
           routed == {ke \in KeysOf(w) : status(ke) = "Routed"}
           created == routed \ routes_from_dds
           born == {ke \in created : outcome_of(ke) = "created"}
           statuses == [p \in Slot |-> IF p \in SlotsOf(w) THEN status(KeyFor(w, p))
                                       ELSE "absent"]
           reader(ke) == RouteDDSZenoh_new(TopicOf[w], adapt_writer_qos_for_reader(QosOf[w]),
                                           outcome_of(ke))
<1>2. /\ SlotsOf(w) \subseteq Slot /\ KeysOf(w) \subseteq Key
      /\ \A p \in SlotsOf(w) : KeyFor(w, p) \in KeysOf(w)
    BY KeysAreKeys DEF Endpoint
<1>3. routed \in SUBSET KeysOf(w) /\ born \in SUBSET Key
    BY <1>2
<1>4. statuses \in [Slot -> RouteStatus]
    BY StatusType DEF RouteStatus
<1>5. \A ke \in created : outcome_of(ke) \in {"created", "unchecked"}
    BY DEF try_add_route_from_dds, Outcomes
<1>6. \A ke \in created : /\ reader(ke) \in DdsEndpoint \cup {BadEntity}
                          /\ reader(ke) = BadEntity <=> ke \notin born
    <2> SUFFICES ASSUME NEW ke \in created
                 PROVE  /\ reader(ke) \in DdsEndpoint \cup {BadEntity}
                        /\ reader(ke) = BadEntity <=> ke \notin born
        OBVIOUS
    <2>1. BadEntity \notin DdsEndpoint
        BY RoutesAssumption DEF RoutesAssumption, DdsEndpoint
    <2>2. CASE outcome_of(ke) = "created"
        BY <2>1, <2>2, RouteEndpoints DEF Endpoint
    <2>3. CASE outcome_of(ke) = "unchecked"
        BY <2>3 DEF RouteDDSZenoh_new
    <2> QED
        BY <1>5, <2>2, <2>3
<1>7. dds_reader' = [ke \in Key |-> IF ke \in created THEN reader(ke) ELSE dds_reader[ke]]
    BY <1>1
<1>8. NoEntity \notin DdsEndpoint \cup {BadEntity}
    BY RoutesAssumption DEF RoutesAssumption, DdsEndpoint
<1>9. PublicationEffect(w, routed, born, statuses)
    <2>1. /\ \A ke \in KeysOf(w) \cap routes_from_dds : is_allowed(ke) => ke \in routed
          /\ \A ke \in routed : is_allowed(ke)
        BY DEF try_add_route_from_dds
    <2>2. routes_from_dds' = routes_from_dds \cup routed
        BY <1>1
    <2>3. /\ dds_reader' \in [Key -> DdsEndpoint \cup {NoEntity, BadEntity}]
          /\ \A ke \in created : dds_reader'[ke] = BadEntity <=> ke \notin born
          /\ \A ke \in created : dds_reader'[ke] # NoEntity
          /\ \A ke \in Key \ created : dds_reader'[ke] = dds_reader[ke]
        BY <1>2, <1>6, <1>7, <1>8 DEF TypeOK, TablesTypeOK
    <2>4. /\ local_routed_writers' = add_local_routed_writer(w, routed)
          /\ entity_routes' = [entity_routes EXCEPT ![w] = statuses]
        BY <1>1
    <2>5. /\ \A p \in Slot \ SlotsOf(w) : statuses[p] = "absent"
          /\ \A p \in SlotsOf(w) :
                /\ statuses[p] # "absent"
                /\ statuses[p] = "Routed" <=> KeyFor(w, p) \in routed
                /\ statuses[p] = "NotAllowed" <=> ~ is_allowed(KeyFor(w, p))
        BY <1>2 DEF try_add_route_from_dds
    <2>6. admin_space' = admin_space \cup {<<"writer", w>>} \cup refs_from_dds(routed)
        BY <1>1 DEF refs_from_dds
    <2>7. EntitiesChange({OwnReader(ke) : ke \in born}, {})
        BY <1>1
    <2>8. /\ discovered_writers' = discovered_writers \cup {w}
          /\ UNCHANGED <<discovered_participants, discovered_readers, to_vars>>
        BY <1>1
    <2> QED
        BY <2>1, <2>2, <2>3, <2>4, <2>5, <2>6, <2>7, <2>8 DEF PublicationEffect
<1> QED
    BY <1>3, <1>4, <1>9

\* The discovery of reader r: the keys that end up routed and the statuses.
SubscriptionEffect(r, routed, status) ==
    LET created == routed \ routes_to_dds IN
    /\ \A ke \in KeysOf(r) \cap routes_to_dds : is_allowed(ke) => ke \in routed
    /\ \A ke \in routed : is_allowed(ke)
    /\ routes_to_dds' = routes_to_dds \cup routed
    /\ dds_writer' \in [Key -> DdsEndpoint \cup {NoEntity}]
    /\ \A ke \in created : dds_writer'[ke] # NoEntity
    /\ \A ke \in Key \ created : dds_writer'[ke] = dds_writer[ke]
    /\ topic_name' \in [Key -> Topic \cup {NoEntity}]
    /\ querying' \subseteq querying \cup created
    /\ local_routed_readers' = add_local_routed_reader(r, routed)
    /\ entity_routes' = [entity_routes EXCEPT ![r] = status]
    /\ \A p \in Slot \ SlotsOf(r) : status[p] = "absent"
    /\ \A p \in SlotsOf(r) :
            /\ status[p] # "absent"
            /\ status[p] = "Routed" <=> KeyFor(r, p) \in routed
            /\ status[p] = "NotAllowed" <=> ~ is_allowed(KeyFor(r, p))
    /\ discovered_readers' = discovered_readers \cup {r}
    /\ admin_space' = admin_space \cup {<<"reader", r>>} \cup refs_to_dds(routed)
    /\ EntitiesChange({OwnWriter(ke) : ke \in created}, {})
    /\ UNCHANGED <<discovered_participants, discovered_writers, from_vars>>

\* In this mode a route to DDS always has its DDS writer, so that the branch of
\* #102 that creates a missing one is never taken.
LEMMA DiscoveredSubscriptionEffect ==
    ASSUME TypeOK, NEW r \in Reader, DiscoveredSubscription(r),
           refs_to_dds(routes_to_dds) \subseteq admin_space,
           \A ke \in Key : dds_writer[ke] = NoEntity <=> ke \notin routes_to_dds
    PROVE  \E routed \in SUBSET KeysOf(r), status \in [Slot -> RouteStatus] :
                SubscriptionEffect(r, routed, status)
<1> DEFINE lacking == lacking_writer(KeysOf(r))
           writer(ke) == set_dds_writer(ke, adapt_reader_qos_for_writer(QosOf[r]))
<1>1. PICK outcome \in Outcomes(lacking, create_forwarding_dds_writer) :
        DiscoveredSubscription(r)!(outcome)
    BY DEF DiscoveredSubscription
<1> DEFINE outcome_of(ke) == IF ke \in lacking THEN outcome[ke] ELSE "created"
           status(ke) == try_add_route_to_dds(ke, TRUE, outcome_of(ke))
           routed == {ke \in KeysOf(r) : status(ke) = "Routed"}
           created == routed \ routes_to_dds
           statuses == [p \in Slot |-> IF p \in SlotsOf(r) THEN status(KeyFor(r, p))
                                       ELSE "absent"]
<1>2. /\ SlotsOf(r) \subseteq Slot /\ KeysOf(r) \subseteq Key
      /\ \A p \in SlotsOf(r) : KeyFor(r, p) \in KeysOf(r)
    BY KeysAreKeys DEF Endpoint
<1>3. lacking = KeysOf(r) \ routes_to_dds
    BY <1>2 DEF lacking_writer
<1>4. statuses \in [Slot -> RouteStatus]
    BY StatusType DEF RouteStatus
<1>5. RouteZenohDDS_new(created, TopicOf[r], adapt_reader_qos_for_writer(QosOf[r]))
    BY <1>1
<1>6. routed \cap lacking = created
    BY <1>3
<1>7. dds_writer' = [ke \in Key |-> IF ke \in created THEN writer(ke) ELSE dds_writer[ke]]
    BY <1>1, <1>6
<1>9. /\ topic_name' \in [Key -> Topic \cup {NoEntity}]
      /\ \A ke \in created : topic_name'[ke] \in Topic
    BY <1>2, <1>5, RouteEndpoints DEF RouteZenohDDS_new, Endpoint, TypeOK, TablesTypeOK
<1>10. \A ke \in created : writer(ke) \in DdsEndpoint /\ NoEntity \notin DdsEndpoint
    BY <1>9, RouteEndpoints, RoutesAssumption DEF Endpoint, RoutesAssumption, DdsEndpoint
<1>8. SubscriptionEffect(r, routed, statuses)
    <2>1. \A ke \in KeysOf(r) \cap routes_to_dds : is_allowed(ke) => ke \in routed
        BY <1>3 DEF try_add_route_to_dds
    <2>2. \A ke \in routed : is_allowed(ke)
        BY DEF try_add_route_to_dds
    <2>3. routes_to_dds' = routes_to_dds \cup routed
        BY <1>5 DEF RouteZenohDDS_new
    <2>4. /\ dds_writer' \in [Key -> DdsEndpoint \cup {NoEntity}]
          /\ \A ke \in created : dds_writer'[ke] # NoEntity
          /\ \A ke \in Key \ created : dds_writer'[ke] = dds_writer[ke]
        BY <1>2, <1>7, <1>10 DEF TypeOK, TablesTypeOK
    <2>5. querying' \subseteq querying \cup created
        BY <1>5 DEF RouteZenohDDS_new
    <2>6. /\ local_routed_readers' = add_local_routed_reader(r, routed)
          /\ entity_routes' = [entity_routes EXCEPT ![r] = statuses]
        BY <1>1
    <2>7. /\ \A p \in Slot \ SlotsOf(r) : statuses[p] = "absent"
          /\ \A p \in SlotsOf(r) :
                /\ statuses[p] # "absent"
                /\ statuses[p] = "Routed" <=> KeyFor(r, p) \in routed
                /\ statuses[p] = "NotAllowed" <=> ~ is_allowed(KeyFor(r, p))
        BY <1>2 DEF try_add_route_to_dds
    <2>8. admin_space' = admin_space \cup {<<"reader", r>>} \cup refs_to_dds(routed)
        BY <1>1 DEF refs_to_dds
    <2>9. EntitiesChange({OwnWriter(ke) : ke \in created}, {})
        BY <1>1, <1>6
    <2>10. /\ discovered_readers' = discovered_readers \cup {r}
           /\ UNCHANGED <<discovered_participants, discovered_writers, from_vars>>
        BY <1>1
    <2> QED
        BY <1>9, <2>1, <2>2, <2>3, <2>4, <2>5, <2>6, <2>7, <2>8, <2>9, <2>10
           DEF SubscriptionEffect
<1> QED
    BY <1>4, <1>8

-----------------------------------------------------------------------------
(* The inductive invariant.  RoutesAreUsed makes StatusAgrees inductive: the  *)
(* route of a listed endpoint exists, so an update finds it again.            *)
(* NoEndpointLeak makes TypeOK and the others inductive for subscriptions:    *)
(* a route to DDS has its DDS writer, so none is created for an old route.    *)

IInv == TypeOK /\ RoutesAreUsed /\ StatusAgrees /\ AdminSpaceExact /\ NoEndpointLeak

\* The inductive invariant holds when the bridge starts.
LEMMA InitIInv == Init => IInv
<1> SUFFICES ASSUME Init PROVE IInv
    OBVIOUS
<1>1. TypeOK
    BY InitTypeOK
<1>2. RoutesAreUsed
    BY DEF Init, TablesInit, RoutesAreUsed
<1>3. StatusAgrees
    <2>1. \A e \in Endpoint, p \in Slot : entity_routes[e][p] = "absent"
        BY DEF Init, TablesInit, NoRoutes
    <2>2. \A e \in Endpoint : SlotsOf(e) \subseteq Slot
        BY KeysAreKeys
    <2> QED
        BY <2>1, <2>2 DEF Init, TablesInit, StatusAgrees, Endpoint
<1>4. AdminSpaceExact
    BY DEF Init, TablesInit, AdminSpaceExact
<1>5. NoEndpointLeak
    <2>1. \A ke \in Key : OwnReader(ke) # Self /\ OwnWriter(ke) # Self
        BY EntitiesAssumption DEF EntitiesAssumption, OwnEndpoint, OwnReaders, OwnWriters
    <2> QED
        BY <2>1 DEF Init, DiscoInit, TablesInit, NoEndpointLeak
<1> QED
    BY <1>1, <1>2, <1>3, <1>4, <1>5 DEF IInv

\* The discovery of a writer, new or updated, preserves the invariant.
LEMMA DiscoveredPublicationPreserves ==
    ASSUME IInv, NEW w \in Writer, NEW event, Receive(event), DiscoveredPublication(w)
    PROVE  IInv'
<1>1. refs_from_dds(routes_from_dds) \subseteq admin_space
    BY DEF IInv, AdminSpaceExact, refs_from_dds
<1>2. PICK routed \in SUBSET KeysOf(w), born \in SUBSET Key, status \in [Slot -> RouteStatus] :
        PublicationEffect(w, routed, born, status)
    BY <1>1, DiscoveredPublicationEffect DEF IInv
<1>3. /\ KeysOf(w) \subseteq Key /\ SlotsOf(w) \subseteq Slot
      /\ \A p \in SlotsOf(w) : KeyFor(w, p) \in KeysOf(w)
      /\ w \in Endpoint /\ w \notin Reader
    BY KeysAreKeys, EntitiesAssumption DEF Endpoint, EntitiesAssumption
<1>4. TypeOK'
    <2>1. DiscoTypeOK'
        <3>1. {OwnReader(ke) : ke \in born} \in SUBSET Entity
            BY DEF Entity, Own, OwnEndpoint, OwnReaders
        <3>2. /\ alive' \in SUBSET Entity
              /\ builtin' \in [Entity -> {"taken", "alive", "disposed"}]
            BY <1>2, <3>1, EntitiesChangeType DEF PublicationEffect, IInv, TypeOK
        <3> QED
            BY <3>2, ReceiveType DEF DiscoTypeOK, IInv, TypeOK
    <2>2. local_routed_writers' \in [Key -> SUBSET Writer]
        BY <1>2 DEF PublicationEffect, add_local_routed_writer, IInv, TypeOK, TablesTypeOK
    <2>3. entity_routes' \in [Endpoint -> [Slot -> RouteStatus]]
        BY <1>2 DEF PublicationEffect, IInv, TypeOK, TablesTypeOK
    <2>4. admin_space' \in SUBSET AdminRef
        BY <1>2, <1>3 DEF PublicationEffect, IInv, TypeOK, TablesTypeOK, AdminRef, refs_from_dds
    <2>5. /\ discovered_writers' \in SUBSET Writer
          /\ routes_from_dds' \in SUBSET Key
        BY <1>2, <1>3 DEF PublicationEffect, IInv, TypeOK, TablesTypeOK
    <2> QED
        BY <1>2, <2>1, <2>2, <2>3, <2>4, <2>5
           DEF PublicationEffect, IInv, TypeOK, TablesTypeOK, to_vars
<1>5. RoutesAreUsed'
    BY <1>2, <1>3 DEF PublicationEffect, add_local_routed_writer, IInv, RoutesAreUsed, to_vars
<1>6. StatusAgrees'
    <2>1. /\ entity_routes'[w] = status
          /\ \A e \in Endpoint \ {w} : entity_routes'[e] = entity_routes[e]
        BY <1>2, <1>3 DEF PublicationEffect, IInv, TypeOK, TablesTypeOK
    <2>2. \A v \in Writer \ {w}, ke \in Key :
            v \in local_routed_writers'[ke] <=> v \in local_routed_writers[ke]
        BY <1>2 DEF PublicationEffect, add_local_routed_writer
    <2>3. \A ke \in Key : w \in local_routed_writers'[ke] <=> ke \in routed
        <3>1. SUFFICES ASSUME NEW ke \in Key, w \in local_routed_writers[ke]
                       PROVE  ke \in routed
            BY <1>2, <1>3 DEF PublicationEffect, add_local_routed_writer
        <3>2. PICK p \in SlotsOf(w) : KeyFor(w, p) = ke /\ entity_routes[w][p] = "Routed"
            BY <3>1 DEF IInv, StatusAgrees
        <3>3. is_allowed(ke)
            BY <1>3, <3>2 DEF IInv, StatusAgrees
        <3>4. ke \in routes_from_dds
            BY <3>1 DEF IInv, RoutesAreUsed
        <3> QED
            BY <1>2, <1>3, <3>2, <3>3, <3>4 DEF PublicationEffect
    <2>4. \A v \in Writer, ke \in Key :
            v \in local_routed_writers'[ke] <=>
                \E p \in SlotsOf(v) : KeyFor(v, p) = ke /\ entity_routes'[v][p] = "Routed"
        <3> SUFFICES ASSUME NEW v \in Writer, NEW ke \in Key
                     PROVE  v \in local_routed_writers'[ke] <=>
                \E p \in SlotsOf(v) : KeyFor(v, p) = ke /\ entity_routes'[v][p] = "Routed"
            OBVIOUS
        <3>1. CASE v = w
            <4>1. ke \in routed => ke \in KeysOf(w)
                OBVIOUS
            <4> QED
                BY <1>2, <2>1, <2>3, <3>1, <4>1 DEF PublicationEffect, KeysOf
        <3>2. CASE v # w
            BY <2>1, <2>2, <3>2 DEF IInv, StatusAgrees, Endpoint
        <3> QED
            BY <3>1, <3>2
    <2>5. \A r \in Reader, ke \in Key :
            r \in local_routed_readers'[ke] <=>
                \E p \in SlotsOf(r) : KeyFor(r, p) = ke /\ entity_routes'[r][p] = "Routed"
        BY <1>2, <1>3, <2>1 DEF PublicationEffect, IInv, StatusAgrees, to_vars, Endpoint
    <2>6. \A e \in Endpoint : e \in discovered_writers' \cup discovered_readers'
            <=> e = w \/ e \in discovered_writers \cup discovered_readers
        BY <1>2 DEF PublicationEffect
    <2>7. \A e \in Endpoint, p \in Slot :
            LET known == e \in discovered_writers' \cup discovered_readers' IN
            /\ entity_routes'[e][p] = "absent" <=> ~ (known /\ p \in SlotsOf(e))
            /\ entity_routes'[e][p] = "NotAllowed"
                    <=> known /\ p \in SlotsOf(e) /\ ~ is_allowed(KeyFor(e, p))
        <3> SUFFICES ASSUME NEW e \in Endpoint, NEW p \in Slot
                     PROVE  LET known == e \in discovered_writers' \cup discovered_readers' IN
                        /\ entity_routes'[e][p] = "absent" <=> ~ (known /\ p \in SlotsOf(e))
                        /\ entity_routes'[e][p] = "NotAllowed"
                            <=> known /\ p \in SlotsOf(e) /\ ~ is_allowed(KeyFor(e, p))
            OBVIOUS
        <3>1. CASE e = w
            BY <1>2, <2>1, <2>6, <3>1 DEF PublicationEffect
        <3>2. CASE e # w
            BY <2>1, <2>6, <3>2 DEF IInv, StatusAgrees
        <3> QED
            BY <3>1, <3>2
    <2> QED
        BY <2>4, <2>5, <2>7 DEF StatusAgrees
<1>7. AdminSpaceExact'
    BY <1>2 DEF PublicationEffect, refs_from_dds, IInv, AdminSpaceExact, to_vars
<1>8. NoEndpointLeak'
    <2>1. \A ke \in Key : OwnReader(ke) \in alive' <=> OwnReader(ke) \in alive \/ ke \in born
        BY <1>2 DEF PublicationEffect, EntitiesChange, OwnReader
    <2>2. \A ke \in Key : OwnWriter(ke) \in alive' <=> OwnWriter(ke) \in alive
        BY <1>2 DEF PublicationEffect, EntitiesChange, OwnReader, OwnWriter
    <2> QED
        BY <1>2, <1>3, <2>1, <2>2 DEF PublicationEffect, IInv, NoEndpointLeak, to_vars
<1> QED
    BY <1>4, <1>5, <1>6, <1>7, <1>8 DEF IInv

\* The undiscovery of a known writer preserves the invariant: the routes it was
\* the last one of are exactly those dropped.
LEMMA UndiscoveredPublicationPreserves ==
    ASSUME IInv, NEW w \in discovered_writers, NEW event, Receive(event),
           UndiscoveredPublication(w)
    PROVE  IInv'
<1> DEFINE gone == unused_routes_from_dds(w)
<1>1. /\ w \in Writer /\ w \in Endpoint /\ w \notin Reader
      /\ gone \subseteq routes_from_dds /\ gone \subseteq Key
    BY EntitiesAssumption DEF EntitiesAssumption, IInv, TypeOK, TablesTypeOK, Endpoint,
        unused_routes_from_dds
<1>2. /\ routes_from_dds' = routes_from_dds \ gone
      /\ dds_reader' = without_routes(dds_reader, gone)
      /\ local_routed_writers' = remove_local_routed_writer(w)
      /\ entity_routes' = [entity_routes EXCEPT ![w] = NoRoutes]
      /\ discovered_writers' = discovered_writers \ {w}
      /\ admin_space' = (admin_space \ {<<"writer", w>>}) \ refs_from_dds(gone)
      /\ EntitiesChange({}, RouteDDSZenoh_drop(gone))
      /\ UNCHANGED <<discovered_participants, discovered_readers, to_vars>>
    BY DEF UndiscoveredPublication
<1>3. TypeOK'
    <2>1. DiscoTypeOK'
        <3>1. RouteDDSZenoh_drop(gone) \in SUBSET Entity
            BY DEF IInv, TypeOK, DiscoTypeOK, RouteDDSZenoh_drop
        <3>2. /\ alive' \in SUBSET Entity
              /\ builtin' \in [Entity -> {"taken", "alive", "disposed"}]
            BY <1>2, <3>1, EntitiesChangeType DEF IInv, TypeOK
        <3> QED
            BY <3>2, ReceiveType DEF DiscoTypeOK, IInv, TypeOK
    <2>2. local_routed_writers' \in [Key -> SUBSET Writer]
        BY <1>2 DEF remove_local_routed_writer, IInv, TypeOK, TablesTypeOK
    <2>3. entity_routes' \in [Endpoint -> [Slot -> RouteStatus]]
        BY <1>2 DEF IInv, TypeOK, TablesTypeOK, NoRoutes, RouteStatus
    <2>4. dds_reader' \in [Key -> DdsEndpoint \cup {NoEntity, BadEntity}]
        BY <1>2 DEF without_routes, IInv, TypeOK, TablesTypeOK
    <2>5. /\ discovered_writers' \in SUBSET Writer
          /\ routes_from_dds' \in SUBSET Key
          /\ admin_space' \in SUBSET AdminRef
        BY <1>2 DEF IInv, TypeOK, TablesTypeOK
    <2> QED
        BY <1>2, <2>1, <2>2, <2>3, <2>4, <2>5 DEF IInv, TypeOK, TablesTypeOK, to_vars
<1>4. RoutesAreUsed'
    BY <1>2 DEF unused_routes_from_dds, remove_local_routed_writer, IInv, RoutesAreUsed,
        to_vars
<1>5. StatusAgrees'
    <2>1. /\ \A p \in Slot : entity_routes'[w][p] = "absent"
          /\ \A e \in Endpoint \ {w} : entity_routes'[e] = entity_routes[e]
        BY <1>1, <1>2 DEF IInv, TypeOK, TablesTypeOK, NoRoutes
    <2>2. \A v \in Writer, ke \in Key :
            v \in local_routed_writers'[ke] <=> v # w /\ v \in local_routed_writers[ke]
        BY <1>2 DEF remove_local_routed_writer
    <2>3. \A e \in Endpoint : e \in discovered_writers' \cup discovered_readers'
            <=> e # w /\ e \in discovered_writers \cup discovered_readers
        BY <1>1, <1>2 DEF IInv, TypeOK, TablesTypeOK
    <2>4. \A e \in Endpoint : SlotsOf(e) \subseteq Slot
        BY KeysAreKeys
    <2>5. \A v \in Writer, ke \in Key :
            v \in local_routed_writers'[ke] <=>
                \E p \in SlotsOf(v) : KeyFor(v, p) = ke /\ entity_routes'[v][p] = "Routed"
        BY <1>1, <2>1, <2>2, <2>4 DEF IInv, StatusAgrees, Endpoint
    <2>6. \A r \in Reader, ke \in Key :
            r \in local_routed_readers'[ke] <=>
                \E p \in SlotsOf(r) : KeyFor(r, p) = ke /\ entity_routes'[r][p] = "Routed"
        BY <1>1, <1>2, <2>1 DEF IInv, StatusAgrees, to_vars, Endpoint
    <2>7. \A e \in Endpoint, p \in Slot :
            LET known == e \in discovered_writers' \cup discovered_readers' IN
            /\ entity_routes'[e][p] = "absent" <=> ~ (known /\ p \in SlotsOf(e))
            /\ entity_routes'[e][p] = "NotAllowed"
                    <=> known /\ p \in SlotsOf(e) /\ ~ is_allowed(KeyFor(e, p))
        BY <2>1, <2>3 DEF IInv, StatusAgrees
    <2> QED
        BY <2>5, <2>6, <2>7 DEF StatusAgrees
<1>6. AdminSpaceExact'
    BY <1>2 DEF refs_from_dds, IInv, AdminSpaceExact, to_vars
<1>7. NoEndpointLeak'
    <2>1. \A ke \in Key : OwnReader(ke) \in alive' <=> OwnReader(ke) \in alive /\ ke \notin gone
        BY <1>2 DEF EntitiesChange, RouteDDSZenoh_drop, OwnReader
    <2>2. \A ke \in Key : OwnWriter(ke) \in alive' <=> OwnWriter(ke) \in alive
        BY <1>2 DEF EntitiesChange, RouteDDSZenoh_drop, OwnReader, OwnWriter
    <2>3. \A ke \in Key : dds_reader'[ke] = IF ke \in gone THEN NoEntity ELSE dds_reader[ke]
        BY <1>2 DEF without_routes
    <2> QED
        BY <1>1, <1>2, <2>1, <2>2, <2>3 DEF IInv, NoEndpointLeak, to_vars
<1> QED
    BY <1>3, <1>4, <1>5, <1>6, <1>7 DEF IInv

\* The discovery of a reader, new or updated, preserves the invariant.
LEMMA DiscoveredSubscriptionPreserves ==
    ASSUME IInv, NEW r \in Reader, NEW event, Receive(event), DiscoveredSubscription(r)
    PROVE  IInv'
<1>1. /\ refs_to_dds(routes_to_dds) \subseteq admin_space
      /\ \A ke \in Key : dds_writer[ke] = NoEntity <=> ke \notin routes_to_dds
    BY DEF IInv, AdminSpaceExact, NoEndpointLeak, refs_to_dds
<1>2. PICK routed \in SUBSET KeysOf(r), status \in [Slot -> RouteStatus] :
        SubscriptionEffect(r, routed, status)
    BY <1>1, DiscoveredSubscriptionEffect DEF IInv
<1> DEFINE created == routed \ routes_to_dds
<1>3. /\ KeysOf(r) \subseteq Key /\ SlotsOf(r) \subseteq Slot
      /\ \A p \in SlotsOf(r) : KeyFor(r, p) \in KeysOf(r)
      /\ r \in Endpoint /\ r \notin Writer
    BY KeysAreKeys, EntitiesAssumption DEF Endpoint, EntitiesAssumption
<1>4. TypeOK'
    <2>1. DiscoTypeOK'
        <3>1. {OwnWriter(ke) : ke \in created} \in SUBSET Entity
            BY <1>3 DEF Entity, Own, OwnEndpoint, OwnWriters
        <3>2. /\ alive' \in SUBSET Entity
              /\ builtin' \in [Entity -> {"taken", "alive", "disposed"}]
            BY <1>2, <3>1, EntitiesChangeType DEF SubscriptionEffect, IInv, TypeOK
        <3> QED
            BY <3>2, ReceiveType DEF DiscoTypeOK, IInv, TypeOK
    <2>2. local_routed_readers' \in [Key -> SUBSET Reader]
        BY <1>2 DEF SubscriptionEffect, add_local_routed_reader, IInv, TypeOK, TablesTypeOK
    <2>3. entity_routes' \in [Endpoint -> [Slot -> RouteStatus]]
        BY <1>2 DEF SubscriptionEffect, IInv, TypeOK, TablesTypeOK
    <2>4. admin_space' \in SUBSET AdminRef
        BY <1>2, <1>3 DEF SubscriptionEffect, IInv, TypeOK, TablesTypeOK, AdminRef, refs_to_dds
    <2>5. /\ discovered_readers' \in SUBSET Reader
          /\ routes_to_dds' \in SUBSET Key
          /\ querying' \in SUBSET Key
        BY <1>2, <1>3 DEF SubscriptionEffect, IInv, TypeOK, TablesTypeOK
    <2> QED
        BY <1>2, <2>1, <2>2, <2>3, <2>4, <2>5
           DEF SubscriptionEffect, IInv, TypeOK, TablesTypeOK, from_vars
<1>5. RoutesAreUsed'
    BY <1>2, <1>3 DEF SubscriptionEffect, add_local_routed_reader, IInv, RoutesAreUsed, from_vars
<1>6. StatusAgrees'
    <2>1. /\ entity_routes'[r] = status
          /\ \A e \in Endpoint \ {r} : entity_routes'[e] = entity_routes[e]
        BY <1>2, <1>3 DEF SubscriptionEffect, IInv, TypeOK, TablesTypeOK
    <2>2. \A v \in Reader \ {r}, ke \in Key :
            v \in local_routed_readers'[ke] <=> v \in local_routed_readers[ke]
        BY <1>2 DEF SubscriptionEffect, add_local_routed_reader
    <2>3. \A ke \in Key : r \in local_routed_readers'[ke] <=> ke \in routed
        <3>1. SUFFICES ASSUME NEW ke \in Key, r \in local_routed_readers[ke]
                       PROVE  ke \in routed
            BY <1>2, <1>3 DEF SubscriptionEffect, add_local_routed_reader
        <3>2. PICK p \in SlotsOf(r) : KeyFor(r, p) = ke /\ entity_routes[r][p] = "Routed"
            BY <3>1 DEF IInv, StatusAgrees
        <3>3. is_allowed(ke)
            BY <1>3, <3>2 DEF IInv, StatusAgrees
        <3>4. ke \in routes_to_dds
            BY <3>1 DEF IInv, RoutesAreUsed
        <3> QED
            BY <1>2, <1>3, <3>2, <3>3, <3>4 DEF SubscriptionEffect
    <2>4. \A v \in Reader, ke \in Key :
            v \in local_routed_readers'[ke] <=>
                \E p \in SlotsOf(v) : KeyFor(v, p) = ke /\ entity_routes'[v][p] = "Routed"
        <3> SUFFICES ASSUME NEW v \in Reader, NEW ke \in Key
                     PROVE  v \in local_routed_readers'[ke] <=>
                \E p \in SlotsOf(v) : KeyFor(v, p) = ke /\ entity_routes'[v][p] = "Routed"
            OBVIOUS
        <3>1. CASE v = r
            <4>1. ke \in routed => ke \in KeysOf(r)
                OBVIOUS
            <4> QED
                BY <1>2, <2>1, <2>3, <3>1, <4>1 DEF SubscriptionEffect, KeysOf
        <3>2. CASE v # r
            BY <2>1, <2>2, <3>2 DEF IInv, StatusAgrees, Endpoint
        <3> QED
            BY <3>1, <3>2
    <2>5. \A w \in Writer, ke \in Key :
            w \in local_routed_writers'[ke] <=>
                \E p \in SlotsOf(w) : KeyFor(w, p) = ke /\ entity_routes'[w][p] = "Routed"
        BY <1>2, <1>3, <2>1 DEF SubscriptionEffect, IInv, StatusAgrees, from_vars, Endpoint
    <2>6. \A e \in Endpoint : e \in discovered_writers' \cup discovered_readers'
            <=> e = r \/ e \in discovered_writers \cup discovered_readers
        BY <1>2 DEF SubscriptionEffect
    <2>7. \A e \in Endpoint, p \in Slot :
            LET known == e \in discovered_writers' \cup discovered_readers' IN
            /\ entity_routes'[e][p] = "absent" <=> ~ (known /\ p \in SlotsOf(e))
            /\ entity_routes'[e][p] = "NotAllowed"
                    <=> known /\ p \in SlotsOf(e) /\ ~ is_allowed(KeyFor(e, p))
        <3> SUFFICES ASSUME NEW e \in Endpoint, NEW p \in Slot
                     PROVE  LET known == e \in discovered_writers' \cup discovered_readers' IN
                        /\ entity_routes'[e][p] = "absent" <=> ~ (known /\ p \in SlotsOf(e))
                        /\ entity_routes'[e][p] = "NotAllowed"
                            <=> known /\ p \in SlotsOf(e) /\ ~ is_allowed(KeyFor(e, p))
            OBVIOUS
        <3>1. CASE e = r
            BY <1>2, <2>1, <2>6, <3>1 DEF SubscriptionEffect
        <3>2. CASE e # r
            BY <2>1, <2>6, <3>2 DEF IInv, StatusAgrees
        <3> QED
            BY <3>1, <3>2
    <2> QED
        BY <2>4, <2>5, <2>7 DEF StatusAgrees
<1>7. AdminSpaceExact'
    BY <1>2 DEF SubscriptionEffect, refs_to_dds, IInv, AdminSpaceExact, from_vars
<1>8. NoEndpointLeak'
    <2>1. \A ke \in Key : OwnWriter(ke) \in alive' <=> OwnWriter(ke) \in alive \/ ke \in created
        BY <1>2 DEF SubscriptionEffect, EntitiesChange, OwnWriter
    <2>2. \A ke \in Key : OwnReader(ke) \in alive' <=> OwnReader(ke) \in alive
        BY <1>2 DEF SubscriptionEffect, EntitiesChange, OwnReader, OwnWriter
    <2> QED
        BY <1>2, <1>3, <2>1, <2>2 DEF SubscriptionEffect, IInv, NoEndpointLeak, from_vars
<1> QED
    BY <1>4, <1>5, <1>6, <1>7, <1>8 DEF IInv

\* The undiscovery of a known reader preserves the invariant: the routes it was
\* the last one of are exactly those dropped.
LEMMA UndiscoveredSubscriptionPreserves ==
    ASSUME IInv, NEW r \in discovered_readers, NEW event, Receive(event),
           UndiscoveredSubscription(r)
    PROVE  IInv'
<1> DEFINE gone == unused_routes_to_dds(r)
<1>1. /\ r \in Reader /\ r \in Endpoint /\ r \notin Writer
      /\ gone \subseteq routes_to_dds /\ gone \subseteq Key
    BY EntitiesAssumption DEF EntitiesAssumption, IInv, TypeOK, TablesTypeOK, Endpoint,
        unused_routes_to_dds
<1>2. /\ routes_to_dds' = routes_to_dds \ gone
      /\ dds_writer' = without_routes(dds_writer, gone)
      /\ topic_name' = without_routes(topic_name, gone)
      /\ querying' = querying \ gone
      /\ local_routed_readers' = remove_local_routed_reader(r)
      /\ entity_routes' = [entity_routes EXCEPT ![r] = NoRoutes]
      /\ discovered_readers' = discovered_readers \ {r}
      /\ admin_space' = (admin_space \ {<<"reader", r>>}) \ refs_to_dds(gone)
      /\ EntitiesChange({}, RouteZenohDDS_drop(gone))
      /\ UNCHANGED <<discovered_participants, discovered_writers, from_vars>>
    BY DEF UndiscoveredSubscription, drop_to_dds
<1>3. TypeOK'
    <2>1. DiscoTypeOK'
        <3>1. RouteZenohDDS_drop(gone) \in SUBSET Entity
            BY DEF IInv, TypeOK, DiscoTypeOK, RouteZenohDDS_drop
        <3>2. /\ alive' \in SUBSET Entity
              /\ builtin' \in [Entity -> {"taken", "alive", "disposed"}]
            BY <1>2, <3>1, EntitiesChangeType DEF IInv, TypeOK
        <3> QED
            BY <3>2, ReceiveType DEF DiscoTypeOK, IInv, TypeOK
    <2>2. local_routed_readers' \in [Key -> SUBSET Reader]
        BY <1>2 DEF remove_local_routed_reader, IInv, TypeOK, TablesTypeOK
    <2>3. entity_routes' \in [Endpoint -> [Slot -> RouteStatus]]
        BY <1>2 DEF IInv, TypeOK, TablesTypeOK, NoRoutes, RouteStatus
    <2>4. /\ dds_writer' \in [Key -> DdsEndpoint \cup {NoEntity}]
          /\ topic_name' \in [Key -> Topic \cup {NoEntity}]
        BY <1>2 DEF without_routes, IInv, TypeOK, TablesTypeOK
    <2>5. /\ discovered_readers' \in SUBSET Reader
          /\ routes_to_dds' \in SUBSET Key /\ querying' \in SUBSET Key
          /\ admin_space' \in SUBSET AdminRef
        BY <1>2 DEF IInv, TypeOK, TablesTypeOK
    <2> QED
        BY <1>2, <2>1, <2>2, <2>3, <2>4, <2>5 DEF IInv, TypeOK, TablesTypeOK, from_vars
<1>4. RoutesAreUsed'
    BY <1>2 DEF unused_routes_to_dds, remove_local_routed_reader, IInv, RoutesAreUsed,
        from_vars
<1>5. StatusAgrees'
    <2>1. /\ \A p \in Slot : entity_routes'[r][p] = "absent"
          /\ \A e \in Endpoint \ {r} : entity_routes'[e] = entity_routes[e]
        BY <1>1, <1>2 DEF IInv, TypeOK, TablesTypeOK, NoRoutes
    <2>2. \A v \in Reader, ke \in Key :
            v \in local_routed_readers'[ke] <=> v # r /\ v \in local_routed_readers[ke]
        BY <1>2 DEF remove_local_routed_reader
    <2>3. \A e \in Endpoint : e \in discovered_writers' \cup discovered_readers'
            <=> e # r /\ e \in discovered_writers \cup discovered_readers
        BY <1>1, <1>2 DEF IInv, TypeOK, TablesTypeOK
    <2>4. \A e \in Endpoint : SlotsOf(e) \subseteq Slot
        BY KeysAreKeys
    <2>5. \A v \in Reader, ke \in Key :
            v \in local_routed_readers'[ke] <=>
                \E p \in SlotsOf(v) : KeyFor(v, p) = ke /\ entity_routes'[v][p] = "Routed"
        BY <1>1, <2>1, <2>2, <2>4 DEF IInv, StatusAgrees, Endpoint
    <2>6. \A w \in Writer, ke \in Key :
            w \in local_routed_writers'[ke] <=>
                \E p \in SlotsOf(w) : KeyFor(w, p) = ke /\ entity_routes'[w][p] = "Routed"
        BY <1>1, <1>2, <2>1 DEF IInv, StatusAgrees, from_vars, Endpoint
    <2>7. \A e \in Endpoint, p \in Slot :
            LET known == e \in discovered_writers' \cup discovered_readers' IN
            /\ entity_routes'[e][p] = "absent" <=> ~ (known /\ p \in SlotsOf(e))
            /\ entity_routes'[e][p] = "NotAllowed"
                    <=> known /\ p \in SlotsOf(e) /\ ~ is_allowed(KeyFor(e, p))
        BY <2>1, <2>3 DEF IInv, StatusAgrees
    <2> QED
        BY <2>5, <2>6, <2>7 DEF StatusAgrees
<1>6. AdminSpaceExact'
    BY <1>2 DEF refs_to_dds, IInv, AdminSpaceExact, from_vars
<1>7. NoEndpointLeak'
    <2>1. \A ke \in Key : OwnWriter(ke) \in alive' <=> OwnWriter(ke) \in alive /\ ke \notin gone
        BY <1>2 DEF EntitiesChange, RouteZenohDDS_drop, OwnWriter
    <2>2. \A ke \in Key : OwnReader(ke) \in alive' <=> OwnReader(ke) \in alive
        BY <1>2 DEF EntitiesChange, RouteZenohDDS_drop, OwnReader, OwnWriter
    <2>3. \A ke \in Key : dds_writer'[ke] = IF ke \in gone THEN NoEntity ELSE dds_writer[ke]
        BY <1>2 DEF without_routes
    <2> QED
        BY <1>1, <1>2, <2>1, <2>2, <2>3 DEF IInv, NoEndpointLeak, from_vars
<1> QED
    BY <1>3, <1>4, <1>5, <1>6, <1>7 DEF IInv

\* Participants come and go without effect on the routes.
LEMMA ParticipantPreserves ==
    ASSUME IInv, NEW p \in Participant, NEW event, Receive(event),
           DiscoveredParticipant(p) \/ UndiscoveredParticipant(p)
    PROVE  IInv'
<1>1. /\ UNCHANGED <<discovered_writers, discovered_readers, entity_routes>>
      /\ UNCHANGED <<from_vars, to_vars, alive, builtin>>
    BY DEF DiscoveredParticipant, UndiscoveredParticipant
<1>2. \/ /\ discovered_participants' = discovered_participants \cup {p}
         /\ admin_space' = admin_space \cup {<<"participant", p>>}
      \/ /\ discovered_participants' = discovered_participants \ {p}
         /\ admin_space' = admin_space \ {<<"participant", p>>}
    BY DEF DiscoveredParticipant, UndiscoveredParticipant
<1>3. TypeOK'
    <2>1. DiscoTypeOK'
        BY <1>1, ReceiveType DEF DiscoTypeOK, IInv, TypeOK
    <2>2. /\ discovered_participants' \in SUBSET Participant
          /\ admin_space' \in SUBSET AdminRef
        BY <1>2 DEF IInv, TypeOK, TablesTypeOK, AdminRef
    <2> QED
        BY <1>1, <2>1, <2>2 DEF IInv, TypeOK, TablesTypeOK, from_vars, to_vars
<1>4. AdminSpaceExact'
    BY <1>1, <1>2 DEF IInv, AdminSpaceExact, from_vars, to_vars
<1>5. RoutesAreUsed' /\ StatusAgrees' /\ NoEndpointLeak'
    BY <1>1 DEF IInv, RoutesAreUsed, StatusAgrees, NoEndpointLeak, from_vars, to_vars
<1> QED
    BY <1>3, <1>4, <1>5 DEF IInv

\* What leaves the tables and the bridge's own endpoints alone.
LEMMA TablesUntouchedPreserves ==
    ASSUME IInv, UNCHANGED tables, TypeOK',
           \A e \in OwnEndpoint : e \in alive' <=> e \in alive
    PROVE  IInv'
<1>1. \A ke \in Key : OwnReader(ke) \in OwnEndpoint /\ OwnWriter(ke) \in OwnEndpoint
    BY DEF OwnEndpoint, OwnReaders, OwnWriters
<1>2. NoEndpointLeak'
    BY <1>1 DEF IInv, NoEndpointLeak, tables, from_vars, to_vars
<1>3. RoutesAreUsed' /\ StatusAgrees' /\ AdminSpaceExact'
    BY DEF IInv, RoutesAreUsed, StatusAgrees, AdminSpaceExact, tables, entity_vars,
        from_vars, to_vars
<1> QED
    BY <1>2, <1>3 DEF IInv

\* A change of the domain preserves the invariant: it is not about the bridge's
\* own endpoints.
LEMMA DomainPreserves ==
    ASSUME IInv, Domain, UNCHANGED tables
    PROVE  IInv'
<1>1. TypeOK'
    BY DomainType DEF IInv
<1>2. \A e \in OwnEndpoint : e \in alive' <=> e \in alive
    BY OwnAreNotForeign DEF Domain, Appear, Update, Disappear, Change, EntitiesChange, Own
<1> QED
    BY <1>1, <1>2, TablesUntouchedPreserves

\* The listener preserves the invariant: it only writes the channel.
LEMMA ListenerPreserves ==
    ASSUME IInv, NEW e \in Entity, on_data(e), UNCHANGED tables
    PROVE  IInv'
<1>1. TypeOK' /\ alive' = alive
    BY ListenerType DEF IInv, on_data
<1> QED
    BY <1>1, TablesUntouchedPreserves

\* The undiscovery of an endpoint the bridge does not know, its own included.
LEMMA IgnoredPreserves ==
    ASSUME IInv, NEW event, Receive(event), UNCHANGED <<alive, builtin, tables>>
    PROVE  IInv'
<1>1. TypeOK'
    BY ReceiveType DEF IInv, TypeOK, DiscoTypeOK, TablesTypeOK, tables, entity_vars,
        from_vars, to_vars
<1> QED
    BY <1>1, TablesUntouchedPreserves

\* The undiscovery of an endpoint the maps do not hold leaves the tables alone.
LEMMA UndiscoveredUnknown ==
    /\ \A w : UndiscoveredPublication(w) /\ w \notin discovered_writers
                => UNCHANGED <<alive, builtin, tables>>
    /\ \A r : UndiscoveredSubscription(r) /\ r \notin discovered_readers
                => UNCHANGED <<alive, builtin, tables>>
BY DEF UndiscoveredPublication, UndiscoveredSubscription, tables

\* Every step preserves the inductive invariant.
LEMMA StepPreserves == IInv /\ [Next]_vars => IInv'
<1> SUFFICES ASSUME IInv, [Next]_vars PROVE IInv'
    OBVIOUS
<1>1. CASE Domain /\ UNCHANGED tables
    BY <1>1, DomainPreserves
<1>2. CASE \E e \in Entity : on_data(e) /\ UNCHANGED tables
    BY <1>2, ListenerPreserves
<1>3. CASE HandlePublication
    <2>1. ASSUME NEW w \in Writer, Receive(Discovered(w)), DiscoveredPublication(w)
          PROVE  IInv'
        BY <2>1, DiscoveredPublicationPreserves
    <2>2. ASSUME NEW w, Receive(Undiscovered(w)), UndiscoveredPublication(w)
          PROVE  IInv'
        <3>1. CASE w \in discovered_writers
            BY <2>2, <3>1, UndiscoveredPublicationPreserves
        <3>2. CASE w \notin discovered_writers
            BY <2>2, <3>2, UndiscoveredUnknown, IgnoredPreserves
        <3> QED
            BY <3>1, <3>2
    <2> QED
        BY <1>3, <2>1, <2>2 DEF HandlePublication
<1>4. CASE HandleSubscription
    <2>1. ASSUME NEW r \in Reader, Receive(Discovered(r)), DiscoveredSubscription(r)
          PROVE  IInv'
        BY <2>1, DiscoveredSubscriptionPreserves
    <2>2. ASSUME NEW r, Receive(Undiscovered(r)), UndiscoveredSubscription(r)
          PROVE  IInv'
        <3>1. CASE r \in discovered_readers
            BY <2>2, <3>1, UndiscoveredSubscriptionPreserves
        <3>2. CASE r \notin discovered_readers
            BY <2>2, <3>2, UndiscoveredUnknown, IgnoredPreserves
        <3> QED
            BY <3>1, <3>2
    <2> QED
        BY <1>4, <2>1, <2>2 DEF HandleSubscription
<1>5. CASE HandleParticipant
    BY <1>5, ParticipantPreserves DEF HandleParticipant
<1>6. CASE UNCHANGED vars
    BY <1>6 DEF vars, disco_vars, entity_vars, from_vars, to_vars, IInv, TypeOK, DiscoTypeOK,
        TablesTypeOK, RoutesAreUsed, StatusAgrees, AdminSpaceExact, NoEndpointLeak
<1> QED
    BY <1>1, <1>2, <1>3, <1>4, <1>5, <1>6 DEF Next, HandleEvent

\* The tables keep their invariants for all entities, names and configurations,
\* however creations fail and whatever order changes are reported in.
THEOREM Invariance == Spec => []IInv
<1>1. Init => IInv
    BY InitIInv
<1>2. IInv /\ [Next]_vars => IInv'
    BY StepPreserves
<1> QED
    BY <1>1, <1>2, PTL DEF Spec

\* Every variable keeps its type, and no discovery of an own entity is sent.
THEOREM TypeCorrectness == Spec => []TypeOK
BY Invariance, PTL DEF IInv

\* A route exists exactly as long as it lists a local endpoint.
THEOREM RoutesAreUsedAlways == Spec => []RoutesAreUsed
BY Invariance, PTL DEF IInv

\* The statuses of an endpoint agree with the routes that list it.
THEOREM StatusAgreesAlways == Spec => []StatusAgrees
BY Invariance, PTL DEF IInv

\* The admin space refers to exactly the entities and routes that exist.
THEOREM AdminSpaceExactAlways == Spec => []AdminSpaceExact
BY Invariance, PTL DEF IInv

\* The bridge's endpoints in the DDS domain are exactly those of its routes.
THEOREM NoEndpointLeakAlways == Spec => []NoEndpointLeak
BY Invariance, PTL DEF IInv

-----------------------------------------------------------------------------
(* Steps of the routes.                                                      *)

\* The steps that change a route, and all others.
LEMMA RouteSteps ==
    ASSUME IInv, [Next]_vars
    PROVE  \/ \E w \in Writer, routed \in SUBSET Key : \E born, status :
                PublicationEffect(w, routed, born, status)
           \/ \E w \in discovered_writers : UndiscoveredPublication(w)
           \/ \E r \in Reader, routed \in SUBSET Key : \E status :
                SubscriptionEffect(r, routed, status)
           \/ \E r \in discovered_readers : UndiscoveredSubscription(r)
           \/ UNCHANGED <<from_vars, to_vars>>
<1>1. CASE \E w \in Writer : DiscoveredPublication(w)
    <2>1. PICK w \in Writer : DiscoveredPublication(w)
        BY <1>1
    <2>2. refs_from_dds(routes_from_dds) \subseteq admin_space /\ KeysOf(w) \subseteq Key
        BY KeysAreKeys DEF IInv, AdminSpaceExact, refs_from_dds, Endpoint
    <2> QED
        BY <2>1, <2>2, DiscoveredPublicationEffect DEF IInv
<1>2. CASE \E r \in Reader : DiscoveredSubscription(r)
    <2>1. PICK r \in Reader : DiscoveredSubscription(r)
        BY <1>2
    <2>2. refs_to_dds(routes_to_dds) \subseteq admin_space /\ KeysOf(r) \subseteq Key
        BY KeysAreKeys DEF IInv, AdminSpaceExact, refs_to_dds, Endpoint
    <2>3. \A ke \in Key : dds_writer[ke] = NoEntity <=> ke \notin routes_to_dds
        BY DEF IInv, NoEndpointLeak
    <2> QED
        BY <2>1, <2>2, <2>3, DiscoveredSubscriptionEffect DEF IInv
<1>3. CASE \E w : UndiscoveredPublication(w)
    BY <1>3, UndiscoveredUnknown DEF tables
<1>4. CASE \E r : UndiscoveredSubscription(r)
    BY <1>4, UndiscoveredUnknown DEF tables
<1>5. CASE HandleParticipant \/ UNCHANGED tables \/ UNCHANGED vars
    BY <1>5 DEF HandleParticipant, DiscoveredParticipant, UndiscoveredParticipant, tables, vars
<1> QED
    BY <1>1, <1>2, <1>3, <1>4, <1>5 DEF Next, HandleEvent, HandlePublication,
        HandleSubscription

\* No step drops a route, or replaces its DDS endpoint, while an endpoint it lists
\* stays discovered.
LEMMA StepKeepsRoutes == IInv /\ [Next]_vars => RoutesKept
<1> SUFFICES ASSUME IInv, [Next]_vars PROVE RoutesKept
    OBVIOUS
<1>1. /\ routes_from_dds \subseteq Key /\ routes_to_dds \subseteq Key
      /\ discovered_writers \subseteq Writer /\ discovered_readers \subseteq Reader
    BY DEF IInv, TypeOK, TablesTypeOK
<1>2. CASE UNCHANGED <<from_vars, to_vars>>
    BY <1>2 DEF RoutesKept, from_vars, to_vars
<1>3. ASSUME NEW w \in Writer, NEW routed, NEW born, NEW status,
             PublicationEffect(w, routed, born, status)
      PROVE  RoutesKept
    BY <1>1, <1>3 DEF PublicationEffect, RoutesKept, to_vars
<1>4. ASSUME NEW r \in Reader, NEW routed, NEW status, SubscriptionEffect(r, routed, status)
      PROVE  RoutesKept
    BY <1>1, <1>4 DEF SubscriptionEffect, RoutesKept, from_vars
<1>5. ASSUME NEW w \in discovered_writers, UndiscoveredPublication(w)
      PROVE  RoutesKept
    <2>1. /\ routes_from_dds' = routes_from_dds \ unused_routes_from_dds(w)
          /\ dds_reader' = without_routes(dds_reader, unused_routes_from_dds(w))
          /\ discovered_writers' = discovered_writers \ {w}
          /\ UNCHANGED to_vars
        BY <1>5 DEF UndiscoveredPublication
    <2>2. \A ke \in routes_from_dds : local_routed_writers[ke] \cap discovered_writers' # {}
            => ke \notin unused_routes_from_dds(w)
        BY <1>1, <2>1 DEF unused_routes_from_dds, remove_local_routed_writer
    <2> QED
        BY <1>1, <2>1, <2>2 DEF RoutesKept, without_routes, to_vars
<1>6. ASSUME NEW r \in discovered_readers, UndiscoveredSubscription(r)
      PROVE  RoutesKept
    <2>1. /\ routes_to_dds' = routes_to_dds \ unused_routes_to_dds(r)
          /\ dds_writer' = without_routes(dds_writer, unused_routes_to_dds(r))
          /\ discovered_readers' = discovered_readers \ {r}
          /\ UNCHANGED from_vars
        BY <1>6 DEF UndiscoveredSubscription, drop_to_dds
    <2>2. \A ke \in routes_to_dds : local_routed_readers[ke] \cap discovered_readers' # {}
            => ke \notin unused_routes_to_dds(r)
        BY <1>1, <2>1 DEF unused_routes_to_dds, remove_local_routed_reader
    <2> QED
        BY <1>1, <2>1, <2>2 DEF RoutesKept, without_routes, from_vars
<1> QED
    BY <1>2, <1>3, <1>4, <1>5, <1>6, RouteSteps

\* No step interrupts the route of an endpoint that stays discovered.
THEOREM RouteNotInterruptedEver == Spec => RouteNotInterrupted
<1>1. IInv /\ [Next]_vars => [RoutesKept]_vars
    BY StepKeepsRoutes
<1> QED
    BY <1>1, Invariance, PTL DEF Spec, RouteNotInterrupted

-----------------------------------------------------------------------------
(* Refinement: the routes of each direction implement the ledger.            *)

\* A step of the bridge is a step of the ledger of the routes from DDS, or leaves
\* it unchanged.
LEMMA FromDdsStep ==
    IInv /\ [Next]_vars => [FromDds!Next]_<<routes_from_dds, local_routed_writers>>
<1> SUFFICES ASSUME IInv, [Next]_vars
             PROVE  [FromDds!Next]_<<routes_from_dds, local_routed_writers>>
    OBVIOUS
<1>1. ASSUME NEW w \in Writer, NEW routed \in SUBSET Key, NEW born, NEW status,
             PublicationEffect(w, routed, born, status)
      PROVE  FromDds!Join(w, routed)
    BY <1>1 DEF PublicationEffect, add_local_routed_writer, FromDds!Join
<1>2. ASSUME NEW w \in discovered_writers, UndiscoveredPublication(w)
      PROVE  w \in Writer /\ FromDds!Leave({w})
    <2>1. /\ routes_from_dds' = routes_from_dds \ unused_routes_from_dds(w)
          /\ local_routed_writers' = remove_local_routed_writer(w)
        BY <1>2 DEF UndiscoveredPublication
    <2> QED
        BY <2>1 DEF unused_routes_from_dds, remove_local_routed_writer, FromDds!Leave,
            IInv, TypeOK, TablesTypeOK
<1>3. ASSUME \/ \E r \in Reader, routed \in SUBSET Key : \E status :
                    SubscriptionEffect(r, routed, status)
             \/ \E r \in discovered_readers : UndiscoveredSubscription(r)
             \/ UNCHANGED <<from_vars, to_vars>>
      PROVE  UNCHANGED <<routes_from_dds, local_routed_writers>>
    BY <1>3 DEF SubscriptionEffect, UndiscoveredSubscription, from_vars
<1> QED
    BY <1>1, <1>2, <1>3, RouteSteps DEF FromDds!Next

\* The routes from DDS implement the ledger.
THEOREM FromDdsImplementsLedger == Spec => LedgerFromDds
<1>1. Init => FromDds!Init
    BY DEF Init, TablesInit, FromDds!Init
<1> QED
    BY <1>1, FromDdsStep, Invariance, PTL DEF Spec, LedgerFromDds, FromDds!Spec

\* A step of the bridge is a step of the ledger of the routes to DDS, or leaves it
\* unchanged.
LEMMA ToDdsStep ==
    IInv /\ [Next]_vars => [ToDds!Next]_<<routes_to_dds, local_routed_readers>>
<1> SUFFICES ASSUME IInv, [Next]_vars
             PROVE  [ToDds!Next]_<<routes_to_dds, local_routed_readers>>
    OBVIOUS
<1>1. ASSUME NEW r \in Reader, NEW routed \in SUBSET Key, NEW status,
             SubscriptionEffect(r, routed, status)
      PROVE  ToDds!Join(r, routed)
    BY <1>1 DEF SubscriptionEffect, add_local_routed_reader, ToDds!Join
<1>2. ASSUME NEW r \in discovered_readers, UndiscoveredSubscription(r)
      PROVE  r \in Reader /\ ToDds!Leave({r})
    <2>1. /\ routes_to_dds' = routes_to_dds \ unused_routes_to_dds(r)
          /\ local_routed_readers' = remove_local_routed_reader(r)
        BY <1>2 DEF UndiscoveredSubscription, drop_to_dds
    <2> QED
        BY <2>1 DEF unused_routes_to_dds, remove_local_routed_reader, ToDds!Leave,
            IInv, TypeOK, TablesTypeOK
<1>3. ASSUME \/ \E w \in Writer, routed \in SUBSET Key : \E born, status :
                    PublicationEffect(w, routed, born, status)
             \/ \E w \in discovered_writers : UndiscoveredPublication(w)
             \/ UNCHANGED <<from_vars, to_vars>>
      PROVE  UNCHANGED <<routes_to_dds, local_routed_readers>>
    BY <1>3 DEF PublicationEffect, UndiscoveredPublication, to_vars
<1> QED
    BY <1>1, <1>2, <1>3, RouteSteps DEF ToDds!Next

\* The routes to DDS implement the ledger.
THEOREM ToDdsImplementsLedger == Spec => LedgerToDds
<1>1. Init => ToDds!Init
    BY DEF Init, TablesInit, ToDds!Init
<1> QED
    BY <1>1, ToDdsStep, Invariance, PTL DEF Spec, LedgerToDds, ToDds!Spec

-----------------------------------------------------------------------------
(* The bridge ends up knowing the domain.                                     *)

Known == discovered_participants \cup discovered_writers \cup discovered_readers

\* Whatever is overwritten, reordered or queued, the last word on each entity is on
\* its way to the bridge.
MirrorInv == OnlyVisible(disco) /\ Mirrors(Visible, alive, builtin, disco, Known)

\* The handler of an event that takes it for true preserves that.
LEMMA HandlerMirrors ==
    ASSUME IInv, MirrorInv, NEW event, Receive(event),
           \A e \in Visible : builtin'[e] = builtin[e] /\ (e \in alive' <=> e \in alive),
           Known' = IF event.discovered THEN Known \cup {event.key} ELSE Known \ {event.key}
    PROVE  MirrorInv'
<1>1. DiscoTypeOK /\ Known \subseteq Visible
    BY DEF IInv, TypeOK, MirrorInv, Mirrors
<1>2. event.discovered => event.key \in Visible
    <2>1. disco \in Seq(DiscoveryEvent) /\ disco # <<>> /\ event = disco[1]
        BY <1>1 DEF DiscoTypeOK, Receive
    <2>2. 1 \in 1..Len(disco)
        BY <2>1
    <2> QED
        BY <2>1, <2>2 DEF MirrorInv, OnlyVisible
<1>3. Known' \in SUBSET Visible
    BY <1>1, <1>2
<1>4. \A e \in Visible : IF event.key # e THEN e \in Known' <=> e \in Known
                         ELSE IF event.discovered THEN e \in Known' ELSE e \notin Known'
    OBVIOUS
<1>5. OnlyVisible(disco') /\ Mirrors(Visible, alive', builtin', disco', Known')
    BY <1>1, <1>3, <1>4, MirrorsReceived DEF MirrorInv
<1> QED
    BY <1>5 DEF MirrorInv

\* The effect of each handler on what the bridge knows.
LEMMA HandlersMirror ==
    ASSUME IInv, MirrorInv, HandleEvent
    PROVE  MirrorInv'
<1>1. /\ discovered_writers \subseteq Writer /\ discovered_readers \subseteq Reader
      /\ discovered_participants \subseteq Participant
    BY DEF IInv, TypeOK, TablesTypeOK
<1>2. /\ Writer \cap Reader = {} /\ Writer \cap Participant = {}
      /\ Reader \cap Participant = {}
    BY EntitiesAssumption DEF EntitiesAssumption, Endpoint
<1>3. Known \subseteq Visible
    BY DEF MirrorInv, Mirrors
<1>4. ASSUME NEW e PROVE /\ Discovered(e).discovered /\ Discovered(e).key = e
                         /\ ~ Undiscovered(e).discovered /\ Undiscovered(e).key = e
    BY DEF Discovered, Undiscovered
<1>5. ASSUME NEW w \in Writer, Receive(Discovered(w)), DiscoveredPublication(w)
      PROVE  MirrorInv'
    <2>1. refs_from_dds(routes_from_dds) \subseteq admin_space
        BY DEF IInv, AdminSpaceExact, refs_from_dds
    <2>2. PICK routed \in SUBSET KeysOf(w), born \in SUBSET Key,
               status \in [Slot -> RouteStatus] : PublicationEffect(w, routed, born, status)
        BY <1>5, <2>1, DiscoveredPublicationEffect DEF IInv
    <2>3. {OwnReader(ke) : ke \in born} \in SUBSET OwnEndpoint
        BY DEF OwnEndpoint, OwnReaders
    <2>4. \A e \in Visible : builtin'[e] = builtin[e] /\ (e \in alive' <=> e \in alive)
        BY <2>2, <2>3, OwnEndpointsInvisible DEF PublicationEffect
    <2>5. Known' = Known \cup {w}
        BY <2>2 DEF PublicationEffect, Known
    <2> QED
        BY <1>4, <1>5, <2>4, <2>5, HandlerMirrors
<1>6. ASSUME NEW r \in Reader, Receive(Discovered(r)), DiscoveredSubscription(r)
      PROVE  MirrorInv'
    <2>1. /\ refs_to_dds(routes_to_dds) \subseteq admin_space
          /\ \A ke \in Key : dds_writer[ke] = NoEntity <=> ke \notin routes_to_dds
        BY DEF IInv, AdminSpaceExact, NoEndpointLeak, refs_to_dds
    <2>2. PICK routed \in SUBSET KeysOf(r), status \in [Slot -> RouteStatus] :
                SubscriptionEffect(r, routed, status)
        BY <1>6, <2>1, DiscoveredSubscriptionEffect DEF IInv
    <2>3. {OwnWriter(ke) : ke \in routed \ routes_to_dds} \in SUBSET OwnEndpoint
        BY KeysAreKeys DEF OwnEndpoint, OwnWriters, Endpoint
    <2>4. \A e \in Visible : builtin'[e] = builtin[e] /\ (e \in alive' <=> e \in alive)
        BY <2>2, <2>3, OwnEndpointsInvisible DEF SubscriptionEffect
    <2>5. Known' = Known \cup {r}
        BY <2>2 DEF SubscriptionEffect, Known
    <2> QED
        BY <1>4, <1>6, <2>4, <2>5, HandlerMirrors
<1>7. ASSUME NEW w \in Writer \cup OwnWriters, Receive(Undiscovered(w)),
             UndiscoveredPublication(w)
      PROVE  MirrorInv'
    <2>1. \A e \in Visible : builtin'[e] = builtin[e] /\ (e \in alive' <=> e \in alive)
        <3>1. CASE w \in discovered_writers
            <4>1. RouteDDSZenoh_drop(unused_routes_from_dds(w)) \in SUBSET OwnEndpoint
                BY DEF RouteDDSZenoh_drop, unused_routes_from_dds, OwnEndpoint, OwnReaders,
                    IInv, TypeOK, TablesTypeOK
            <4>2. EntitiesChange({}, RouteDDSZenoh_drop(unused_routes_from_dds(w)))
                BY <1>7, <3>1 DEF UndiscoveredPublication
            <4> QED
                BY <4>1, <4>2, OwnEndpointsInvisible
        <3>2. CASE w \notin discovered_writers
            BY <1>7, <3>2, UndiscoveredUnknown
        <3> QED
            BY <3>1, <3>2
    <2>2. /\ discovered_writers' = discovered_writers \ {w}
          /\ UNCHANGED <<discovered_participants, discovered_readers>>
        BY <1>7 DEF UndiscoveredPublication, entity_vars
    <2>3. w \notin discovered_participants \cup discovered_readers
        <3>1. w \in OwnWriters => w \notin Visible
            BY VisibleAreForeign DEF Own, OwnEndpoint
        <3> QED
            BY <1>1, <1>2, <1>3, <3>1 DEF Known
    <2>4. Known' = Known \ {w}
        BY <2>2, <2>3 DEF Known
    <2> QED
        BY <1>4, <1>7, <2>1, <2>4, HandlerMirrors
<1>8. ASSUME NEW r \in Reader \cup OwnReaders, Receive(Undiscovered(r)),
             UndiscoveredSubscription(r)
      PROVE  MirrorInv'
    <2>1. \A e \in Visible : builtin'[e] = builtin[e] /\ (e \in alive' <=> e \in alive)
        <3>1. CASE r \in discovered_readers
            <4>1. RouteZenohDDS_drop(unused_routes_to_dds(r)) \in SUBSET OwnEndpoint
                BY DEF RouteZenohDDS_drop, unused_routes_to_dds, OwnEndpoint, OwnWriters,
                    IInv, TypeOK, TablesTypeOK
            <4>2. EntitiesChange({}, RouteZenohDDS_drop(unused_routes_to_dds(r)))
                BY <1>8, <3>1 DEF UndiscoveredSubscription
            <4> QED
                BY <4>1, <4>2, OwnEndpointsInvisible
        <3>2. CASE r \notin discovered_readers
            BY <1>8, <3>2, UndiscoveredUnknown
        <3> QED
            BY <3>1, <3>2
    <2>2. /\ discovered_readers' = discovered_readers \ {r}
          /\ UNCHANGED <<discovered_participants, discovered_writers>>
        BY <1>8 DEF UndiscoveredSubscription, entity_vars
    <2>3. r \notin discovered_participants \cup discovered_writers
        <3>1. r \in OwnReaders => r \notin Visible
            BY VisibleAreForeign DEF Own, OwnEndpoint
        <3> QED
            BY <1>1, <1>2, <1>3, <3>1 DEF Known
    <2>4. Known' = Known \ {r}
        BY <2>2, <2>3 DEF Known
    <2> QED
        BY <1>4, <1>8, <2>1, <2>4, HandlerMirrors
<1>9. ASSUME NEW p \in Participant, Receive(Discovered(p)), DiscoveredParticipant(p)
      PROVE  MirrorInv'
    <2>1. Known' = Known \cup {p} /\ UNCHANGED <<alive, builtin>>
        BY <1>9 DEF DiscoveredParticipant, Known
    <2> QED
        BY <1>4, <1>9, <2>1, HandlerMirrors
<1>10. ASSUME NEW p \in Participant, Receive(Undiscovered(p)), UndiscoveredParticipant(p)
       PROVE  MirrorInv'
    <2>1. p \notin discovered_writers \cup discovered_readers
        BY <1>1, <1>2
    <2>2. Known' = Known \ {p} /\ UNCHANGED <<alive, builtin>>
        BY <1>10, <2>1 DEF UndiscoveredParticipant, Known
    <2> QED
        BY <1>4, <1>10, <2>2, HandlerMirrors
<1> QED
    BY <1>5, <1>6, <1>7, <1>8, <1>9, <1>10
       DEF HandleEvent, HandlePublication, HandleSubscription, HandleParticipant

\* Once all samples are taken and all events handled, the bridge knows exactly the
\* entities that exist, however the builtin readers overwrote their samples and the
\* threads of DDS reordered them (on_data, the handlers of the local mode).
THEOREM QuiescentMirrorAlways == Spec => []QuiescentMirror
<1>1. Init => MirrorInv
    <2> SUFFICES ASSUME Init PROVE MirrorInv
        OBVIOUS
    <2>1. DiscoInit /\ Known = {}
        BY DEF Init, TablesInit, Known
    <2> QED
        BY <2>1, MirrorsInit DEF MirrorInv
<1>2. IInv /\ MirrorInv /\ [Next]_vars => MirrorInv'
    <2> SUFFICES ASSUME IInv, MirrorInv, [Next]_vars PROVE MirrorInv'
        OBVIOUS
    <2>1. DiscoTypeOK /\ OnlyVisible(disco) /\ Mirrors(Visible, alive, builtin, disco, Known)
        BY DEF IInv, TypeOK, MirrorInv
    <2>2. CASE Domain /\ UNCHANGED tables
        <3>1. disco' = disco /\ Mirrors(Visible, alive', builtin', disco', Known)
            BY <2>1, <2>2, MirrorsForeign DEF Domain
        <3>2. Known' = Known
            BY <2>2 DEF tables, entity_vars, Known
        <3> QED
            BY <2>1, <3>1, <3>2 DEF MirrorInv
    <2>3. CASE \E e \in Entity : on_data(e) /\ UNCHANGED tables
        <3>1. OnlyVisible(disco') /\ Mirrors(Visible, alive', builtin', disco', Known)
            BY <2>1, <2>3, MirrorsOnData
        <3>2. Known' = Known
            BY <2>3 DEF tables, entity_vars, Known
        <3> QED
            BY <3>1, <3>2 DEF MirrorInv
    <2>4. CASE HandleEvent
        BY <2>4, HandlersMirror
    <2>5. CASE UNCHANGED vars
        BY <2>5 DEF vars, disco_vars, entity_vars, MirrorInv, Known
    <2> QED
        BY <2>2, <2>3, <2>4, <2>5 DEF Next
<1>3. MirrorInv => QuiescentMirror
    BY MirrorsQuiet DEF MirrorInv, QuiescentMirror, Known
<1> QED
    BY <1>1, <1>2, <1>3, Invariance, PTL DEF Spec

-----------------------------------------------------------------------------
(* The routes of a quiet bridge.                                             *)

\* An endpoint is "Routed" on the keys it should be routed on, unless their routes
\* could not be created.
LEMMA RoutedWhenQuiet ==
    ASSUME IInv, QuiescentMirror, Quiet, NEW e \in Endpoint, NEW ke
    PROVE  (\E p \in SlotsOf(e) : KeyFor(e, p) = ke /\ entity_routes[e][p] = "Routed")
            <=> /\ e \in Visible \cap alive /\ ke \in KeysOf(e) /\ is_allowed(ke)
                /\ ~ \A p \in SlotsOf(e) :
                        KeyFor(e, p) = ke => entity_routes[e][p] = "CreationFailure"
<1>1. e \in discovered_writers \cup discovered_readers <=> e \in Visible \cap alive
    <2>1. e \notin discovered_participants
        BY EntitiesAssumption DEF EntitiesAssumption, IInv, TypeOK, TablesTypeOK
    <2> QED
        BY <2>1 DEF QuiescentMirror
<1>2. /\ SlotsOf(e) \subseteq Slot
      /\ \A p \in SlotsOf(e) : /\ entity_routes[e][p] \in RouteStatus
                               /\ KeyFor(e, p) \in KeysOf(e)
    BY KeysAreKeys DEF IInv, TypeOK, TablesTypeOK
<1>3. \A p \in SlotsOf(e) :
        /\ entity_routes[e][p] = "absent" <=> e \notin Visible \cap alive
        /\ entity_routes[e][p] = "NotAllowed"
                <=> e \in Visible \cap alive /\ ~ is_allowed(KeyFor(e, p))
    BY <1>1, <1>2 DEF IInv, StatusAgrees
<1>4. \A p \in SlotsOf(e) : entity_routes[e][p] = "Routed" <=>
        /\ e \in Visible \cap alive /\ is_allowed(KeyFor(e, p))
        /\ entity_routes[e][p] # "CreationFailure"
    BY <1>2, <1>3 DEF RouteStatus
<1> QED
    BY <1>2, <1>4

\* Once all samples are taken and all events handled, the routes are those the
\* endpoints that exist call for, with these endpoints and no others, and the bridge
\* has its own endpoints on these keys only (run_local_discovery_mode).
THEOREM QuiescentRoutesAlways == Spec => []QuiescentRoutes
<1>1. IInv /\ QuiescentMirror => QuiescentRoutes
    <2> SUFFICES ASSUME IInv, QuiescentMirror, Quiet, NEW ke \in Key
                 PROVE  /\ local_routed_writers[ke] = Users(Writer, ke) \ Failed(Writer, ke)
                        /\ local_routed_readers[ke] = Users(Reader, ke) \ Failed(Reader, ke)
                        /\ OwnReader(ke) \in alive => Users(Writer, ke) # {}
                        /\ OwnWriter(ke) \in alive => Users(Reader, ke) # {}
        BY DEF QuiescentRoutes
    <2>1. local_routed_writers[ke] = Users(Writer, ke) \ Failed(Writer, ke)
        <3>1. local_routed_writers[ke] \subseteq Writer
            BY DEF IInv, TypeOK, TablesTypeOK
        <3>2. ASSUME NEW w \in Writer
              PROVE  w \in local_routed_writers[ke] <=>
                        w \in Users(Writer, ke) /\ w \notin Failed(Writer, ke)
            <4>1. w \in local_routed_writers[ke] <=>
                    \E p \in SlotsOf(w) : KeyFor(w, p) = ke /\ entity_routes[w][p] = "Routed"
                BY DEF IInv, StatusAgrees
            <4> QED
                BY <4>1, RoutedWhenQuiet DEF Endpoint, Users, Failed
        <3> QED
            BY <3>1, <3>2 DEF Users
    <2>2. local_routed_readers[ke] = Users(Reader, ke) \ Failed(Reader, ke)
        <3>1. local_routed_readers[ke] \subseteq Reader
            BY DEF IInv, TypeOK, TablesTypeOK
        <3>2. ASSUME NEW r \in Reader
              PROVE  r \in local_routed_readers[ke] <=>
                        r \in Users(Reader, ke) /\ r \notin Failed(Reader, ke)
            <4>1. r \in local_routed_readers[ke] <=>
                    \E p \in SlotsOf(r) : KeyFor(r, p) = ke /\ entity_routes[r][p] = "Routed"
                BY DEF IInv, StatusAgrees
            <4> QED
                BY <4>1, RoutedWhenQuiet DEF Endpoint, Users, Failed
        <3> QED
            BY <3>1, <3>2 DEF Users
    <2>3. /\ OwnReader(ke) \in alive => local_routed_writers[ke] # {}
          /\ OwnWriter(ke) \in alive => local_routed_readers[ke] # {}
        BY DEF IInv, NoEndpointLeak, RoutesAreUsed
    <2> QED
        BY <2>1, <2>2, <2>3
<1> QED
    BY <1>1, Invariance, QuiescentMirrorAlways, PTL

-----------------------------------------------------------------------------
(* DDS matches a routed endpoint with the bridge's endpoint of its route.    *)

\* Endpoints that share a key are on one topic, and each matches what the route gets
\* when the other is the first.
Compatible ==
    /\ \A w, v \in Writer : w # v /\ KeysOf(w) \cap KeysOf(v) # {} =>
            /\ TopicOf[w] = TopicOf[v]
            /\ Matching(QosOf[w], adapt_writer_qos_for_reader(QosOf[v]))
    /\ \A r, q \in Reader : r # q /\ KeysOf(r) \cap KeysOf(q) # {} =>
            /\ TopicOf[r] = TopicOf[q]
            /\ Matching(forwarding_writer_qos(adapt_reader_qos_for_writer(QosOf[q])), QosOf[r])

reader_for(w) == [topic |-> TopicOf[w], qos |-> adapt_writer_qos_for_reader(QosOf[w])]

writer_for(r) ==
    [topic |-> TopicOf[r],
     qos |-> forwarding_writer_qos(adapt_reader_qos_for_writer(QosOf[r]))]

\* What the first endpoint of a route makes of it stays what it is.
FirstsInv ==
    /\ \A ke \in routes_from_dds :
        \/ dds_reader[ke] = BadEntity /\ ke \in Periodic \cap MayFail
        \/ \E w \in Writer : ke \in KeysOf(w) /\ dds_reader[ke] = reader_for(w)
    /\ \A ke \in routes_to_dds :
        \E r \in Reader : ke \in KeysOf(r) /\ dds_writer[ke] = writer_for(r)

\* An endpoint matches what the bridge creates for it, whatever its QoS (#165:
\* adapt_writer_qos_for_reader, adapt_reader_qos_for_writer).
THEOREM AdaptedMatch ==
    ASSUME NEW qos \in Qos
    PROVE  /\ Matching(qos, adapt_writer_qos_for_reader(qos))
           /\ Matching(forwarding_writer_qos(adapt_reader_qos_for_writer(qos)), qos)
<1>1. /\ qos.reliability \in {"unset", "BEST_EFFORT", "RELIABLE"}
      /\ qos = [durability |-> qos.durability, reliability |-> qos.reliability]
    BY DEF Qos
<1>2. CASE qos.reliability = "unset"
    <2>1. /\ adapt_writer_qos_for_reader(qos) =
                [durability |-> qos.durability, reliability |-> "BEST_EFFORT"]
          /\ forwarding_writer_qos(adapt_reader_qos_for_writer(qos)) =
                [durability |-> qos.durability, reliability |-> "RELIABLE"]
        BY <1>1, <1>2 DEF adapt_writer_qos_for_reader, adapt_reader_qos_for_writer,
            forwarding_writer_qos
    <2> QED
        BY <1>2, <2>1 DEF Matching, is_transient_local, is_reader_reliable, is_writer_reliable
<1>3. CASE qos.reliability = "BEST_EFFORT"
    <2>1. /\ adapt_writer_qos_for_reader(qos) = qos
          /\ forwarding_writer_qos(adapt_reader_qos_for_writer(qos)) =
                [durability |-> qos.durability, reliability |-> "unset"]
        BY <1>1, <1>3 DEF adapt_writer_qos_for_reader, adapt_reader_qos_for_writer,
            forwarding_writer_qos
    <2> QED
        BY <1>3, <2>1 DEF Matching, is_transient_local, is_reader_reliable, is_writer_reliable
<1>4. CASE qos.reliability = "RELIABLE"
    <2>1. /\ adapt_writer_qos_for_reader(qos) = qos
          /\ forwarding_writer_qos(adapt_reader_qos_for_writer(qos)) = qos
        BY <1>4 DEF adapt_writer_qos_for_reader, adapt_reader_qos_for_writer,
            forwarding_writer_qos
    <2> QED
        BY <1>4, <2>1 DEF Matching, is_transient_local, is_reader_reliable, is_writer_reliable
<1> QED
    BY <1>1, <1>2, <1>3, <1>4

\* Endpoints that share a key are compatible at least when they are of the same topic
\* and QoS.
LEMMA AlikeAreCompatible ==
    ASSUME \A kind \in {Writer, Reader} : \A e, f \in kind :
                KeysOf(e) \cap KeysOf(f) # {} => TopicOf[e] = TopicOf[f] /\ QosOf[e] = QosOf[f]
    PROVE  Compatible
<1>1. \A e \in Endpoint : QosOf[e] \in Qos
    BY EntitiesAssumption DEF EntitiesAssumption
<1> QED
    BY <1>1, AdaptedMatch DEF Compatible, Endpoint

\* The routes of a writer that is discovered: old ones keep their DDS reader.
LEMMA FirstWriters ==
    ASSUME IInv, FirstsInv, NEW w \in Writer, DiscoveredPublication(w)
    PROVE  FirstsInv'
<1>1. PICK outcome \in Outcomes(KeysOf(w) \ routes_from_dds, create_forwarding_dds_reader) :
        DiscoveredPublication(w)!(outcome)
    BY DEF DiscoveredPublication
<1> DEFINE outcome_of(ke) == IF ke \in routes_from_dds THEN "created" ELSE outcome[ke]
           routed == {ke \in KeysOf(w) :
                        try_add_route_from_dds(ke, outcome_of(ke)) = "Routed"}
           created == routed \ routes_from_dds
<1>2. /\ routes_from_dds' = routes_from_dds \cup created
      /\ dds_reader' = [ke \in Key |-> IF ke \in created
                            THEN RouteDDSZenoh_new(TopicOf[w], adapt_writer_qos_for_reader(QosOf[w]),
                                                   outcome_of(ke))
                            ELSE dds_reader[ke]]
      /\ UNCHANGED to_vars
    BY <1>1
<1>3. routes_from_dds \subseteq Key /\ created \subseteq KeysOf(w) /\ created \subseteq Key
    BY KeysAreKeys DEF IInv, TypeOK, TablesTypeOK, Endpoint
<1>4. \A ke \in created : /\ ke \notin routes_from_dds /\ outcome_of(ke) = outcome[ke]
                          /\ outcome[ke] \in create_forwarding_dds_reader(ke)
    BY DEF Outcomes
<1>5. ASSUME NEW ke \in created
      PROVE  \/ dds_reader'[ke] = BadEntity /\ ke \in Periodic \cap MayFail
             \/ dds_reader'[ke] = reader_for(w)
    <2>1. dds_reader'[ke] = RouteDDSZenoh_new(TopicOf[w], adapt_writer_qos_for_reader(QosOf[w]),
                                              outcome_of(ke))
        BY <1>2, <1>3
    <2> HIDE DEF created, outcome_of
    <2>2. CASE outcome_of(ke) = "unchecked"
        BY <1>4, <2>1, <2>2 DEF RouteDDSZenoh_new, create_forwarding_dds_reader, get_read_period
    <2>3. CASE outcome_of(ke) # "unchecked"
        BY <2>1, <2>3 DEF RouteDDSZenoh_new, reader_for
    <2> QED
        BY <2>2, <2>3
<1>6. \A ke \in routes_from_dds : dds_reader'[ke] = dds_reader[ke]
    BY <1>2, <1>3
<1> HIDE DEF created, routed, outcome_of
<1>7. \A ke \in routes_from_dds' : ke \in created \/ ke \in routes_from_dds
    BY <1>2
<1> QED
    BY <1>2, <1>3, <1>5, <1>6, <1>7 DEF FirstsInv, to_vars

\* The routes of a reader that is discovered: old ones keep their DDS writer.
LEMMA FirstReaders ==
    ASSUME IInv, FirstsInv, NEW r \in Reader, DiscoveredSubscription(r)
    PROVE  FirstsInv'
<1>1. PICK outcome \in Outcomes(lacking_writer(KeysOf(r)), create_forwarding_dds_writer) :
        DiscoveredSubscription(r)!(outcome)
    BY DEF DiscoveredSubscription
<1> DEFINE lacking == lacking_writer(KeysOf(r))
           outcome_of(ke) == IF ke \in lacking THEN outcome[ke] ELSE "created"
           routed == {ke \in KeysOf(r) :
                        try_add_route_to_dds(ke, TRUE, outcome_of(ke)) = "Routed"}
           created == routed \ routes_to_dds
           writer_qos == adapt_reader_qos_for_writer(QosOf[r])
<1>2. /\ RouteZenohDDS_new(created, TopicOf[r], writer_qos)
      /\ dds_writer' = [ke \in Key |-> IF ke \in routed \cap lacking
                                       THEN set_dds_writer(ke, writer_qos)
                                       ELSE dds_writer[ke]]
      /\ UNCHANGED from_vars
    BY <1>1
<1>3. /\ routes_to_dds \subseteq Key /\ created \subseteq KeysOf(r) /\ created \subseteq Key
      /\ \A ke \in routes_to_dds : dds_writer[ke] # NoEntity
    BY KeysAreKeys DEF IInv, NoEndpointLeak, TypeOK, TablesTypeOK, Endpoint
<1>4. \A ke \in Key : ke \in routed \cap lacking <=> ke \in created
    BY <1>3 DEF lacking_writer
<1> HIDE DEF created, routed, lacking, outcome_of
<1>5. /\ routes_to_dds' = routes_to_dds \cup created
      /\ \A ke \in created : topic_name'[ke] = TopicOf[r]
    BY <1>2, <1>3 DEF RouteZenohDDS_new
<1>6. \A ke \in created : dds_writer'[ke] = writer_for(r)
    BY <1>2, <1>3, <1>4, <1>5 DEF set_dds_writer, writer_for
<1>7. \A ke \in routes_to_dds : ke \notin created => dds_writer'[ke] = dds_writer[ke]
    BY <1>2, <1>3, <1>4
<1> QED
    BY <1>2, <1>3, <1>5, <1>6, <1>7 DEF FirstsInv, from_vars

\* Endpoints that go leave the routes that stay as they are.
LEMMA FirstsStay ==
    ASSUME IInv, FirstsInv, NEW e, UndiscoveredPublication(e) \/ UndiscoveredSubscription(e)
    PROVE  FirstsInv'
<1>1. ASSUME UNCHANGED <<from_vars, to_vars>> PROVE FirstsInv'
    BY <1>1 DEF FirstsInv, from_vars, to_vars
<1>2. routes_from_dds \subseteq Key /\ routes_to_dds \subseteq Key
    BY DEF IInv, TypeOK, TablesTypeOK
<1>3. CASE UndiscoveredPublication(e) /\ e \in discovered_writers
    <2>1. /\ routes_from_dds' = routes_from_dds \ unused_routes_from_dds(e)
          /\ dds_reader' = without_routes(dds_reader, unused_routes_from_dds(e))
          /\ UNCHANGED to_vars
        BY <1>3 DEF UndiscoveredPublication
    <2>2. /\ \A ke \in routes_from_dds' : ke \in routes_from_dds /\ dds_reader'[ke] = dds_reader[ke]
          /\ UNCHANGED <<routes_to_dds, dds_writer>>
        BY <1>2, <2>1 DEF without_routes, to_vars
    <2> QED
        BY <2>2 DEF FirstsInv
<1>4. CASE UndiscoveredSubscription(e) /\ e \in discovered_readers
    <2>1. /\ routes_to_dds' = routes_to_dds \ unused_routes_to_dds(e)
          /\ dds_writer' = without_routes(dds_writer, unused_routes_to_dds(e))
          /\ UNCHANGED from_vars
        BY <1>4 DEF UndiscoveredSubscription, drop_to_dds
    <2>2. /\ \A ke \in routes_to_dds' : ke \in routes_to_dds /\ dds_writer'[ke] = dds_writer[ke]
          /\ UNCHANGED <<routes_from_dds, dds_reader>>
        BY <1>2, <2>1 DEF without_routes, from_vars
    <2> QED
        BY <2>2 DEF FirstsInv
<1> QED
    BY <1>1, <1>3, <1>4 DEF UndiscoveredPublication, UndiscoveredSubscription

\* If the endpoints that share a key are compatible and no creation fails unchecked,
\* "Routed" says that routing is active: DDS matches the endpoint with the bridge's
\* one, whichever endpoint the route was created for and whichever of them are left
\* (RouteStatus, adapt_writer_qos_for_reader, adapt_reader_qos_for_writer).
THEOREM RoutedIsActiveAlways ==
    ASSUME Compatible, Periodic \cap MayFail = {}
    PROVE  Spec => []RoutedIsActive
<1>1. Init => FirstsInv
    BY DEF Init, TablesInit, FirstsInv
<1>2. IInv /\ FirstsInv /\ [Next]_vars => FirstsInv'
    <2> SUFFICES ASSUME IInv, FirstsInv, [Next]_vars PROVE FirstsInv'
        OBVIOUS
    <2>1. ASSUME UNCHANGED <<from_vars, to_vars>> PROVE FirstsInv'
        BY <2>1 DEF FirstsInv, from_vars, to_vars
    <2>2. CASE (Domain \/ \E e \in Entity : on_data(e)) /\ UNCHANGED tables
        BY <2>1, <2>2 DEF tables
    <2>3. CASE HandlePublication
        BY <2>3, FirstWriters, FirstsStay DEF HandlePublication
    <2>4. CASE HandleSubscription
        BY <2>4, FirstReaders, FirstsStay DEF HandleSubscription
    <2>5. CASE HandleParticipant
        BY <2>1, <2>5 DEF HandleParticipant, DiscoveredParticipant, UndiscoveredParticipant
    <2>6. CASE UNCHANGED vars
        BY <2>1, <2>6 DEF vars
    <2> QED
        BY <2>2, <2>3, <2>4, <2>5, <2>6 DEF Next, HandleEvent
<1>3. IInv /\ FirstsInv => RoutedIsActive
    <2> SUFFICES ASSUME IInv, FirstsInv PROVE RoutedIsActive
        OBVIOUS
    <2>1. ASSUME NEW e \in Endpoint
          PROVE  TopicOf[e] \in Topic /\ QosOf[e] \in Qos
        BY EntitiesAssumption DEF EntitiesAssumption
    <2>2. ASSUME NEW e \in Endpoint, NEW p \in Slot, entity_routes[e][p] = "Routed"
          PROVE  p \in SlotsOf(e) /\ KeyFor(e, p) \in KeysOf(e) /\ KeyFor(e, p) \in Key
        <3>1. p \in SlotsOf(e)
            BY <2>2 DEF IInv, StatusAgrees
        <3> QED
            BY <3>1, KeysAreKeys
    <2>3. ASSUME NEW w \in Writer, NEW p \in Slot, entity_routes[w][p] = "Routed"
          PROVE  LET reader == dds_reader[KeyFor(w, p)] IN
                 /\ reader \in DdsEndpoint
                 /\ reader.topic = TopicOf[w]
                 /\ Matching(QosOf[w], reader.qos)
        <3> DEFINE ke == KeyFor(w, p)
        <3>1. ke \in KeysOf(w) /\ ke \in Key /\ p \in SlotsOf(w)
            BY <2>2, <2>3 DEF Endpoint
        <3>2. w \in local_routed_writers[ke]
            BY <2>3, <3>1 DEF IInv, StatusAgrees
        <3>3. ke \in routes_from_dds
            BY <3>1, <3>2 DEF IInv, RoutesAreUsed
        <3>4. PICK v \in Writer : ke \in KeysOf(v) /\ dds_reader[ke] = reader_for(v)
            BY <3>3 DEF FirstsInv
        <3>5. TopicOf[v] = TopicOf[w] /\ Matching(QosOf[w], adapt_writer_qos_for_reader(QosOf[v]))
            <4>1. CASE v = w
                BY <2>1, <4>1, AdaptedMatch DEF Endpoint
            <4>2. CASE v # w
                <5> HIDE DEF ke
                <5> QED
                    BY <3>1, <3>4, <4>2 DEF Compatible
            <4> QED
                BY <4>1, <4>2
        <3>6. dds_reader[ke] \in DdsEndpoint
            BY <2>1, <3>4, AdaptedQos DEF reader_for, DdsEndpoint, Endpoint
        <3> QED
            BY <3>4, <3>5, <3>6 DEF reader_for
    <2>4. ASSUME NEW r \in Reader, NEW p \in Slot, entity_routes[r][p] = "Routed"
          PROVE  LET writer == dds_writer[KeyFor(r, p)] IN
                 /\ writer \in DdsEndpoint
                 /\ writer.topic = TopicOf[r]
                 /\ Matching(writer.qos, QosOf[r])
        <3> DEFINE ke == KeyFor(r, p)
        <3>1. ke \in KeysOf(r) /\ ke \in Key /\ p \in SlotsOf(r)
            BY <2>2, <2>4 DEF Endpoint
        <3>2. r \in local_routed_readers[ke]
            BY <2>4, <3>1 DEF IInv, StatusAgrees
        <3>3. ke \in routes_to_dds
            BY <3>1, <3>2 DEF IInv, RoutesAreUsed
        <3>4. PICK q \in Reader : ke \in KeysOf(q) /\ dds_writer[ke] = writer_for(q)
            BY <3>3 DEF FirstsInv
        <3>5. TopicOf[q] = TopicOf[r] /\ Matching(writer_for(q).qos, QosOf[r])
            <4>1. CASE q = r
                BY <2>1, <4>1, AdaptedMatch DEF writer_for, Endpoint
            <4>2. CASE q # r
                <5> HIDE DEF ke
                <5> QED
                    BY <3>1, <3>4, <4>2 DEF writer_for, Compatible
            <4> QED
                BY <4>1, <4>2
        <3>6. dds_writer[ke] \in DdsEndpoint
            BY <2>1, <3>4, AdaptedQos DEF writer_for, DdsEndpoint, Endpoint
        <3> QED
            BY <3>4, <3>5, <3>6 DEF writer_for
    <2> QED
        BY <2>3, <2>4 DEF RoutedIsActive
<1> QED
    BY <1>1, <1>2, <1>3, Invariance, PTL DEF Spec
=============================================================================
