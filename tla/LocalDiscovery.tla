--------------------------- MODULE LocalDiscovery ---------------------------
(***************************************************************************)
(* The bridge in "local discovery" mode (run_local_discovery_mode).        *)
(*                                                                         *)
(* Each discovered DDS writer gets, per partition, a route from DDS and    *)
(* each discovered DDS reader a route to DDS, shared by the endpoints of   *)
(* one key expression.  When the last endpoint of a route is undiscovered, *)
(* the route is dropped.                                                   *)
(*                                                                         *)
(* The event loop is one task: a handler runs to its end before the next   *)
(* event is received.  While it awaits Zenoh, threads of DDS may append to *)
(* the channel, which commutes with everything the handler does, so a      *)
(* handler is one action.                                                  *)
(***************************************************************************)
EXTENDS RouteTables

vars == <<disco_vars, entity_vars, entity_routes, from_vars, to_vars, admin_space>>

Init == DiscoInit /\ TablesInit

-----------------------------------------------------------------------------
(* Publications: the routes from DDS. *)

DiscoveredPublication(w) ==
    \E outcome \in Outcomes(KeysOf(w) \ routes_from_dds, create_forwarding_dds_reader) :
        LET outcome_of(ke) == IF ke \in routes_from_dds THEN "created" ELSE outcome[ke]
            status(ke) == try_add_route_from_dds(ke, outcome_of(ke))
            routed == {ke \in KeysOf(w) : status(ke) = "Routed"}
            created == routed \ routes_from_dds
        IN
        /\ routes_from_dds' = routes_from_dds \cup created
        /\ dds_reader' = [ke \in Key |-> IF ke \in created
                                         THEN RouteDDSZenoh_new(TopicOf[w],
                                                adapt_writer_qos_for_reader(QosOf[w]),
                                                outcome_of(ke))
                                         ELSE dds_reader[ke]]
        /\ local_routed_writers' = add_local_routed_writer(w, routed)
        /\ entity_routes' = [entity_routes EXCEPT ![w] =
                [p \in Slot |-> IF p \in SlotsOf(w) THEN status(KeyFor(w, p))
                                ELSE "absent"]]
        /\ discovered_writers' = discovered_writers \cup {w}
        /\ admin_space' = admin_space \cup {<<"writer", w>>} \cup refs_from_dds(created)
        /\ EntitiesChange({OwnReader(ke) : ke \in {k \in created :
                                                    outcome_of(k) = "created"}}, {})
        /\ UNCHANGED <<discovered_participants, discovered_readers, to_vars>>

no_route_from_dds(w) == {}

\* The routes from DDS without a local writer once w is removed.
unused_routes_from_dds(w) ==
    {ke \in routes_from_dds : remove_local_routed_writer(w)[ke] = {}}

UndiscoveredPublication(w) ==
    \/ /\ w \in discovered_writers
       /\ LET gone == unused_routes_from_dds(w) IN
          /\ routes_from_dds' = routes_from_dds \ gone
          /\ dds_reader' = without_routes(dds_reader, gone)
          /\ local_routed_writers' = remove_local_routed_writer(w)
          /\ entity_routes' = [entity_routes EXCEPT ![w] = NoRoutes]
          /\ discovered_writers' = discovered_writers \ {w}
          /\ admin_space' = (admin_space \ {<<"writer", w>>})
                                \ refs_from_dds(gone)
          /\ EntitiesChange({}, RouteDDSZenoh_drop(gone))
          /\ UNCHANGED <<discovered_participants, discovered_readers, to_vars>>
    \/ /\ w \notin discovered_writers
       /\ UNCHANGED <<entity_vars, entity_routes, from_vars, to_vars, admin_space>>
       /\ UNCHANGED <<alive, builtin>>

-----------------------------------------------------------------------------
(* Subscriptions: the routes to DDS. *)

DiscoveredSubscription(r) ==
    \E outcome \in Outcomes(lacking_writer(KeysOf(r)), create_forwarding_dds_writer) :
        LET lacking == lacking_writer(KeysOf(r))
            writer_qos == adapt_reader_qos_for_writer(QosOf[r])
            outcome_of(ke) == IF ke \in lacking THEN outcome[ke] ELSE "created"
            status(ke) == try_add_route_to_dds(ke, TRUE, outcome_of(ke))
            routed == {ke \in KeysOf(r) : status(ke) = "Routed"}
            created == routed \ routes_to_dds
        IN
        /\ RouteZenohDDS_new(created, TopicOf[r], writer_qos)
        /\ dds_writer' = [ke \in Key |-> IF ke \in routed \cap lacking
                                         THEN set_dds_writer(ke, writer_qos)
                                         ELSE dds_writer[ke]]
        /\ local_routed_readers' = add_local_routed_reader(r, routed)
        /\ entity_routes' = [entity_routes EXCEPT ![r] =
                [p \in Slot |-> IF p \in SlotsOf(r) THEN status(KeyFor(r, p))
                                ELSE "absent"]]
        /\ discovered_readers' = discovered_readers \cup {r}
        /\ admin_space' = admin_space \cup {<<"reader", r>>} \cup refs_to_dds(created)
        /\ EntitiesChange({OwnWriter(ke) : ke \in routed \cap lacking}, {})
        /\ UNCHANGED <<discovered_participants, discovered_writers, from_vars>>

routes_to_dds_of(r) == {ke \in routes_to_dds : r \in local_routed_readers[ke]}

\* The routes to DDS without a local reader once r is removed.
unused_routes_to_dds(r) ==
    {ke \in routes_to_dds : remove_local_routed_reader(r)[ke] = {}}

UndiscoveredSubscription(r) ==
    \/ /\ r \in discovered_readers
       /\ LET gone == unused_routes_to_dds(r) IN
          /\ drop_to_dds(gone)
          /\ dds_writer' = without_routes(dds_writer, gone)
          /\ local_routed_readers' = remove_local_routed_reader(r)
          /\ entity_routes' = [entity_routes EXCEPT ![r] = NoRoutes]
          /\ discovered_readers' = discovered_readers \ {r}
          /\ admin_space' = (admin_space \ {<<"reader", r>>})
                                \ refs_to_dds(gone)
          /\ EntitiesChange({}, RouteZenohDDS_drop(gone))
          /\ UNCHANGED <<discovered_participants, discovered_writers, from_vars>>
    \/ /\ r \notin discovered_readers
       /\ UNCHANGED <<entity_vars, entity_routes, from_vars, to_vars, admin_space>>
       /\ UNCHANGED <<alive, builtin>>

-----------------------------------------------------------------------------
(* The event loop. *)

HandlePublication ==
    \/ \E w \in Writer : Receive(Discovered(w)) /\ DiscoveredPublication(w)
    \/ \E w \in Writer \cup OwnWriters :
            Receive(Undiscovered(w)) /\ UndiscoveredPublication(w)

HandleSubscription ==
    \/ \E r \in Reader : Receive(Discovered(r)) /\ DiscoveredSubscription(r)
    \/ \E r \in Reader \cup OwnReaders :
            Receive(Undiscovered(r)) /\ UndiscoveredSubscription(r)

HandleParticipant ==
    \/ \E p \in Participant : Receive(Discovered(p)) /\ DiscoveredParticipant(p)
    \/ \E p \in Participant : Receive(Undiscovered(p)) /\ UndiscoveredParticipant(p)

HandleEvent == HandlePublication \/ HandleSubscription \/ HandleParticipant

tables == <<entity_vars, entity_routes, from_vars, to_vars, admin_space>>

Domain == \E e \in Foreign : Appear(e) \/ Update(e) \/ Disappear(e)

Next ==
    \/ Domain /\ UNCHANGED tables
    \/ \E e \in Entity : on_data(e) /\ UNCHANGED tables
    \/ HandleEvent

Spec == Init /\ [][Next]_vars

\* DDS calls the listener again as long as a sample is not taken, and the event
\* loop receives again as long as the channel is not empty.  Nothing makes an
\* entity of the domain appear or disappear.
Fairness ==
    /\ \A e \in Entity : WF_vars(on_data(e) /\ UNCHANGED tables)
    /\ WF_vars(HandleEvent)

FairSpec == Spec /\ Fairness

-----------------------------------------------------------------------------
(* Type and safety. *)

\* Every variable of the domain, the channel and the tables has its type.
TypeOK == DiscoTypeOK /\ TablesTypeOK

\* A route exists exactly as long as it serves a local endpoint, however
\* discoveries, undiscoveries and failed creations follow each other.
RoutesAreUsed ==
    /\ routes_from_dds = {ke \in Key : local_routed_writers[ke] # {}}
    /\ routes_to_dds = {ke \in Key : local_routed_readers[ke] # {}}

\* What DdsEntity.routes tells of an endpoint agrees with the routes: "Routed"
\* exactly for the routes that list it, "NotAllowed" exactly for the keys the
\* configuration excludes, and no entry unless the endpoint is discovered.
StatusAgrees ==
    /\ \A w \in Writer, ke \in Key :
            w \in local_routed_writers[ke] <=>
                \E p \in SlotsOf(w) : KeyFor(w, p) = ke /\ entity_routes[w][p] = "Routed"
    /\ \A r \in Reader, ke \in Key :
            r \in local_routed_readers[ke] <=>
                \E p \in SlotsOf(r) : KeyFor(r, p) = ke /\ entity_routes[r][p] = "Routed"
    /\ \A e \in Endpoint, p \in Slot :
            LET known == e \in discovered_writers \cup discovered_readers IN
            /\ entity_routes[e][p] = "absent" <=> ~ (known /\ p \in SlotsOf(e))
            /\ entity_routes[e][p] = "NotAllowed"
                    <=> known /\ p \in SlotsOf(e) /\ ~ is_allowed(KeyFor(e, p))

\* The admin space refers to exactly the entities and routes the maps hold, so
\* an admin query never meets the "INTERNAL ERROR: Dangling" of treat_admin_query.
AdminSpaceExact ==
    admin_space =
        ({"participant"} \X discovered_participants)
        \cup ({"writer"} \X discovered_writers)
        \cup ({"reader"} \X discovered_readers)
        \cup ({"from_dds"} \X routes_from_dds)
        \cup ({"to_dds"} \X routes_to_dds)

\* The bridge's endpoints in the DDS domain are those of its routes: no dropped
\* route leaves a reader or writer behind, no route loses the one it holds.
NoEndpointLeak ==
    /\ \A ke \in Key : OwnReader(ke) \in alive
            <=> ke \in routes_from_dds /\ dds_reader[ke] # BadEntity
    /\ \A ke \in Key : OwnWriter(ke) \in alive <=> ke \in routes_to_dds
    /\ \A ke \in Key : dds_reader[ke] = NoEntity <=> ke \notin routes_from_dds
    /\ \A ke \in Key : dds_writer[ke] = NoEntity <=> ke \notin routes_to_dds

\* Once all samples are taken and all events handled, the bridge knows exactly
\* the entities that exist, whatever changes were overwritten, reordered or
\* queued on the way.
QuiescentMirror ==
    Quiet => discovered_participants \cup discovered_writers \cup discovered_readers
                = alive \cap Visible

\* The endpoints of one kind that exist and may be routed on ke,
Users(of, ke) == {e \in of \cap Visible \cap alive : ke \in KeysOf(e) /\ is_allowed(ke)}

\* and those that DdsEntity.routes says a route on ke could not be created for.
Failed(of, ke) ==
    {e \in of : \A p \in SlotsOf(e) :
                    KeyFor(e, p) = ke => entity_routes[e][p] = "CreationFailure"}

\* Once all samples are taken and all events handled, the routes are those the
\* endpoints that exist call for, with these endpoints and no others, and the bridge
\* has its own endpoints on these keys only, whatever came, went and came back.
QuiescentRoutes ==
    Quiet => \A ke \in Key :
        /\ local_routed_writers[ke] = Users(Writer, ke) \ Failed(Writer, ke)
        /\ local_routed_readers[ke] = Users(Reader, ke) \ Failed(Reader, ke)
        /\ OwnReader(ke) \in alive => Users(Writer, ke) # {}
        /\ OwnWriter(ke) \in alive => Users(Reader, ke) # {}

\* "Routed" says that routing is active (RouteStatus): DDS matches the endpoint
\* with the bridge's reader or writer of the route.
RoutedIsActive ==
    /\ \A w \in Writer, p \in Slot : entity_routes[w][p] = "Routed" =>
            LET reader == dds_reader[KeyFor(w, p)] IN
            /\ reader \in DdsEndpoint
            /\ reader.topic = TopicOf[w]
            /\ Matching(QosOf[w], reader.qos)
    /\ \A r \in Reader, p \in Slot : entity_routes[r][p] = "Routed" =>
            LET writer == dds_writer[KeyFor(r, p)] IN
            /\ writer \in DdsEndpoint
            /\ writer.topic = TopicOf[r]
            /\ Matching(writer.qos, QosOf[r])

-----------------------------------------------------------------------------
(* What a step may never do, and what must happen. *)

RoutesKept ==
    /\ \A ke \in routes_from_dds :
            local_routed_writers[ke] \cap discovered_writers' # {} =>
                ke \in routes_from_dds' /\ dds_reader'[ke] = dds_reader[ke]
    /\ \A ke \in routes_to_dds :
            local_routed_readers[ke] \cap discovered_readers' # {} =>
                ke \in routes_to_dds' /\ dds_writer'[ke] = dds_writer[ke]

\* A route is neither dropped nor given another DDS reader or writer by a step
\* that leaves one of its local endpoints discovered.
RouteNotInterrupted == [][RoutesKept]_vars

\* An endpoint that stays in the domain ends up discovered, and served by the
\* route of each of its keys that is allowed, unless creating it failed.
EventuallyServed ==
    /\ \A w \in Writer \cap Visible : <>[](w \in alive) =>
            <>[](\A p \in SlotsOf(w) :
                    \/ w \in local_routed_writers[KeyFor(w, p)]
                    \/ entity_routes[w][p] \in {"NotAllowed", "CreationFailure"})
    /\ \A r \in Reader \cap Visible : <>[](r \in alive) =>
            <>[](\A p \in SlotsOf(r) :
                    \/ r \in local_routed_readers[KeyFor(r, p)]
                    \/ entity_routes[r][p] \in {"NotAllowed", "CreationFailure"})

\* A key whose endpoints left the domain for good ends up without a route, and
\* without an endpoint of the bridge on it.
EventuallyReleased ==
    /\ \A ke \in Key :
        <>[](\A w \in Writer : w \in alive => ke \notin KeysOf(w)) =>
            <>[](ke \notin routes_from_dds /\ OwnReader(ke) \notin alive)
    /\ \A ke \in Key :
        <>[](\A r \in Reader : r \in alive => ke \notin KeysOf(r)) =>
            <>[](ke \notin routes_to_dds /\ OwnWriter(ke) \notin alive)

-----------------------------------------------------------------------------
(* The abstract specification each direction implements. *)

FromDds == INSTANCE RouteLedger WITH
    Client <- Writer, Group <- {{w} : w \in Writer},
    open <- routes_from_dds, serves <- local_routed_writers

ToDds == INSTANCE RouteLedger WITH
    Client <- Reader, Group <- {{r} : r \in Reader},
    open <- routes_to_dds, serves <- local_routed_readers

\* The routes of each direction implement the ledger of RouteLedger.
LedgerFromDds == FromDds!Spec
LedgerToDds == ToDds!Spec
=============================================================================
