----------------------------- MODULE RouteTables ----------------------------
(***************************************************************************)
(* The state of DdsPluginRuntime: the maps of discovered entities, the     *)
(* maps of routes in both directions and the admin space, with the         *)
(* operations both discovery modes share.                                  *)
(*                                                                         *)
(* A route from DDS (RouteDDSZenoh) holds a DDS reader and publishes on    *)
(* its key expression what it reads; a route to DDS (RouteZenohDDS) holds  *)
(* a Zenoh subscriber on its key expression and writes what it receives    *)
(* with a DDS writer.  Creating a route creates entities of DDS and Zenoh, *)
(* which may fail; dropping it deletes them.                               *)
(***************************************************************************)
EXTENDS DdsDiscovery

CONSTANTS
    MayFail,    \* bound: keys whose route's DDS or Zenoh entities may fail to be created
    NoEntity,   \* DDS_ENTITY_NULL
    BadEntity   \* a negative handle, returned by a failed creation

RoutesAssumption ==
    /\ NoEntity \notin [topic : Topic, qos : Qos]
    /\ BadEntity \notin [topic : Topic, qos : Qos]
    /\ NoEntity # BadEntity

ASSUME RoutesAssumption

VARIABLES
    discovered_participants, discovered_writers, discovered_readers,
    entity_routes,          \* DdsEntity.routes, of discovered endpoints
    routes_from_dds,        \* the keys of the map of routes from DDS, and
    dds_reader,             \*   per key the fields of its RouteDDSZenoh
    local_routed_writers,
    routes_to_dds,          \* the keys of the map of routes to DDS, and
    topic_name,             \*   per key the fields of its RouteZenohDDS
    dds_writer,
    querying,
    local_routed_readers,
    admin_space             \* the references of the admin space

entity_vars == <<discovered_participants, discovered_writers, discovered_readers>>
from_vars == <<routes_from_dds, dds_reader, local_routed_writers>>
to_vars == <<routes_to_dds, topic_name, dds_writer, querying, local_routed_readers>>

\* An endpoint of the bridge: its topic and QoS.  Its partition is the one
\* that the key of its route adds to the topic.
DdsEndpoint == [topic : Topic, qos : Qos]

\* "absent" is a partition without an entry in DdsEntity.routes.
RouteStatus == {"absent", "Routed", "NotAllowed", "CreationFailure"}

AdminRef == ({"participant"} \X Participant)
    \cup ({"writer"} \X Writer) \cup ({"reader"} \X Reader)
    \cup ({"from_dds", "to_dds"} \X Key)

TablesTypeOK ==
    /\ discovered_participants \in SUBSET Participant
    /\ discovered_writers \in SUBSET Writer
    /\ discovered_readers \in SUBSET Reader
    /\ entity_routes \in [Endpoint -> [Slot -> RouteStatus]]
    /\ routes_from_dds \in SUBSET Key
    /\ dds_reader \in [Key -> DdsEndpoint \cup {NoEntity, BadEntity}]
    /\ local_routed_writers \in [Key -> SUBSET Writer]
    /\ routes_to_dds \in SUBSET Key
    /\ topic_name \in [Key -> Topic \cup {NoEntity}]
    /\ dds_writer \in [Key -> DdsEndpoint \cup {NoEntity}]
    /\ querying \in SUBSET Key
    /\ local_routed_readers \in [Key -> SUBSET Reader]
    /\ admin_space \in SUBSET AdminRef

NoRoutes == [p \in Slot |-> "absent"]

TablesInit ==
    /\ discovered_participants = {}
    /\ discovered_writers = {}
    /\ discovered_readers = {}
    /\ entity_routes = [e \in Endpoint |-> NoRoutes]
    /\ routes_from_dds = {}
    /\ dds_reader = [ke \in Key |-> NoEntity]
    /\ local_routed_writers = [ke \in Key |-> {}]
    /\ routes_to_dds = {}
    /\ topic_name = [ke \in Key |-> NoEntity]
    /\ dds_writer = [ke \in Key |-> NoEntity]
    /\ querying = {}
    /\ local_routed_readers = [ke \in Key |-> {}]
    /\ admin_space = {}

-----------------------------------------------------------------------------
(* Creating the entities of a route. *)

KeysOf(e) == {KeyFor(e, p) : p \in SlotsOf(e)}

\* What creating the entities of a route from DDS gives.  In the branch for periodic
\* reads the result of dds_create_reader is not checked.
create_forwarding_dds_reader(ke) ==
    {"created"}
    \cup (IF ke \in MayFail THEN {"error"} ELSE {})
    \cup (IF ke \in MayFail /\ get_read_period(ke) THEN {"unchecked"} ELSE {})

\* What creating those of a route to DDS, or only its DDS writer, gives.
create_forwarding_dds_writer(ke) ==
    {"created"} \cup (IF ke \in MayFail THEN {"error"} ELSE {})

\* The keys for which a DDS writer must be created: those without a route to DDS
\* and, in "forward discovery" mode, those with a route for local readers (#102).
lacking_writer(keys) ==
    {ke \in keys : ke \notin routes_to_dds \/ dds_writer[ke] = NoEntity}

\* The outcome of each creation that a handler attempts.
Outcomes(keys, of(_)) ==
    {outcome \in [keys -> {"created", "error", "unchecked"}] :
        \A ke \in keys : outcome[ke] \in of(ke)}

\* The DDS reader of a new route from DDS.
RouteDDSZenoh_new(topic, reader_qos, outcome) ==
    IF outcome = "unchecked" THEN BadEntity
    ELSE [topic |-> topic, qos |-> reader_qos]

\* New routes to DDS for an endpoint, still without DDS writer.  One for a
\* TRANSIENT_LOCAL endpoint queries the past publications of the other bridges.
RouteZenohDDS_new(created, topic, qos) ==
    /\ routes_to_dds' = routes_to_dds \cup created
    /\ topic_name' = [ke \in Key |-> IF ke \in created THEN topic ELSE topic_name[ke]]
    /\ querying' = querying \cup {ke \in created : is_transient_local(qos)}

volatile_dds_writer(ke, writer_qos) ==
    [topic |-> topic_name'[ke], qos |-> [durability |-> "VOLATILE", reliability |-> "unset"]]

\* The DDS writer given to the route of ke: on the route's topic, whichever
\* endpoint it is created for.
set_dds_writer(ke, writer_qos) ==
    [topic |-> topic_name'[ke], qos |-> forwarding_writer_qos(writer_qos)]

unfiltered_from_dds(ke, outcome) ==
    IF ke \in routes_from_dds \/ outcome # "error"
    THEN "Routed" ELSE "CreationFailure"

\* The status of the route; it is created if it is "Routed" and not there yet.
try_add_route_from_dds(ke, outcome) ==
    IF ~ is_allowed(ke) THEN "NotAllowed"
    ELSE IF ke \in routes_from_dds \/ outcome # "error"
    THEN "Routed" ELSE "CreationFailure"

\* A route to DDS is created when there is none; with_writer says if the caller
\* gives the QoS of a DDS writer, created when the route has none (#102).
try_add_route_to_dds(ke, with_writer, outcome) ==
    IF ~ is_allowed(ke) THEN "NotAllowed"
    ELSE IF /\ outcome = "error"
            /\ ke \notin routes_to_dds \/ (with_writer /\ dds_writer[ke] = NoEntity)
    THEN "CreationFailure" ELSE "Routed"

-----------------------------------------------------------------------------
(* Updating the fields of the routes. *)

set_local_routed_writer(w, keys) ==
    [ke \in Key |-> IF ke \in keys THEN {w} ELSE local_routed_writers[ke]]

add_local_routed_writer(w, keys) ==
    [ke \in Key |-> IF ke \in keys THEN local_routed_writers[ke] \cup {w}
                    ELSE local_routed_writers[ke]]

kept_local_routed_writer(w) == local_routed_writers

remove_local_routed_writer(w) == [ke \in Key |-> local_routed_writers[ke] \ {w}]

set_local_routed_reader(r, keys) ==
    [ke \in Key |-> IF ke \in keys THEN {r} ELSE local_routed_readers[ke]]

add_local_routed_reader(r, keys) ==
    [ke \in Key |-> IF ke \in keys THEN local_routed_readers[ke] \cup {r}
                    ELSE local_routed_readers[ke]]

remove_local_routed_reader(r) == [ke \in Key |-> local_routed_readers[ke] \ {r}]

-----------------------------------------------------------------------------
(* Dropping routes: the entities of DDS they delete, the references of the   *)
(* admin space they remove.                                                  *)

leaking_drop(gone) == {}

\* Dropping a RouteDDSZenoh deletes its DDS reader,
RouteDDSZenoh_drop(gone) == {OwnReader(ke) : ke \in gone} \cap alive

\* dropping a RouteZenohDDS its DDS writer.
RouteZenohDDS_drop(gone) == {OwnWriter(ke) : ke \in gone} \cap alive

without_routes(entity, gone) ==
    [ke \in Key |-> IF ke \in gone THEN NoEntity ELSE entity[ke]]

\* The fields of dropped routes to DDS but its set of local readers, which is
\* empty except when the plugin of the last remote writer left.
drop_to_dds(gone) ==
    /\ routes_to_dds' = routes_to_dds \ gone
    /\ topic_name' = without_routes(topic_name, gone)
    /\ querying' = querying \ gone

stale_refs(keys) == {}

refs_from_dds(keys) == {<<"from_dds", ke>> : ke \in keys}

refs_to_dds(keys) == {<<"to_dds", ke>> : ke \in keys}

-----------------------------------------------------------------------------
(* The events without effect on the routes, handled alike in both modes. *)

DiscoveredParticipant(p) ==
    /\ discovered_participants' = discovered_participants \cup {p}
    /\ admin_space' = admin_space \cup {<<"participant", p>>}
    /\ UNCHANGED <<discovered_writers, discovered_readers, entity_routes>>
    /\ UNCHANGED <<from_vars, to_vars, alive, builtin>>

UndiscoveredParticipant(p) ==
    /\ discovered_participants' = discovered_participants \ {p}
    /\ admin_space' = admin_space \ {<<"participant", p>>}
    /\ UNCHANGED <<discovered_writers, discovered_readers, entity_routes>>
    /\ UNCHANGED <<from_vars, to_vars, alive, builtin>>
=============================================================================
