---------------------------- MODULE RosDiscovery ----------------------------
(***************************************************************************)
(* ros_discovery_info in "forward discovery" mode, next to the discovery   *)
(* of FwdDiscovery.                                                        *)
(*                                                                         *)
(* Each ROS process tells on the topic ros_discovery_info which of its DDS *)
(* endpoints belong to which of its nodes, by their gids, and its bridge   *)
(* forwards that (the poll of the topic is in RosInfoReader).  A bridge    *)
(* that receives it replaces the gid of a remote endpoint by that of its   *)
(* route's DDS reader or writer, merges the nodes into participant_info,   *)
(* and writes that in its own domain.                                      *)
(***************************************************************************)
EXTENDS FwdDiscovery

CONSTANTS
    Node,           \* the ROS nodes behind the other plugins, one process at each
    NodeOf,         \* [Remote -> Node]
    MaxInfos        \* bound: infos in each channel

RosAssumption ==
    /\ NodeOf \in [Remote -> Node]
    /\ MaxInfos \in Nat

ASSUME RosAssumption

VARIABLES
    remote_infos,       \* the infos of each plugin's ROS process not received yet
    participant_info,   \* node_entities_info_seq: per node its gids
    published,          \* what the bridge wrote last on ros_discovery_info
    hung                \* does remap_entities_info go on for ever?

ros_vars == <<remote_infos, participant_info, published, hung>>

\* An endpoint of the bridge that is deleted takes its gid with it: one created
\* later on the same key has another.
Deleted(gid) == <<"deleted", gid>>

Gid == OwnEndpoint \cup {Deleted(gid) : gid \in OwnEndpoint}

NodeEntitiesInfo == [reader_gid_seq : SUBSET Gid, writer_gid_seq : SUBSET Gid]

Infos(of) == UNION {[nodes -> of] : nodes \in SUBSET Node}

NoInfo == <<>>

RosInit ==
    /\ Init
    /\ remote_infos = [plugin \in Plugin |-> <<>>]
    /\ participant_info = NoInfo
    /\ published = NoInfo
    /\ hung = FALSE

-----------------------------------------------------------------------------
(* participant_info. *)

remove_gids(info, gids) ==
    [n \in DOMAIN info |-> [reader_gid_seq |-> info[n].reader_gid_seq \ gids,
                            writer_gid_seq |-> info[n].writer_gid_seq \ gids]]

cleanup(info) ==
    LET kept == {n \in DOMAIN info : /\ info[n].reader_gid_seq # {}
                                     /\ info[n].writer_gid_seq # {}}
    IN [n \in kept |-> info[n]]

\* The nodes of an info replace those of the same name, and no other.
update_with(info, nodes_entities) ==
    cleanup([n \in DOMAIN info \cup DOMAIN nodes_entities |->
                IF n \in DOMAIN nodes_entities THEN nodes_entities[n] ELSE info[n]])

\* The endpoints of routes that a step deletes.
deleted_endpoints == OwnEndpoint \cap (alive \ alive')

\* The gids of deleted endpoints stay listed, for nothing tells participant_info.
with_deleted(info, dead) ==
    LET kept(gids) == (gids \ dead) \cup {Deleted(gid) : gid \in gids \cap dead}
    IN [n \in DOMAIN info |-> [reader_gid_seq |-> kept(info[n].reader_gid_seq),
                               writer_gid_seq |-> kept(info[n].writer_gid_seq)]]

publish(info) == participant_info' = info /\ published' = info

-----------------------------------------------------------------------------
(* An info of another plugin arrives. *)

\* The routes that list x: is_routing_remote_writer and is_routing_remote_reader.
routes_listing(x) ==
    {ke \in Key : x \in remote_routed_writers[ke] \cup remote_routed_readers[ke]}

Announced(info) == UNION {info[n] : n \in DOMAIN info}

writer_guid_of(x, ke) == OwnWriter(ke)

\* The gid of the route's DDS endpoint.  A route without one has no gid, and
\* remap_entities_info then tries the same remote gid again, for ever.
guid_of(x, ke) == IF x \in RemoteWriter THEN OwnWriter(ke) ELSE OwnReader(ke)

unrouted_gids_kept(info, route) ==
    LET gids(entities) == {guid_of(x, route[x]) : x \in entities \cap DOMAIN route}
                            \cup (entities \ DOMAIN route)
    IN [n \in DOMAIN info |-> [reader_gid_seq |-> gids(info[n] \cap RemoteReader),
                               writer_gid_seq |-> gids(info[n] \cap RemoteWriter)]]

RemapEnds(info, route) == \A x \in DOMAIN route : guid_of(x, route[x]) \in alive

\* The gids of the routes, of any of them for an endpoint with several; the gid of
\* an endpoint without route is removed.
remap_entities_info(info, route) ==
    LET gids(entities) == {guid_of(x, route[x]) : x \in entities \cap DOMAIN route}
    IN [n \in DOMAIN info |-> [reader_gid_seq |-> gids(info[n] \cap RemoteReader),
                               writer_gid_seq |-> gids(info[n] \cap RemoteWriter)]]

Routed(info) == {x \in Announced(info) : routes_listing(x) # {}}

ReceiveRosInfo(plugin) ==
    /\ remote_infos[plugin] # <<>>
    /\ remote_infos' = [remote_infos EXCEPT ![plugin] = Tail(remote_infos[plugin])]

HandleRosInfo(plugin) ==
    /\ ReceiveRosInfo(plugin)
    /\ LET info == Head(remote_infos[plugin]) IN
       \E route \in [Routed(info) -> Key] :
            /\ \A x \in Routed(info) : route[x] \in routes_listing(x)
            /\ \/ /\ RemapEnds(info, route)
                  /\ publish(update_with(participant_info, remap_entities_info(info, route)))
                  /\ UNCHANGED hung
               \/ /\ ~ RemapEnds(info, route)
                  /\ hung' = TRUE
                  /\ UNCHANGED <<participant_info, published>>
    /\ UNCHANGED vars

-----------------------------------------------------------------------------
(* The other events of the loop. *)

\* What the ROS process of a plugin tells: its nodes, those with an endpoint, with
\* all their endpoints.
info_of(plugin) ==
    LET entities == remote_alive \cap EntitiesOf(plugin)
    IN [n \in {NodeOf[x] : x \in entities} |-> {x \in entities : NodeOf[x] = n}]

no_gids(plugin) == {}

\* The gids of the endpoints that the departure of a plugin deletes.
gids_of_dropped_routes(plugin) ==
    {OwnWriter(ke) : ke \in {k \in routes_without_writer(EntitiesOf(plugin)) :
                                dds_writer[k] # NoEntity}}
    \cup {OwnReader(ke) : ke \in {k \in routes_without_reader(EntitiesOf(plugin)) :
                                dds_reader[k] \in DdsEndpoint}}

RosPluginLeft(plugin) ==
    LET gids == gids_of_dropped_routes(plugin)
        remaining == with_deleted(remove_gids(participant_info, gids), deleted_endpoints)
    IN
    /\ \/ gids # {} /\ publish(cleanup(remaining))
       \/ /\ gids = {}
          /\ participant_info' = remaining
          /\ published' = with_deleted(published, deleted_endpoints)
    /\ UNCHANGED remote_infos

\* The query for past discovery samples brings the plugin's info as well.
RosPluginDetected(plugin) ==
    /\ remote_infos' = IF plugin \in plugins
                       THEN [remote_infos EXCEPT ![plugin] = Append(@, info_of(plugin))]
                       ELSE remote_infos
    /\ UNCHANGED <<participant_info, published>>

RosHandleGroupEvent ==
    /\ HandleGroupEvent
    /\ \/ Head(group).put /\ RosPluginDetected(Head(group).plugin)
       \/ ~ Head(group).put /\ RosPluginLeft(Head(group).plugin)
    /\ UNCHANGED hung

\* A sample or an event of the own domain may delete endpoints; participant_info is
\* not updated.
GidsStay ==
    /\ participant_info' = with_deleted(participant_info, deleted_endpoints)
    /\ published' = with_deleted(published, deleted_endpoints)
    /\ UNCHANGED <<remote_infos, hung>>

RosHandleEvent == HandleEvent /\ GidsStay

RosHandleSample(x) == HandleSample(x) /\ GidsStay

-----------------------------------------------------------------------------
(* The ROS processes behind the other plugins. *)

\* The process at another plugin tells its nodes and the plugin forwards that.
RemoteRosInfo(plugin) ==
    /\ plugin \in plugins /\ Len(remote_infos[plugin]) < MaxInfos
    /\ remote_infos' = [remote_infos EXCEPT ![plugin] = Append(@, info_of(plugin))]
    /\ UNCHANGED <<vars, participant_info, published, hung>>

RosEnvironment ==
    \/ /\ Environment
       /\ \A plugin \in plugins' \ plugins : Len(remote_infos[plugin]) < MaxInfos
       /\ UNCHANGED ros_vars
    \/ \E plugin \in Plugin : RemoteRosInfo(plugin)

RosListener(e) == Listener(e) /\ UNCHANGED ros_vars

EventLoop ==
    /\ ~ hung
    /\ \/ RosHandleEvent
       \/ \E x \in Remote : RosHandleSample(x)
       \/ RosHandleGroupEvent
       \/ \E plugin \in Plugin : HandleRosInfo(plugin)

RosNext == RosEnvironment \/ (\E e \in Entity : RosListener(e)) \/ EventLoop

RosSpec == RosInit /\ [][RosNext]_<<vars, ros_vars>>

\* select! picks among the ready channels at random, so a channel that stays ready
\* is received from.  Each handler can run whenever its channel is ready.
RosFairness ==
    /\ \A e \in Entity : WF_builtin(RosListener(e))
    /\ WF_disco(~ hung /\ Receive(Head(disco)))
    /\ \A x \in Remote : WF_fwd_disco(~ hung /\ \E kind \in {"put", "delete"} :
                                                        ReceiveSample(x, kind))
    /\ WF_group(~ hung /\ ReceiveGroupEvent)
    /\ \A plugin \in Plugin : WF_remote_infos(~ hung /\ ReceiveRosInfo(plugin))

RosFairSpec == RosSpec /\ RosFairness

-----------------------------------------------------------------------------
(* Type and safety. *)

\* Every variable has its type; only endpoints of the bridge are ever listed.
RosTypeOK ==
    /\ remote_infos \in [Plugin -> Seq(Infos(SUBSET Remote))]
    /\ DOMAIN participant_info \subseteq Node
    /\ \A n \in DOMAIN participant_info : participant_info[n] \in NodeEntitiesInfo
    /\ hung \in BOOLEAN

Listed(info, n) == info[n].reader_gid_seq \cup info[n].writer_gid_seq

\* The keys that an endpoint of node n uses, of those in entities.
KeysOfNode(n, entities) ==
    UNION {RemoteKeysOf(x) : x \in {e \in entities : NodeOf[e] = n}}

\* The gids that node n may be listed with.
GidsOfNode(n) ==
    LET gids(endpoints) == endpoints \cup {Deleted(gid) : gid \in endpoints} IN
    [reader_gid_seq : SUBSET gids({OwnReader(ke) : ke \in KeysOfNode(n, RemoteReader)}),
     writer_gid_seq : SUBSET gids({OwnWriter(ke) : ke \in KeysOfNode(n, RemoteWriter)})]

\* A node is listed only with the gids of DDS endpoints, of the right kind, on keys
\* that one of its own endpoints uses, whichever nodes and plugins share the routes.
GidsJustified == \A n \in DOMAIN participant_info : participant_info[n] \in GidsOfNode(n)

-----------------------------------------------------------------------------
(* What a step may never do, and what must happen. *)

AllListed(info) == UNION {Listed(info, n) : n \in DOMAIN info}

DepartureRefreshes ==
    group' # group /\ plugins' = plugins =>
        AllListed(published') \ AllListed(published) \subseteq alive'

InfoRefreshes(plugin) ==
    Len(remote_infos'[plugin]) < Len(remote_infos[plugin]) =>
        \A n \in DOMAIN Head(remote_infos[plugin]) \cap DOMAIN published' :
            Listed(published', n) \subseteq alive'

GidsFresh == DepartureRefreshes /\ \A plugin \in Plugin : InfoRefreshes(plugin)

\* A departure leaves no gid of an endpoint it deletes in ros_discovery_info, and
\* an info leaves none of a deleted endpoint in the nodes it tells of.
GidsRefreshed == [][GidsFresh]_<<vars, ros_vars>>

\* A node with an endpoint that is routed when its info arrives is listed: "remove
\* the empty NodeEntitiesInfo (no readers, no writers)" removes no other.
RoutedNodesListed ==
    [][\A plugin \in Plugin :
        Len(remote_infos'[plugin]) < Len(remote_infos[plugin]) =>
            LET info == Head(remote_infos[plugin]) IN
            \A n \in DOMAIN info :
                info[n] \cap Routed(info) # {} => n \in DOMAIN participant_info'
      ]_<<vars, ros_vars>>

\* Infos that arrive are handled, whatever else keeps the event loop busy:
\* remap_entities_info always ends, for a route that lists a remote endpoint has
\* the DDS endpoint whose gid replaces the remote one.
InfosHandled ==
    \A plugin \in Plugin : <>[](remote_infos[plugin] # <<>>) =>
        []<><<Len(remote_infos'[plugin]) < Len(remote_infos[plugin])>>_remote_infos
=============================================================================
