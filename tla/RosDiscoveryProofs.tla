-------------------------- MODULE RosDiscoveryProofs --------------------------
(***************************************************************************)
(* Proofs about RosDiscovery for all nodes, plugins, endpoints and names:  *)
(* the instances that TLC can check have one of each.                      *)
(***************************************************************************)
EXTENDS RosDiscovery, FwdServiceProofs

-----------------------------------------------------------------------------
(* The inductive invariant: what is announced, what is listed on the routes *)
(* and what is published each keep to the endpoints of a node.              *)

\* The infos of the ROS processes: each node with endpoints of its own.
NodeInfos ==
    {info \in Infos(SUBSET Remote) : \A n \in DOMAIN info : \A x \in info[n] : NodeOf[x] = n}

\* A route lists the endpoints that use its key.
ListedOnOwnKeys ==
    \A ke \in Key : \A x \in remote_routed_writers[ke] \cup remote_routed_readers[ke] :
        ke \in RemoteKeysOf(x)

Justified(info) ==
    /\ DOMAIN info \subseteq Node
    /\ \A n \in DOMAIN info : info[n] \in GidsOfNode(n)

RosInv ==
    /\ IInv
    /\ remote_infos \in [Plugin -> Seq(NodeInfos)]
    /\ ListedOnOwnKeys
    /\ Justified(participant_info)
    /\ hung \in BOOLEAN
    /\ hung => Periodic \cap MayFail # {}

-----------------------------------------------------------------------------
(* The operations on participant_info. *)

\* cleanup keeps what it does not remove.
LEMMA CleanupJustified ==
    ASSUME NEW info, Justified(info)
    PROVE  Justified(cleanup(info))
BY DEF Justified, cleanup

\* An update takes each node from the one or the other.
LEMMA UpdateJustified ==
    ASSUME NEW info, NEW nodes_entities, Justified(info), Justified(nodes_entities)
    PROVE  Justified(update_with(info, nodes_entities))
<1> DEFINE merged == [n \in DOMAIN info \cup DOMAIN nodes_entities |->
                        IF n \in DOMAIN nodes_entities THEN nodes_entities[n] ELSE info[n]]
<1>1. Justified(merged)
    BY DEF Justified
<1> QED
    BY <1>1, CleanupJustified DEF update_with

\* Removing gids leaves gids that were there.
LEMMA RemoveJustified ==
    ASSUME NEW info, NEW gids, Justified(info)
    PROVE  Justified(remove_gids(info, gids))
BY DEF Justified, remove_gids, GidsOfNode

\* The gid of a deleted endpoint is that of one on the same key.
LEMMA DeletedJustified ==
    ASSUME NEW info, Justified(info)
    PROVE  Justified(with_deleted(info, deleted_endpoints))
<1> DEFINE dead == deleted_endpoints
           kept(gids) == (gids \ dead) \cup {Deleted(gid) : gid \in gids \cap dead}
           mine(endpoints) == endpoints \cup {Deleted(gid) : gid \in endpoints}
           readers(n) == {OwnReader(ke) : ke \in KeysOfNode(n, RemoteReader)}
           writers(n) == {OwnWriter(ke) : ke \in KeysOfNode(n, RemoteWriter)}
<1>1. \A n, gid : gid \in readers(n) \cup writers(n) => Deleted(gid) \notin dead
    BY DEF deleted_endpoints, OwnEndpoint, OwnReaders, OwnWriters, OwnReader, OwnWriter, Deleted
<1>2. ASSUME NEW n, NEW gids \in SUBSET mine(readers(n))
      PROVE  kept(gids) \in SUBSET mine(readers(n))
    <2> HIDE DEF dead, readers, writers
    <2> QED
        BY <1>1, <1>2
<1>3. ASSUME NEW n, NEW gids \in SUBSET mine(writers(n))
      PROVE  kept(gids) \in SUBSET mine(writers(n))
    <2> HIDE DEF dead, readers, writers
    <2> QED
        BY <1>1, <1>3
<1>4. \A n : GidsOfNode(n) = [reader_gid_seq : SUBSET mine(readers(n)),
                              writer_gid_seq : SUBSET mine(writers(n))]
    BY DEF GidsOfNode
<1>5. with_deleted(info, dead) = [n \in DOMAIN info |->
                                    [reader_gid_seq |-> kept(info[n].reader_gid_seq),
                                     writer_gid_seq |-> kept(info[n].writer_gid_seq)]]
    BY DEF with_deleted
<1> HIDE DEF dead, kept, mine, readers, writers
<1>6. \A n \in DOMAIN info :
        [reader_gid_seq |-> kept(info[n].reader_gid_seq),
         writer_gid_seq |-> kept(info[n].writer_gid_seq)] \in GidsOfNode(n)
    BY <1>2, <1>3, <1>4 DEF Justified
<1>7. Justified(with_deleted(info, dead))
    BY <1>5, <1>6 DEF Justified
<1> QED
    BY <1>7 DEF dead

\* An info is one of those announced, with the nodes' own endpoints.
LEMMA InfoType ==
    ASSUME NEW info \in NodeInfos
    PROVE  /\ DOMAIN info \subseteq Node
           /\ \A n \in DOMAIN info : \A x \in info[n] : x \in Remote /\ NodeOf[x] = n
BY DEF NodeInfos, Infos

\* What an info becomes lists each node on keys of its own endpoints only.
LEMMA RemapJustified ==
    ASSUME NEW info \in NodeInfos, ListedOnOwnKeys,
           NEW route \in [Routed(info) -> Key],
           \A x \in Routed(info) : route[x] \in routes_listing(x)
    PROVE  Justified(remap_entities_info(info, route))
<1> DEFINE gids(entities) == {guid_of(x, route[x]) : x \in entities \cap DOMAIN route}
           readers(n) == {OwnReader(ke) : ke \in KeysOfNode(n, RemoteReader)}
           writers(n) == {OwnWriter(ke) : ke \in KeysOfNode(n, RemoteWriter)}
<1>1. \A x \in DOMAIN route : route[x] \in RemoteKeysOf(x)
    BY DEF routes_listing, ListedOnOwnKeys
<1>2. \A n \in DOMAIN info : \A x \in info[n] : NodeOf[x] = n
    BY InfoType
<1>3. ASSUME NEW n \in DOMAIN info
      PROVE  gids(info[n] \cap RemoteReader) \subseteq readers(n)
    <2>1. \A x \in info[n] \cap RemoteReader : guid_of(x, route[x]) = OwnReader(route[x])
        BY RemoteAssumption DEF RemoteAssumption, guid_of
    <2>2. \A x \in info[n] \cap RemoteReader \cap DOMAIN route :
            route[x] \in KeysOfNode(n, RemoteReader)
        BY <1>1, <1>2, <1>3 DEF KeysOfNode
    <2> QED
        BY <2>1, <2>2
<1>4. ASSUME NEW n \in DOMAIN info
      PROVE  gids(info[n] \cap RemoteWriter) \subseteq writers(n)
    <2>1. \A x \in info[n] \cap RemoteWriter : guid_of(x, route[x]) = OwnWriter(route[x])
        BY DEF guid_of
    <2>2. \A x \in info[n] \cap RemoteWriter \cap DOMAIN route :
            route[x] \in KeysOfNode(n, RemoteWriter)
        BY <1>1, <1>2, <1>4 DEF KeysOfNode
    <2> QED
        BY <2>1, <2>2
<1>5. remap_entities_info(info, route) =
        [n \in DOMAIN info |-> [reader_gid_seq |-> gids(info[n] \cap RemoteReader),
                                writer_gid_seq |-> gids(info[n] \cap RemoteWriter)]]
    BY DEF remap_entities_info
<1> HIDE DEF gids
<1>6. \A n \in DOMAIN info :
        [reader_gid_seq |-> gids(info[n] \cap RemoteReader),
         writer_gid_seq |-> gids(info[n] \cap RemoteWriter)] \in GidsOfNode(n)
    BY <1>3, <1>4 DEF GidsOfNode
<1> QED
    BY <1>5, <1>6, InfoType DEF Justified

\* The route that lists a remote endpoint has the DDS endpoint that stands for it,
\* unless it is one whose periodic creation was not checked.
LEMMA RemapTerminates ==
    ASSUME IInv, Periodic \cap MayFail = {}, NEW info,
           NEW route \in [Routed(info) -> Key],
           \A x \in Routed(info) : route[x] \in routes_listing(x)
    PROVE  RemapEnds(info, route)
<1> SUFFICES ASSUME NEW x \in DOMAIN route PROVE guid_of(x, route[x]) \in alive
    BY DEF RemapEnds
<1> DEFINE ke == route[x]
<1>1. ke \in Key /\ x \in remote_routed_writers[ke] \cup remote_routed_readers[ke]
    BY DEF routes_listing
<1>2. /\ remote_routed_writers[ke] \subseteq RemoteWriter
      /\ remote_routed_readers[ke] \subseteq RemoteReader
      /\ dds_reader[ke] \in DdsEndpoint \cup {NoEntity, BadEntity}
    BY <1>1 DEF IInv, TypeOK, TablesTypeOK
<1>3. CASE x \in RemoteWriter
    <2>1. x \in remote_routed_writers[ke]
        BY <1>1, <1>2, <1>3, RemoteAssumption DEF RemoteAssumption
    <2>2. OwnWriter(ke) \in alive
        BY <1>1, <2>1 DEF IInv, ToDdsInv
    <2> QED
        BY <1>3, <2>2 DEF guid_of
<1>4. CASE x \notin RemoteWriter
    <2>1. x \in remote_routed_readers[ke]
        BY <1>1, <1>2, <1>4
    <2>2. dds_reader[ke] # NoEntity /\ dds_reader[ke] # BadEntity
        BY <1>1, <2>1 DEF IInv, FromDdsInv
    <2>3. OwnReader(ke) \in alive
        BY <1>1, <1>2, <2>2 DEF IInv, FromDdsInv
    <2> QED
        BY <1>4, <2>3 DEF guid_of
<1> QED
    BY <1>3, <1>4

\* What a ROS process tells is such an info.
LEMMA InfoOfPlugin ==
    ASSUME TypeOK, NEW plugin \in Plugin
    PROVE  info_of(plugin) \in NodeInfos
<1> DEFINE entities == remote_alive \cap EntitiesOf(plugin)
           nodes == {NodeOf[x] : x \in entities}
<1>1. entities \subseteq Remote
    BY DEF TypeOK
<1>2. nodes \in SUBSET Node
    BY <1>1, RosAssumption DEF RosAssumption
<1>3. info_of(plugin) = [n \in nodes |-> {x \in entities : NodeOf[x] = n}]
    BY DEF info_of
<1>4. info_of(plugin) \in [nodes -> SUBSET Remote]
    BY <1>1, <1>3
<1>5. \A n \in DOMAIN info_of(plugin) : \A x \in info_of(plugin)[n] : NodeOf[x] = n
    BY <1>3
<1> HIDE DEF nodes
<1>6. info_of(plugin) \in Infos(SUBSET Remote)
    BY <1>2, <1>4 DEF Infos
<1> QED
    BY <1>5, <1>6 DEF NodeInfos

-----------------------------------------------------------------------------
(* The steps. *)

\* A step of the discovery is one of FwdDiscovery, or leaves it unchanged.
LEMMA RosStepIsStep ==
    ASSUME RosNext \/ UNCHANGED <<vars, ros_vars>>
    PROVE  [Next]_vars
BY DEF RosNext, RosEnvironment, RemoteRosInfo, RosListener, EventLoop, RosHandleEvent, RosHandleSample,
    RosHandleGroupEvent, HandleRosInfo, Next

\* The routes go on listing the endpoints that use their keys.
LEMMA ListingStep ==
    ASSUME RemoteStep, ListedOnOwnKeys
    PROVE  ListedOnOwnKeys'
BY DEF RemoteStep, ListedOnOwnKeys, remote_vars, add_remote_routed_writer, add_remote_routed_reader,
    remove_remote_routed_writers, remove_remote_routed_readers

\* The info at the head of a channel is one of those announced.
LEMMA ReceivedInfo ==
    ASSUME RosInv, NEW plugin \in Plugin, ReceiveRosInfo(plugin)
    PROVE  /\ Head(remote_infos[plugin]) \in NodeInfos
           /\ remote_infos' \in [Plugin -> Seq(NodeInfos)]
<1>1. /\ remote_infos \in [Plugin -> Seq(NodeInfos)]
      /\ remote_infos[plugin] \in Seq(NodeInfos) /\ remote_infos[plugin] # <<>>
    BY DEF RosInv, ReceiveRosInfo
<1>2. Head(remote_infos[plugin]) \in NodeInfos /\ Tail(remote_infos[plugin]) \in Seq(NodeInfos)
    BY <1>1
<1> QED
    BY <1>1, <1>2 DEF ReceiveRosInfo

\* An info sent leaves the channels well typed.
LEMMA SentInfo ==
    ASSUME RosInv, NEW plugin \in Plugin,
           remote_infos' = [remote_infos EXCEPT ![plugin] = Append(@, info_of(plugin))]
    PROVE  remote_infos' \in [Plugin -> Seq(NodeInfos)]
<1>1. /\ remote_infos \in [Plugin -> Seq(NodeInfos)]
      /\ info_of(plugin) \in NodeInfos
    BY InfoOfPlugin DEF RosInv, IInv
<1>2. Append(remote_infos[plugin], info_of(plugin)) \in Seq(NodeInfos)
    BY <1>1
<1> QED
    BY <1>1, <1>2

\* An info of a plugin is handled, and remap_entities_info ends unless a periodic
\* creation was not checked.
LEMMA HandleRosInfoStep ==
    ASSUME RosInv, NEW plugin \in Plugin, HandleRosInfo(plugin)
    PROVE  /\ remote_infos' \in [Plugin -> Seq(NodeInfos)]
           /\ Justified(participant_info')
           /\ hung' \in BOOLEAN /\ (hung' => Periodic \cap MayFail # {})
<1> DEFINE info == Head(remote_infos[plugin])
<1>1. info \in NodeInfos /\ remote_infos' \in [Plugin -> Seq(NodeInfos)]
    BY ReceivedInfo DEF HandleRosInfo
<1>2. PICK route \in [Routed(info) -> Key] :
            /\ \A x \in Routed(info) : route[x] \in routes_listing(x)
            /\ \/ /\ RemapEnds(info, route)
                  /\ publish(update_with(participant_info, remap_entities_info(info, route)))
                  /\ UNCHANGED hung
               \/ /\ ~ RemapEnds(info, route)
                  /\ hung' = TRUE
                  /\ UNCHANGED <<participant_info, published>>
    BY DEF HandleRosInfo
<1> HIDE DEF info
<1>3. Justified(participant_info')
    <2>1. Justified(remap_entities_info(info, route))
        BY <1>1, <1>2, RemapJustified DEF RosInv
    <2>2. Justified(update_with(participant_info, remap_entities_info(info, route)))
        BY <2>1, UpdateJustified DEF RosInv
    <2> QED
        BY <1>2, <2>2 DEF publish, RosInv
<1>4. ~ RemapEnds(info, route) => Periodic \cap MayFail # {}
    BY <1>2, RemapTerminates DEF RosInv
<1>5. hung' = hung \/ (hung' = TRUE /\ Periodic \cap MayFail # {})
    BY <1>2, <1>4
<1>6. hung' \in BOOLEAN /\ (hung' => Periodic \cap MayFail # {})
    <2>1. CASE hung' = hung
        BY <2>1 DEF RosInv
    <2>2. CASE hung' = TRUE /\ Periodic \cap MayFail # {}
        BY <2>2
    <2> QED
        BY <1>5, <2>1, <2>2
<1> QED
    BY <1>1, <1>3, <1>6

\* A group event is handled.
LEMMA RosGroupEventStep ==
    ASSUME RosInv, RosHandleGroupEvent
    PROVE  /\ remote_infos' \in [Plugin -> Seq(NodeInfos)]
           /\ Justified(participant_info')
           /\ hung' = hung
<1> DEFINE plugin == Head(group).plugin
<1>1. plugin \in Plugin
    BY GroupEventType DEF RosHandleGroupEvent, HandleGroupEvent, GroupEvent, RosInv, IInv
<1> HIDE DEF plugin
<1>2. hung' = hung /\ (RosPluginDetected(plugin) \/ RosPluginLeft(plugin))
    BY DEF RosHandleGroupEvent, plugin
<1>3. CASE RosPluginDetected(plugin)
    <2>1. UNCHANGED participant_info
        BY <1>3 DEF RosPluginDetected
    <2>2. remote_infos' \in [Plugin -> Seq(NodeInfos)]
        BY <1>1, <1>3, SentInfo DEF RosPluginDetected, RosInv
    <2> QED
        BY <1>2, <2>1, <2>2 DEF RosInv
<1>4. CASE RosPluginLeft(plugin)
    <2> DEFINE gids == gids_of_dropped_routes(plugin)
               remaining == with_deleted(remove_gids(participant_info, gids), deleted_endpoints)
    <2>1. Justified(remaining)
        BY RemoveJustified, DeletedJustified DEF RosInv
    <2>2. Justified(cleanup(remaining))
        BY <2>1, CleanupJustified
    <2>3. /\ participant_info' = remaining \/ participant_info' = cleanup(remaining)
          /\ UNCHANGED remote_infos
        BY <1>4 DEF RosPluginLeft, publish
    <2> QED
        BY <1>2, <2>1, <2>2, <2>3 DEF RosInv
<1> QED
    BY <1>2, <1>3, <1>4

\* The invariant is inductive.
LEMMA RosStepPreserves ==
    RosInv /\ [RosNext]_<<vars, ros_vars>> => RosInv'
<1> SUFFICES ASSUME RosInv, [RosNext]_<<vars, ros_vars>>
             PROVE  RosInv'
    OBVIOUS
<1>1. IInv' /\ ListedOnOwnKeys'
    BY RosStepIsStep, StepPreserves, ListingStep DEF RosInv, Promise
<1>2. ASSUME UNCHANGED ros_vars
      PROVE  /\ remote_infos' \in [Plugin -> Seq(NodeInfos)]
             /\ Justified(participant_info')
             /\ hung' \in BOOLEAN /\ (hung' => Periodic \cap MayFail # {})
    BY <1>2 DEF ros_vars, RosInv
<1>3. ASSUME GidsStay
      PROVE  /\ remote_infos' \in [Plugin -> Seq(NodeInfos)]
             /\ Justified(participant_info')
             /\ hung' \in BOOLEAN /\ (hung' => Periodic \cap MayFail # {})
    BY <1>3, DeletedJustified DEF GidsStay, RosInv
<1>4. ASSUME NEW plugin \in Plugin, RemoteRosInfo(plugin)
      PROVE  /\ remote_infos' \in [Plugin -> Seq(NodeInfos)]
             /\ Justified(participant_info')
             /\ hung' \in BOOLEAN /\ (hung' => Periodic \cap MayFail # {})
    <2>1. remote_infos' \in [Plugin -> Seq(NodeInfos)]
        BY <1>4, SentInfo DEF RemoteRosInfo
    <2> QED
        BY <1>4, <2>1 DEF RemoteRosInfo, RosInv
<1>5. /\ remote_infos' \in [Plugin -> Seq(NodeInfos)]
      /\ Justified(participant_info')
      /\ hung' \in BOOLEAN /\ (hung' => Periodic \cap MayFail # {})
    <2>1. CASE UNCHANGED ros_vars
        BY <1>2, <2>1
    <2>2. CASE GidsStay
        BY <1>3, <2>2
    <2>3. CASE \E plugin \in Plugin : RemoteRosInfo(plugin)
        BY <1>4, <2>3
    <2>4. CASE RosHandleGroupEvent
        BY <2>4, RosGroupEventStep DEF RosInv
    <2>5. CASE \E plugin \in Plugin : HandleRosInfo(plugin)
        BY <2>5, HandleRosInfoStep
    <2> QED
        BY <2>1, <2>2, <2>3, <2>4, <2>5 DEF RosNext, RosEnvironment, RosListener, EventLoop,
            RosHandleEvent, RosHandleSample
<1> QED
    BY <1>1, <1>5 DEF RosInv, Justified

\* Nothing is listed at first.
LEMMA RosInitInv == RosInit => RosInv
<1> SUFFICES ASSUME RosInit PROVE RosInv
    OBVIOUS
<1>1. IInv
    BY InitIInv DEF RosInit
<1>2. ListedOnOwnKeys
    BY DEF RosInit, Init, ListedOnOwnKeys
<1>3. <<>> \in Seq(NodeInfos)
    OBVIOUS
<1>4. DOMAIN <<>> = {}
    OBVIOUS
<1> QED
    BY <1>1, <1>2, <1>3, <1>4 DEF RosInit, RosInv, Justified, NoInfo

-----------------------------------------------------------------------------
(* The theorems. *)

\* Every behaviour keeps the inductive invariant.
THEOREM RosInvariance == RosSpec => []RosInv
BY RosInitInv, RosStepPreserves, PTL DEF RosSpec

\* With ros_discovery_info the discovery still behaves as FwdDiscovery says, so
\* that all that is proved of that holds here.
THEOREM RosRefinesDiscovery == RosSpec => Spec
<1>1. RosInit => Init
    BY DEF RosInit
<1>2. [RosNext]_<<vars, ros_vars>> => [Next]_vars
    BY RosStepIsStep
<1> QED
    BY <1>1, <1>2, PTL DEF RosSpec, Spec

\* Every variable of ros_discovery_info keeps its type.
THEOREM RosTypeCorrectness == RosSpec => []RosTypeOK
<1>1. RosInv => RosTypeOK
    <2> SUFFICES ASSUME RosInv PROVE RosTypeOK
        OBVIOUS
    <2>1. remote_infos \in [Plugin -> Seq(Infos(SUBSET Remote))]
        <3>1. NodeInfos \subseteq Infos(SUBSET Remote)
            BY DEF NodeInfos
        <3>2. \A s \in Seq(NodeInfos) : s \in Seq(Infos(SUBSET Remote))
            BY <3>1, SeqMonotonic
        <3> QED
            BY <3>2 DEF RosInv
    <2>2. \A n : GidsOfNode(n) \subseteq NodeEntitiesInfo
        <3>1. \A n : KeysOfNode(n, RemoteReader) \subseteq Key /\ KeysOfNode(n, RemoteWriter) \subseteq Key
            BY RemoteKeysAreKeys DEF KeysOfNode, Remote
        <3>2. ASSUME NEW n
              PROVE  /\ {OwnReader(ke) : ke \in KeysOfNode(n, RemoteReader)} \subseteq OwnEndpoint
                     /\ {OwnWriter(ke) : ke \in KeysOfNode(n, RemoteWriter)} \subseteq OwnEndpoint
            BY <3>1 DEF OwnEndpoint, OwnReaders, OwnWriters
        <3>3. \A endpoints \in SUBSET OwnEndpoint :
                endpoints \cup {Deleted(gid) : gid \in endpoints} \subseteq Gid
            BY DEF Gid
        <3>4. ASSUME NEW n
              PROVE  GidsOfNode(n) \subseteq NodeEntitiesInfo
            BY <3>2, <3>3, Zenon DEF GidsOfNode, NodeEntitiesInfo
        <3> QED
            BY <3>4
    <2> QED
        BY <2>1, <2>2 DEF RosInv, Justified, RosTypeOK
<1> QED
    BY <1>1, RosInvariance, PTL

\* A node is only ever listed with gids on keys of its own endpoints, whichever
\* nodes and plugins share a route.
THEOREM GidsJustifiedAlways == RosSpec => []GidsJustified
<1>1. RosInv => GidsJustified
    BY DEF RosInv, Justified, GidsJustified
<1> QED
    BY <1>1, RosInvariance, PTL

\* remap_entities_info always ends when no creation of a periodic reader fails: the
\* only route that lists a remote endpoint without a DDS endpoint is one whose
\* periodic creation was not checked.
THEOREM RemapAlwaysEnds ==
    ASSUME Periodic \cap MayFail = {}
    PROVE  RosSpec => []~ hung
<1>1. RosInv => ~ hung
    BY DEF RosInv
<1> QED
    BY <1>1, RosInvariance, PTL

-----------------------------------------------------------------------------
(* What a departure and an info leave in ros_discovery_info.                 *)

\* What the bridge wrote last is its participant_info.
PublishedInv == published = participant_info

\* The departure of a plugin removes the gids of the routes it drops, and is written
\* when there are any.
LEMMA LeftPublished ==
    ASSUME PublishedInv, NEW plugin, RosPluginLeft(plugin)
    PROVE  /\ PublishedInv'
           /\ LET gids == gids_of_dropped_routes(plugin)
                  remaining == with_deleted(remove_gids(published, gids), deleted_endpoints)
              IN  published' = remaining \/ published' = cleanup(remaining)
<1> DEFINE gids == gids_of_dropped_routes(plugin)
           remaining == with_deleted(remove_gids(participant_info, gids), deleted_endpoints)
<1>1. CASE gids # {}
    BY <1>1 DEF RosPluginLeft, publish, PublishedInv
<1>2. CASE gids = {}
    <2>1. participant_info' = remaining /\ published' = with_deleted(published, deleted_endpoints)
        BY <1>2 DEF RosPluginLeft
    <2> QED
        BY <1>2, <2>1 DEF PublishedInv, with_deleted, remove_gids
<1> QED
    BY <1>1, <1>2

\* Every step keeps the two equal.
LEMMA PublishedStep ==
    ASSUME PublishedInv, [RosNext]_<<vars, ros_vars>>
    PROVE  PublishedInv'
<1>1. CASE UNCHANGED ros_vars
    BY <1>1 DEF PublishedInv, ros_vars
<1>2. CASE GidsStay
    BY <1>2 DEF PublishedInv, GidsStay
<1>3. CASE \E plugin \in Plugin : RemoteRosInfo(plugin)
    BY <1>3 DEF PublishedInv, RemoteRosInfo
<1>4. CASE RosHandleGroupEvent
    <2>1. CASE \E plugin : RosPluginDetected(plugin)
        BY <2>1 DEF PublishedInv, RosPluginDetected
    <2>2. CASE \E plugin : RosPluginLeft(plugin)
        BY <2>2, LeftPublished
    <2> QED
        BY <1>4, <2>1, <2>2 DEF RosHandleGroupEvent
<1>5. CASE \E plugin \in Plugin : HandleRosInfo(plugin)
    BY <1>5 DEF PublishedInv, HandleRosInfo, publish
<1> QED
    BY <1>1, <1>2, <1>3, <1>4, <1>5 DEF RosNext, RosEnvironment, RosListener, EventLoop,
        RosHandleEvent, RosHandleSample

\* The endpoints that the departure of a plugin deletes are those whose gids it removes.
LEMMA DepartureTellsGids ==
    ASSUME IInv, NEW plugin, PluginLeft(plugin)
    PROVE  deleted_endpoints \subseteq gids_of_dropped_routes(plugin)
<1> DEFINE to_dds == routes_without_writer(EntitiesOf(plugin))
           from_dds == routes_without_reader(EntitiesOf(plugin))
<1>1. to_dds \subseteq Key /\ from_dds \subseteq Key
    BY DEF IInv, TypeOK, TablesTypeOK, routes_without_writer, routes_without_reader
<1>2. deleted_endpoints \subseteq RouteZenohDDS_drop(to_dds) \cup RouteDDSZenoh_drop(from_dds)
    BY DEF PluginLeft, EntitiesChange, deleted_endpoints
<1>3. gids_of_dropped_routes(plugin) =
        {OwnWriter(ke) : ke \in {k \in to_dds : dds_writer[k] # NoEntity}}
        \cup {OwnReader(ke) : ke \in {k \in from_dds : dds_reader[k] \in DdsEndpoint}}
    BY DEF gids_of_dropped_routes
<1> HIDE DEF to_dds, from_dds
<1>4. ASSUME NEW ke \in to_dds, OwnWriter(ke) \in alive PROVE dds_writer[ke] # NoEntity
    BY <1>1, <1>4 DEF IInv, ToDdsInv
<1>5. ASSUME NEW ke \in from_dds, OwnReader(ke) \in alive PROVE dds_reader[ke] \in DdsEndpoint
    BY <1>1, <1>5 DEF IInv, FromDdsInv
<1> QED
    BY <1>2, <1>3, <1>4, <1>5 DEF RouteZenohDDS_drop, RouteDDSZenoh_drop

\* Deleted endpoints that are not listed leave the gids as they are.
LEMMA NothingDeleted ==
    ASSUME NEW info, NEW gids, NEW dead, dead \subseteq gids
    PROVE  /\ AllListed(with_deleted(remove_gids(info, gids), dead)) \subseteq AllListed(info)
           /\ AllListed(cleanup(with_deleted(remove_gids(info, gids), dead)))
                \subseteq AllListed(info)
<1> DEFINE remaining == with_deleted(remove_gids(info, gids), dead)
<1>1. DOMAIN remaining = DOMAIN info
    BY DEF with_deleted, remove_gids
<1>2. ASSUME NEW n \in DOMAIN info
      PROVE  /\ remaining[n].reader_gid_seq \subseteq info[n].reader_gid_seq
             /\ remaining[n].writer_gid_seq \subseteq info[n].writer_gid_seq
    BY <1>2 DEF with_deleted, remove_gids
<1> HIDE DEF remaining
<1>3. \A n \in DOMAIN info : Listed(remaining, n) \subseteq Listed(info, n)
    BY <1>2 DEF Listed
<1>4. AllListed(remaining) \subseteq AllListed(info)
    BY <1>1, <1>3 DEF AllListed
<1>5. /\ DOMAIN cleanup(remaining) \subseteq DOMAIN info
      /\ \A n \in DOMAIN cleanup(remaining) : cleanup(remaining)[n] = remaining[n]
    BY <1>1 DEF cleanup
<1>6. \A n \in DOMAIN cleanup(remaining) : Listed(cleanup(remaining), n) \subseteq Listed(info, n)
    BY <1>3, <1>5 DEF Listed
<1>7. AllListed(cleanup(remaining)) \subseteq AllListed(info)
    BY <1>5, <1>6 DEF AllListed
<1> QED
    BY <1>4, <1>7 DEF remaining

\* A group event adds no gid to ros_discovery_info.
LEMMA GroupEventAddsNone ==
    ASSUME RosInv, PublishedInv, RosHandleGroupEvent
    PROVE  AllListed(published') \subseteq AllListed(published)
<1> DEFINE plugin == Head(group).plugin
<1>1. CASE ~ Head(group).put
    <2>1. PluginLeft(plugin) /\ RosPluginLeft(plugin)
        BY <1>1 DEF RosHandleGroupEvent, HandleGroupEvent
    <2> DEFINE gids == gids_of_dropped_routes(plugin)
               remaining == with_deleted(remove_gids(participant_info, gids), deleted_endpoints)
    <2>2. deleted_endpoints \subseteq gids
        BY <2>1, DepartureTellsGids DEF RosInv
    <2>3. published' = remaining \/ published' = cleanup(remaining)
        BY <2>1, LeftPublished DEF PublishedInv
    <2> QED
        BY <2>2, <2>3, NothingDeleted DEF PublishedInv
<1>2. CASE Head(group).put
    BY <1>2 DEF RosHandleGroupEvent, RosPluginDetected
<1> QED
    BY <1>1, <1>2

\* An info leaves only gids of endpoints that exist in the nodes it tells of.
LEMMA InfoListsExisting ==
    ASSUME RosInv, Periodic \cap MayFail = {}, NEW plugin \in Plugin, HandleRosInfo(plugin)
    PROVE  \A n \in DOMAIN Head(remote_infos[plugin]) \cap DOMAIN published' :
                Listed(published', n) \subseteq alive'
<1> DEFINE info == Head(remote_infos[plugin])
<1>1. PICK route \in [Routed(info) -> Key] :
            /\ \A x \in Routed(info) : route[x] \in routes_listing(x)
            /\ \/ /\ RemapEnds(info, route)
                  /\ publish(update_with(participant_info, remap_entities_info(info, route)))
                  /\ UNCHANGED hung
               \/ /\ ~ RemapEnds(info, route)
                  /\ hung' = TRUE
                  /\ UNCHANGED <<participant_info, published>>
    BY DEF HandleRosInfo
<1> HIDE DEF info
<1>2. RemapEnds(info, route)
    BY <1>1, RemapTerminates DEF RosInv
<1> DEFINE gids(entities) == {guid_of(x, route[x]) : x \in entities \cap DOMAIN route}
           remapped == remap_entities_info(info, route)
<1>3. published' = update_with(participant_info, remapped)
    BY <1>1, <1>2 DEF publish
<1>4. remapped = [n \in DOMAIN info |-> [reader_gid_seq |-> gids(info[n] \cap RemoteReader),
                                        writer_gid_seq |-> gids(info[n] \cap RemoteWriter)]]
    BY DEF remap_entities_info
<1>5. \A entities : gids(entities) \subseteq alive
    BY <1>2 DEF RemapEnds
<1> HIDE DEF gids, remapped
<1>6. \A n \in DOMAIN info : n \in DOMAIN remapped /\ Listed(remapped, n) \subseteq alive
    BY <1>4, <1>5 DEF Listed
<1>7. \A n \in DOMAIN remapped \cap DOMAIN published' : published'[n] = remapped[n]
    BY <1>3 DEF update_with, cleanup
<1>8. alive' = alive
    BY DEF HandleRosInfo, vars, disco_vars
<1> QED
    BY <1>6, <1>7, <1>8 DEF Listed, info

\* Only an info that is handled makes a channel of infos shorter.
LEMMA InfoReceived ==
    ASSUME RosInv, [RosNext]_<<vars, ros_vars>>, NEW plugin \in Plugin,
           Len(remote_infos'[plugin]) < Len(remote_infos[plugin])
    PROVE  HandleRosInfo(plugin)
<1>1. remote_infos \in [Plugin -> Seq(NodeInfos)] /\ Len(remote_infos[plugin]) \in Nat
    BY DEF RosInv
<1>2. remote_infos' # remote_infos
    BY <1>1
<1>3. ASSUME NEW q \in Plugin,
             remote_infos' = [remote_infos EXCEPT ![q] = Append(@, info_of(q))]
      PROVE  FALSE
    <2>1. Len(remote_infos'[plugin]) \in {Len(remote_infos[plugin]), Len(remote_infos[plugin]) + 1}
        BY <1>1, <1>3
    <2> QED
        BY <1>1, <2>1
<1>4. \/ \E q \in Plugin : RemoteRosInfo(q)
      \/ RosHandleGroupEvent
      \/ \E q \in Plugin : HandleRosInfo(q)
    BY <1>2 DEF RosNext, RosEnvironment, RosListener, EventLoop, RosHandleEvent, RosHandleSample,
        GidsStay, ros_vars
<1>5. ~ \E q \in Plugin : RemoteRosInfo(q)
    BY <1>3 DEF RemoteRosInfo
<1>6. ~ RosHandleGroupEvent
    <2> SUFFICES ASSUME RosHandleGroupEvent PROVE FALSE
        OBVIOUS
    <2>1. Head(group).plugin \in Plugin
        BY GroupEventType DEF RosHandleGroupEvent, HandleGroupEvent, GroupEvent, RosInv, IInv
    <2> QED
        BY <1>2, <1>3, <2>1 DEF RosHandleGroupEvent, RosPluginDetected, RosPluginLeft
<1>7. PICK q \in Plugin : HandleRosInfo(q)
    BY <1>4, <1>5, <1>6
<1>8. q = plugin
    BY <1>1, <1>7 DEF HandleRosInfo, ReceiveRosInfo
<1> QED
    BY <1>7, <1>8

\* A departure leaves no gid of an endpoint it deletes in ros_discovery_info, and an
\* info none of a deleted endpoint in its nodes, when no creation of a periodic
\* reader fails (remap_entities_info would not end).
THEOREM GidsRefreshedAlways ==
    ASSUME Periodic \cap MayFail = {}
    PROVE  RosSpec => GidsRefreshed
<1>1. RosInit => PublishedInv
    BY DEF RosInit, PublishedInv
<1>2. PublishedInv /\ [RosNext]_<<vars, ros_vars>> => PublishedInv'
    BY PublishedStep
<1>3. RosInv /\ PublishedInv /\ [RosNext]_<<vars, ros_vars>> => GidsFresh
    <2> SUFFICES ASSUME RosInv, PublishedInv, [RosNext]_<<vars, ros_vars>>
                 PROVE  GidsFresh
        OBVIOUS
    <2>1. ASSUME group' # group, plugins' = plugins PROVE RosHandleGroupEvent
        BY <2>1 DEF RosNext, RosEnvironment, Environment, PluginJoins, PluginLeaves, RemoteRosInfo,
            RemoteAppears, RemoteDisappears, Publish, RosListener, Listener, EventLoop,
            RosHandleEvent, HandleEvent, RosHandleSample, HandleSample, ReceiveSample,
            HandleRosInfo, vars, zenoh_vars
    <2>2. DepartureRefreshes
        BY <2>1, GroupEventAddsNone DEF DepartureRefreshes
    <2>3. \A plugin \in Plugin : InfoRefreshes(plugin)
        BY InfoReceived, InfoListsExisting DEF InfoRefreshes
    <2> QED
        BY <2>2, <2>3 DEF GidsFresh
<1> QED
    BY <1>1, <1>2, <1>3, RosInvariance, PTL DEF RosSpec, GidsRefreshed

\* With ros_discovery_info handled in the same loop (run_fwd_discovery_mode), forward mode
\* still serves exactly who is there once the discovery messages are handled.
THEOREM RosServesAlways == RosSpec => [](QuiescentServed /\ QuiescentProxies /\ StayingReleased)
BY RosRefinesDiscovery, QuiescentServedAlways, QuiescentProxiesAlways, StayingReleasedAlways, PTL
=============================================================================
