---------------------------- MODULE DataPathsProofs ----------------------------
(***************************************************************************)
(* Proofs about DataPaths for any number of handles, samples, routes and   *)
(* creations.                                                              *)
(***************************************************************************)
EXTENDS DataPaths, TLAPS

-----------------------------------------------------------------------------
(* The inductive invariant. *)

\* Instance handles are given in order, each once.
HandlesInv ==
    /\ HandlesTypeOK
    /\ \A g, h \in Handle : entity[g] = entity[h] => g = h \/ entity[g] = 0
    /\ \A h \in Handle : entity[h] <= created

\* While a DDS writer is deleted, or a route dropped, its route has none.
RoutesInv ==
    /\ ToDdsTypeOK
    /\ subscribed => routes \in Route
    /\ \A r \in Route : r > routes => dds_writer[r] = DDS_ENTITY_NULL
    /\ ~ Idle => subscribed /\ dds_writer[routes] = DDS_ENTITY_NULL

SamplesInv ==
    /\ \A s \in Sample : state[s] \in {"coming", "waiting"} => polls[s] < MaxPolls
    /\ \A s \in Sample : state[s] # "coming" => route_of[s] \in Route

\* A task that is one period late finds no reader when it checks next.
TasksInv ==
    /\ FromDdsTypeOK
    /\ \A i \in Instance :
        /\ task[i] # "none" => i <= created
        /\ task[i] \notin {"none", "ended"} => handle[i] \in Handle
        /\ task[i] \in {"none", "spawned"} => late[i] = 0
        /\ original[i] = i => late[i] <= 1
        /\ original[i] = i /\ late[i] = 1 =>
                task[i] \in {"taking", "checking"} /\ ~ Exists(i)

DataInv == HandlesInv /\ RoutesInv /\ SamplesInv /\ TasksInv /\ EntitiesHeld

\* The constants as the proofs use them.
LEMMA Constants ==
    /\ DDS_ENTITY_NULL \notin Handle
    /\ MaxCreations \in Nat /\ MaxRoutes \in Nat /\ MaxPolls \in Nat /\ MaxPolls > 0
BY HandlesAssumption, ToDdsAssumption DEF HandlesAssumption, ToDdsAssumption

\* Nothing exists at first.
LEMMA DataInitInv == DataInit => DataInv
<1> SUFFICES ASSUME DataInit PROVE DataInv
    OBVIOUS
<1> USE DEF DataInit, HandlesInit, ToDdsInit, FromDdsInit
<1>1. HandlesInv
    BY Constants DEF HandlesInv, HandlesTypeOK, Instance
<1>2. RoutesInv
    <2>1. ToDdsTypeOK
        <3>1. polls \in [Sample -> 0..MaxPolls]
            BY Constants
        <3>2. subscribed \in BOOLEAN /\ dropping \in BOOLEAN
            OBVIOUS
        <3> QED
            BY <3>1, <3>2 DEF ToDdsTypeOK, SampleState, AnyHandle
    <2> QED
        BY <2>1 DEF RoutesInv, Idle
<1>3. SamplesInv
    BY Constants DEF SamplesInv
<1>4. TasksInv
    <2>1. FromDdsTypeOK
        BY DEF FromDdsTypeOK, TaskState
    <2>2. \A i \in Instance : i # 0
        BY Constants DEF Instance
    <2> QED
        BY <2>1, <2>2 DEF TasksInv
<1>5. EntitiesHeld
    BY Constants DEF EntitiesHeld
<1> QED
    BY <1>1, <1>2, <1>3, <1>4, <1>5 DEF DataInv

-----------------------------------------------------------------------------
(* Creating and deleting entities. *)

\* A new entity is the only one that comes into existence, with an instance handle
\* that none had before.
LEMMA Creation ==
    ASSUME HandlesInv, NEW h \in Handle, NEW what \in {"reader", "writer"}, dds_create(h, what)
    PROVE  /\ HandlesInv'
           /\ NextInstance \in Instance
           /\ \A g \in Handle \ {h} : entity'[g] = entity[g]
           /\ \A g \in Handle \ {h} : entity[g] # 0 => kind'[entity'[g]] = kind[entity[g]]
           /\ entity[h] = 0 /\ entity'[h] # 0 /\ kind'[entity'[h]] = what
           /\ \A i \in Instance : i <= created => (Exists(i)' <=> Exists(i))
           /\ created' = created + 1
<1>1. NextInstance \in Instance /\ created \in Nat /\ created < MaxCreations
    BY Constants DEF HandlesInv, HandlesTypeOK, dds_create, NextInstance, Instance
<1>2. /\ entity' = [entity EXCEPT ![h] = created + 1]
      /\ kind' = [kind EXCEPT ![created + 1] = what]
      /\ created' = created + 1
      /\ entity[h] = 0
    BY DEF dds_create, NextInstance
<1>3. /\ entity \in [Handle -> {0} \cup Instance]
      /\ kind \in [Instance -> {"none", "reader", "writer"}]
      /\ \A g \in Handle : entity[g] <= created
    BY DEF HandlesInv, HandlesTypeOK
<1>4. HandlesInv'
    <2>1. HandlesTypeOK'
        BY <1>1, <1>2, <1>3 DEF HandlesTypeOK, NextInstance
    <2>2. \A g \in Handle : entity'[g] <= created'
        BY <1>1, <1>2, <1>3 DEF Instance
    <2>3. \A f, g \in Handle : entity'[f] = entity'[g] => f = g \/ entity'[f] = 0
        BY <1>1, <1>2, <1>3 DEF HandlesInv, Instance
    <2> QED
        BY <2>1, <2>2, <2>3 DEF HandlesInv
<1>5. \A g \in Handle \ {h} : entity[g] # 0 => kind'[entity'[g]] = kind[entity[g]]
    BY <1>1, <1>2, <1>3 DEF Instance
<1>6. entity'[h] = created + 1 /\ kind'[created + 1] = what /\ created + 1 # 0
    BY <1>1, <1>2, <1>3 DEF NextInstance
<1>7. \A i \in Instance : i <= created => (Exists(i)' <=> Exists(i))
    BY <1>1, <1>2, <1>3 DEF Exists, Instance
<1> QED
    BY <1>1, <1>2, <1>3, <1>4, <1>5, <1>6, <1>7

\* A deleted entity does not come back.
LEMMA Deletion ==
    ASSUME HandlesInv, NEW h \in Handle, dds_delete(h)
    PROVE  /\ HandlesInv'
           /\ \A g \in Handle \ {h} : entity'[g] = entity[g]
           /\ entity'[h] = 0 /\ kind' = kind /\ created' = created
           /\ \A i \in Instance : Exists(i)' => Exists(i)
<1>1. entity' = [entity EXCEPT ![h] = 0] /\ kind' = kind /\ created' = created
    BY DEF dds_delete
<1>2. entity \in [Handle -> {0} \cup Instance] /\ created \in Nat
    BY Constants DEF HandlesInv, HandlesTypeOK, Instance
<1>3. HandlesInv'
    BY <1>1, <1>2 DEF HandlesInv, HandlesTypeOK
<1>4. \A i \in Instance : Exists(i)' => Exists(i)
    BY <1>1, <1>2 DEF Exists, Instance
<1> QED
    BY <1>1, <1>2, <1>3, <1>4

-----------------------------------------------------------------------------
(* What a step leaves alone. *)

\* The samples do not matter to the rest,
LEMMA SamplesMove ==
    ASSUME DataInv, UNCHANGED <<handle_vars, route_vars, from_dds_vars>>,
           state' \in [Sample -> SampleState],
           route_of' \in [Sample -> {0} \cup Route],
           polls' \in [Sample -> 0..MaxPolls],
           loaded' \in [Sample -> AnyHandle],
           writer_loaded' \in [Sample -> {0} \cup Instance],
           SamplesInv'
    PROVE  DataInv'
<1>1. /\ UNCHANGED <<entity, kind, created>>
      /\ UNCHANGED <<routes, subscribed, dds_writer, dropping, deleting>>
      /\ UNCHANGED <<dds_reader, task, handle, original, unread, forwarded, late>>
    BY DEF handle_vars, route_vars, from_dds_vars
<1>2. HandlesInv'
    BY <1>1 DEF DataInv, HandlesInv, HandlesTypeOK
<1>3. RoutesInv'
    BY <1>1 DEF DataInv, RoutesInv, ToDdsTypeOK, Idle
<1>4. TasksInv'
    BY <1>1 DEF DataInv, TasksInv, FromDdsTypeOK, Exists
<1>5. EntitiesHeld'
    BY <1>1 DEF DataInv, EntitiesHeld
<1> QED
    BY <1>2, <1>3, <1>4, <1>5 DEF DataInv

\* nor do the tasks of the routes from DDS.
LEMMA TasksMove ==
    ASSUME DataInv, UNCHANGED <<handle_vars, to_dds_vars, dds_reader>>, TasksInv'
    PROVE  DataInv'
<1>1. /\ UNCHANGED <<entity, kind, created>>
      /\ UNCHANGED <<routes, subscribed, dds_writer, dropping, deleting>>
      /\ UNCHANGED <<state, route_of, polls, loaded, writer_loaded>>
    BY DEF handle_vars, to_dds_vars, route_vars, samples_vars
<1>2. HandlesInv'
    BY <1>1 DEF DataInv, HandlesInv, HandlesTypeOK
<1>3. RoutesInv'
    BY <1>1 DEF DataInv, RoutesInv, ToDdsTypeOK, Idle
<1>4. SamplesInv'
    BY <1>1 DEF DataInv, SamplesInv
<1>5. EntitiesHeld'
    BY <1>1 DEF DataInv, EntitiesHeld
<1> QED
    BY <1>2, <1>3, <1>4, <1>5 DEF DataInv

-----------------------------------------------------------------------------
(* The callback and the tasks of the samples. *)

\* Loading a handle leaves the sample writing, or as the caller says.
LEMMA Load ==
    ASSUME DataInv, NEW s \in Sample, NEW r \in Route, NEW otherwise \in SampleState,
           load(s, r, otherwise)
    PROVE  /\ state' \in [Sample -> SampleState]
           /\ loaded' \in [Sample -> AnyHandle]
           /\ writer_loaded' \in [Sample -> {0} \cup Instance]
           /\ state'[s] \in {"writing", otherwise}
           /\ \A t \in Sample \ {s} : state'[t] = state[t]
<1>1. /\ state \in [Sample -> SampleState]
      /\ loaded \in [Sample -> AnyHandle]
      /\ writer_loaded \in [Sample -> {0} \cup Instance]
      /\ dds_writer[r] \in AnyHandle
      /\ entity \in [Handle -> {0} \cup Instance]
    BY DEF DataInv, RoutesInv, ToDdsTypeOK, HandlesInv, HandlesTypeOK
<1>2. CASE dds_writer[r] # DDS_ENTITY_NULL
    <2>1. /\ state' = [state EXCEPT ![s] = "writing"]
          /\ loaded' = [loaded EXCEPT ![s] = dds_writer[r]]
          /\ writer_loaded' = [writer_loaded EXCEPT ![s] = entity[dds_writer[r]]]
        BY <1>2 DEF load
    <2>2. dds_writer[r] \in Handle
        BY <1>1, <1>2 DEF AnyHandle
    <2> QED
        BY <1>1, <2>1, <2>2 DEF SampleState
<1>3. CASE dds_writer[r] = DDS_ENTITY_NULL
    <2>1. /\ state' = [state EXCEPT ![s] = otherwise]
          /\ loaded' = [loaded EXCEPT ![s] = dds_writer[r]]
          /\ writer_loaded' = writer_loaded
        BY <1>3 DEF load
    <2> QED
        BY <1>1, <2>1
<1> QED
    BY <1>2, <1>3

\* The callback receives a sample.
LEMMA CallbackStep ==
    ASSUME DataInv, NEW s \in Sample, SubscriberCallback(s), UNCHANGED from_dds_vars
    PROVE  DataInv'
<1>1. routes \in Route /\ load(s, routes, "waiting") /\ "waiting" \in SampleState
    BY DEF SubscriberCallback, DataInv, RoutesInv, SampleState
<1>2. /\ route_of' = [route_of EXCEPT ![s] = routes]
      /\ UNCHANGED polls /\ UNCHANGED <<handle_vars, route_vars>>
    BY DEF SubscriberCallback
<1>3. /\ route_of \in [Sample -> {0} \cup Route] /\ polls \in [Sample -> 0..MaxPolls]
    BY DEF DataInv, RoutesInv, ToDdsTypeOK
<1>4. SamplesInv'
    <2>1. \A t \in Sample \ {s} : state'[t] = state[t] /\ route_of'[t] = route_of[t]
        BY <1>1, <1>2, <1>3, Load
    <2>2. route_of'[s] \in Route /\ polls'[s] < MaxPolls
        BY <1>1, <1>2, <1>3 DEF SubscriberCallback, DataInv, SamplesInv
    <2> QED
        BY <1>2, <2>1, <2>2 DEF DataInv, SamplesInv
<1> QED
    BY <1>1, <1>2, <1>3, <1>4, Load, SamplesMove

\* A waiting task polls.
LEMMA PollStep ==
    ASSUME DataInv, NEW s \in Sample, PollDdsWriter(s), UNCHANGED from_dds_vars
    PROVE  DataInv'
<1> DEFINE otherwise == IF polls[s] + 1 = MaxPolls THEN "dropped" ELSE "waiting"
<1>1. /\ state[s] = "waiting" /\ polls[s] < MaxPolls
      /\ polls' = [polls EXCEPT ![s] = polls[s] + 1]
      /\ load(s, route_of[s], otherwise)
      /\ UNCHANGED route_of /\ UNCHANGED <<handle_vars, route_vars>>
    BY DEF PollDdsWriter, DataInv, SamplesInv
<1>2. /\ route_of[s] \in Route /\ otherwise \in SampleState
      /\ route_of \in [Sample -> {0} \cup Route]
      /\ polls \in [Sample -> 0..MaxPolls]
    BY <1>1 DEF DataInv, SamplesInv, RoutesInv, ToDdsTypeOK, SampleState
<1>3. /\ polls' \in [Sample -> 0..MaxPolls]
      /\ otherwise = "waiting" => polls'[s] < MaxPolls
      /\ otherwise # "coming"
      /\ \A t \in Sample \ {s} : polls'[t] = polls[t]
    BY <1>1, <1>2, Constants
<1> HIDE DEF otherwise
<1>4. /\ state' \in [Sample -> SampleState]
      /\ loaded' \in [Sample -> AnyHandle]
      /\ writer_loaded' \in [Sample -> {0} \cup Instance]
      /\ state'[s] \in {"writing", otherwise}
      /\ \A t \in Sample \ {s} : state'[t] = state[t]
    BY <1>1, <1>2, Load
<1>5. SamplesInv'
    BY <1>1, <1>2, <1>3, <1>4 DEF DataInv, SamplesInv
<1> QED
    BY <1>1, <1>2, <1>3, <1>4, <1>5, SamplesMove

\* A loaded handle is written to.
LEMMA RouteDataStep ==
    ASSUME DataInv, NEW s \in Sample, do_route_data(s), UNCHANGED from_dds_vars
    PROVE  DataInv'
<1>1. PICK end \in {"routed", "misrouted", "lost"} : state' = [state EXCEPT ![s] = end]
    BY DEF do_route_data
<1>2. /\ polls' = [polls EXCEPT ![s] = 0]
      /\ loaded' = [loaded EXCEPT ![s] = DDS_ENTITY_NULL]
      /\ writer_loaded' = [writer_loaded EXCEPT ![s] = 0]
      /\ UNCHANGED route_of /\ UNCHANGED <<handle_vars, route_vars>>
      /\ state[s] = "writing"
    BY DEF do_route_data
<1>3. /\ state \in [Sample -> SampleState]
      /\ route_of \in [Sample -> {0} \cup Route]
      /\ polls \in [Sample -> 0..MaxPolls]
      /\ loaded \in [Sample -> AnyHandle]
      /\ writer_loaded \in [Sample -> {0} \cup Instance]
    BY DEF DataInv, RoutesInv, ToDdsTypeOK
<1>4. polls' \in [Sample -> 0..MaxPolls]
    BY <1>2, <1>3, Constants
<1>5. /\ state' \in [Sample -> SampleState]
      /\ loaded' \in [Sample -> AnyHandle]
      /\ writer_loaded' \in [Sample -> {0} \cup Instance]
    BY <1>1, <1>2, <1>3 DEF SampleState, AnyHandle
<1>6. SamplesInv'
    BY <1>1, <1>2, <1>3 DEF DataInv, SamplesInv
<1> QED
    BY <1>2, <1>3, <1>4, <1>5, <1>6, SamplesMove

-----------------------------------------------------------------------------
(* The tasks of the routes from DDS. *)

\* A step of the task of reader i, and a sample that reader i receives.
LEMMA TaskStep ==
    ASSUME DataInv, NEW i \in Instance, FromDdsTask(i) \/ Receive(i), UNCHANGED to_dds_vars
    PROVE  DataInv'
<1>1. UNCHANGED <<dds_reader, handle_vars>> /\ UNCHANGED <<entity, kind, created>>
    BY DEF FromDdsTask, StartTask, CheckReader, WakeUp, Take, Receive, handle_vars
<1>2. /\ FromDdsTypeOK
      /\ entity \in [Handle -> {0} \cup Instance]
    BY DEF DataInv, TasksInv, HandlesInv, HandlesTypeOK
<1>3. \A j \in Instance : Exists(j)' <=> Exists(j)
    BY <1>1 DEF Exists
<1>4. CASE StartTask(i)
    <2>1. handle[i] \in Handle /\ late[i] = 0
        BY <1>4 DEF StartTask, DataInv, TasksInv
    <2>2. entity[handle[i]] \in {0} \cup Instance
        BY <1>2, <2>1
    <2>3. FromDdsTypeOK'
        BY <1>2, <1>4, <2>2 DEF StartTask, dds_get_instance_handle, FromDdsTypeOK, TaskState
    <2>4. TasksInv'
        BY <1>1, <1>2, <1>3, <1>4, <2>1, <2>3 DEF StartTask, DataInv, TasksInv, FromDdsTypeOK
    <2> QED
        BY <1>1, <2>4, TasksMove
<1>5. CASE CheckReader(i)
    <2>1. FromDdsTypeOK'
        BY <1>2, <1>5 DEF CheckReader, FromDdsTypeOK, TaskState
    <2>2. handle[i] \in Handle
        BY <1>5 DEF CheckReader, DataInv, TasksInv
    <2>3. same_reader(i) /\ original[i] = i => Exists(i)
        BY <2>2 DEF same_reader, dds_get_instance_handle, Exists
    <2>4. i # 0
        BY Constants DEF Instance
    <2>5. TasksInv'
        BY <1>1, <1>2, <1>3, <1>5, <2>1, <2>3, <2>4 DEF CheckReader, DataInv, TasksInv, FromDdsTypeOK
    <2> QED
        BY <1>1, <2>5, TasksMove
<1>6. CASE WakeUp(i)
    <2>1. upTo2(late[i] + 1) \in 0..2 /\ (late[i] = 0 => upTo2(late[i] + 1) = 1)
        BY <1>2 DEF FromDdsTypeOK, upTo2
    <2>2. FromDdsTypeOK'
        BY <1>2, <1>6, <2>1 DEF WakeUp, FromDdsTypeOK, TaskState
    <2>3. original[i] = i => late[i] = 0
        BY <1>2, <1>6 DEF WakeUp, DataInv, TasksInv, FromDdsTypeOK
    <2>4. TasksInv'
        BY <1>1, <1>2, <1>3, <1>6, <2>1, <2>2, <2>3 DEF WakeUp, DataInv, TasksInv, FromDdsTypeOK
    <2> QED
        BY <1>1, <2>4, TasksMove
<1>7. CASE Take(i)
    <2>1. upTo2(forwarded[i] + 1) \in 0..2
        BY <1>2 DEF FromDdsTypeOK, upTo2
    <2>2. FromDdsTypeOK'
        BY <1>2, <1>7, <2>1 DEF Take, FromDdsTypeOK, TaskState
    <2>3. TasksInv'
        BY <1>1, <1>2, <1>3, <1>7, <2>2 DEF Take, DataInv, TasksInv, FromDdsTypeOK
    <2> QED
        BY <1>1, <2>3, TasksMove
<1>8. CASE Receive(i)
    <2>1. FromDdsTypeOK'
        BY <1>2, <1>8 DEF Receive, FromDdsTypeOK
    <2>2. TasksInv'
        BY <1>1, <1>3, <1>8, <2>1 DEF Receive, DataInv, TasksInv
    <2> QED
        BY <1>1, <2>2, TasksMove
<1> QED
    BY <1>4, <1>5, <1>6, <1>7, <1>8 DEF FromDdsTask

-----------------------------------------------------------------------------
(* The event loop. *)

\* The handles that a route to DDS holds.
Holding == IF subscribed THEN {dds_writer[routes]} ELSE {}

HeldBy(writers, reader) ==
    \A h \in Handle :
        /\ entity[h] # 0 => h \in writers \cup {reader}
        /\ h \in writers => entity[h] # 0 /\ kind[entity[h]] = "writer"
        /\ h = reader => entity[h] # 0 /\ kind[entity[h]] = "reader"

\* EntitiesHeld, of the handles of writers and of the one of a reader.
LEMMA EntitiesHeldSplit == EntitiesHeld <=> HeldBy(Holding \cup {deleting}, dds_reader)
BY DEF EntitiesHeld, HeldBy, Holding

\* The routes to DDS change, but no entity does.
LEMMA RoutesMove ==
    ASSUME DataInv, UNCHANGED <<handle_vars, samples_vars, from_dds_vars>>, RoutesInv',
           Holding' \cup {deleting'} \cup {DDS_ENTITY_NULL}
                = Holding \cup {deleting} \cup {DDS_ENTITY_NULL}
    PROVE  DataInv'
<1>1. /\ UNCHANGED <<entity, kind, created>>
      /\ UNCHANGED <<dds_reader, task, handle, original, unread, forwarded, late>>
      /\ UNCHANGED <<state, route_of, polls, loaded, writer_loaded>>
    BY DEF handle_vars, samples_vars, from_dds_vars
<1>2. HandlesInv'
    BY <1>1 DEF DataInv, HandlesInv, HandlesTypeOK
<1>3. TasksInv'
    BY <1>1 DEF DataInv, TasksInv, FromDdsTypeOK, Exists
<1>4. SamplesInv'
    BY <1>1 DEF DataInv, SamplesInv
<1>5. HeldBy(Holding \cup {deleting}, dds_reader)'
    <2>1. HeldBy(Holding \cup {deleting}, dds_reader)
        BY EntitiesHeldSplit DEF DataInv
    <2>2. \A h \in Handle : h \in Holding' \cup {deleting'} <=> h \in Holding \cup {deleting}
        BY Constants
    <2> QED
        BY <1>1, <2>1, <2>2 DEF HeldBy
<1>6. EntitiesHeld'
    BY <1>5, EntitiesHeldSplit, PTL
<1> QED
    BY <1>2, <1>3, <1>4, <1>6 DEF DataInv

\* A route to DDS is created,
LEMMA NewRouteStep ==
    ASSUME DataInv, NewRouteToDds, UNCHANGED from_dds_vars
    PROVE  DataInv'
<1>1. /\ Idle /\ subscribed = FALSE /\ routes < MaxRoutes
      /\ routes' = routes + 1 /\ subscribed' = TRUE
      /\ UNCHANGED <<dds_writer, dropping, deleting>>
      /\ UNCHANGED <<samples_vars, handle_vars>>
    BY DEF NewRouteToDds, DataInv, RoutesInv, ToDdsTypeOK
<1>2. ToDdsTypeOK /\ routes \in Nat
    BY Constants DEF DataInv, RoutesInv, ToDdsTypeOK, Route
<1>3. routes + 1 \in Route /\ \A r \in Route : r > routes + 1 => r > routes
    BY <1>1, <1>2, Constants DEF Route
<1>4. dds_writer[routes + 1] = DDS_ENTITY_NULL
    BY <1>2, <1>3 DEF DataInv, RoutesInv
<1>5. ToDdsTypeOK'
    BY <1>1, <1>2, <1>3 DEF ToDdsTypeOK, samples_vars
<1>6. RoutesInv'
    BY <1>1, <1>3, <1>5 DEF DataInv, RoutesInv, Idle
<1>7. Holding' = {DDS_ENTITY_NULL} /\ Holding = {}
    BY <1>1, <1>4 DEF Holding
<1> QED
    BY <1>1, <1>6, <1>7, RoutesMove

\* its DDS writer is taken from it,
LEMMA SwapStep ==
    ASSUME DataInv, NEW dropped \in BOOLEAN, SwapDdsWriter(dropped), UNCHANGED from_dds_vars
    PROVE  DataInv'
<1>1. /\ Idle /\ subscribed /\ routes \in Route
      /\ deleting' = dds_writer[routes]
      /\ dds_writer' = [dds_writer EXCEPT ![routes] = DDS_ENTITY_NULL]
      /\ dropping' = dropped
      /\ UNCHANGED <<routes, subscribed>> /\ UNCHANGED <<samples_vars, handle_vars>>
    BY DEF SwapDdsWriter, DataInv, RoutesInv
<1>2. ToDdsTypeOK /\ deleting = DDS_ENTITY_NULL
    BY <1>1 DEF DataInv, RoutesInv, Idle
<1>3. dds_writer \in [Route -> AnyHandle] /\ DDS_ENTITY_NULL \in AnyHandle
    BY <1>2 DEF ToDdsTypeOK, AnyHandle
<1>4. /\ dds_writer' \in [Route -> AnyHandle] /\ deleting' \in AnyHandle
      /\ dds_writer'[routes] = DDS_ENTITY_NULL
      /\ \A r \in Route : dds_writer'[r] = dds_writer[r] \/ dds_writer'[r] = DDS_ENTITY_NULL
    BY <1>1, <1>3
<1>5. ToDdsTypeOK'
    BY <1>1, <1>2, <1>4 DEF ToDdsTypeOK, samples_vars
<1>6. RoutesInv'
    BY <1>1, <1>4, <1>5 DEF DataInv, RoutesInv
<1>7. Holding' = {DDS_ENTITY_NULL} /\ Holding = {dds_writer[routes]}
    BY <1>1, <1>4 DEF Holding
<1> QED
    BY <1>1, <1>2, <1>6, <1>7, RoutesMove

\* and, when it is dropped, its subscriber goes.
LEMMA DropSubscriberStep ==
    ASSUME DataInv, DropSubscriber, UNCHANGED from_dds_vars
    PROVE  DataInv'
<1>1. /\ dropping /\ deleting = DDS_ENTITY_NULL
      /\ subscribed' = FALSE /\ dropping' = FALSE
      /\ UNCHANGED <<routes, dds_writer, deleting>> /\ UNCHANGED <<samples_vars, handle_vars>>
    BY DEF DropSubscriber
<1>2. subscribed /\ dds_writer[routes] = DDS_ENTITY_NULL
    BY <1>1 DEF DataInv, RoutesInv, Idle
<1>3. ToDdsTypeOK'
    BY <1>1 DEF DataInv, RoutesInv, ToDdsTypeOK, samples_vars
<1>4. RoutesInv'
    BY <1>1, <1>3 DEF DataInv, RoutesInv, Idle
<1>5. Holding' = {} /\ Holding = {DDS_ENTITY_NULL}
    BY <1>1, <1>2 DEF Holding
<1> QED
    BY <1>1, <1>4, <1>5, RoutesMove

\* A DDS writer is created and set,
LEMMA SetDdsWriterStep ==
    ASSUME DataInv, NEW h \in Handle, SetDdsWriter(h), UNCHANGED from_dds_vars
    PROVE  DataInv'
<1>1. /\ ~ dropping /\ deleting = DDS_ENTITY_NULL /\ subscribed
      /\ routes \in Route /\ dds_writer[routes] = DDS_ENTITY_NULL
      /\ dds_create(h, "writer")
      /\ dds_writer' = [dds_writer EXCEPT ![routes] = h]
      /\ UNCHANGED <<routes, subscribed, dropping, deleting, samples_vars>>
    BY DEF SetDdsWriter, Idle, DataInv, RoutesInv
<1>2. /\ UNCHANGED <<dds_reader, task, handle, original, unread, forwarded, late>>
      /\ UNCHANGED <<state, route_of, polls, loaded, writer_loaded>>
    BY <1>1 DEF from_dds_vars, samples_vars
<1>3. /\ HandlesInv'
      /\ NextInstance \in Instance
      /\ \A g \in Handle \ {h} : entity'[g] = entity[g]
      /\ \A g \in Handle \ {h} : entity[g] # 0 => kind'[entity'[g]] = kind[entity[g]]
      /\ entity[h] = 0 /\ entity'[h] # 0 /\ kind'[entity'[h]] = "writer"
      /\ \A i \in Instance : i <= created => (Exists(i)' <=> Exists(i))
      /\ created' = created + 1
    BY <1>1, Creation DEF DataInv
<1>4. ToDdsTypeOK /\ created \in Nat
    BY Constants DEF DataInv, RoutesInv, HandlesInv, HandlesTypeOK, Instance
<1>5. /\ dds_writer' \in [Route -> AnyHandle] /\ dds_writer'[routes] = h
      /\ \A r \in Route : r # routes => dds_writer'[r] = dds_writer[r]
    BY <1>1, <1>4 DEF ToDdsTypeOK, AnyHandle
<1>6. RoutesInv'
    <2>1. ToDdsTypeOK'
        BY <1>1, <1>2, <1>4, <1>5 DEF ToDdsTypeOK
    <2>2. \A r \in Route : r > routes => r # routes
        BY <1>1, Constants DEF Route
    <2>3. Idle'
        BY <1>1 DEF Idle
    <2> QED
        BY <1>1, <1>5, <2>1, <2>2, <2>3 DEF DataInv, RoutesInv
<1>7. SamplesInv'
    BY <1>2 DEF DataInv, SamplesInv
<1>8. TasksInv'
    <2>1. FromDdsTypeOK'
        BY <1>2 DEF DataInv, TasksInv, FromDdsTypeOK
    <2>2. \A i \in Instance : task[i] # "none" => (Exists(i)' <=> Exists(i))
        BY <1>3 DEF DataInv, TasksInv
    <2>3. \A i \in Instance : task[i] # "none" => i <= created'
        BY <1>3, <1>4, Constants DEF DataInv, TasksInv, Instance
    <2> QED
        BY <1>2, <2>1, <2>2, <2>3 DEF DataInv, TasksInv
<1>9. EntitiesHeld'
    <2>1. HeldBy(Holding \cup {deleting}, dds_reader)
        BY EntitiesHeldSplit DEF DataInv
    <2>2. Holding = {DDS_ENTITY_NULL} /\ Holding' = {h}
        BY <1>1, <1>5 DEF Holding
    <2>3. h # dds_reader
        BY <1>3, <2>1 DEF HeldBy
    <2>4. HeldBy(Holding \cup {deleting}, dds_reader)'
        BY <1>1, <1>2, <1>3, <2>1, <2>2, <2>3, Constants DEF HeldBy
    <2> QED
        BY <2>4, EntitiesHeldSplit, PTL
<1> QED
    BY <1>3, <1>6, <1>7, <1>8, <1>9 DEF DataInv

\* and one that was swapped out is deleted.
LEMMA DeleteDdsWriterStep ==
    ASSUME DataInv, DeleteDdsWriter, UNCHANGED from_dds_vars
    PROVE  DataInv'
<1>1. /\ deleting \in Handle /\ dds_delete(deleting)
      /\ deleting' = DDS_ENTITY_NULL
      /\ UNCHANGED <<routes, subscribed, dropping, dds_writer, samples_vars>>
    BY DEF DeleteDdsWriter, DataInv, RoutesInv, ToDdsTypeOK, AnyHandle
<1>2. /\ UNCHANGED <<dds_reader, task, handle, original, unread, forwarded, late>>
      /\ UNCHANGED <<state, route_of, polls, loaded, writer_loaded>>
    BY <1>1 DEF from_dds_vars, samples_vars
<1>3. /\ HandlesInv'
      /\ \A g \in Handle \ {deleting} : entity'[g] = entity[g]
      /\ entity'[deleting] = 0 /\ kind' = kind /\ created' = created
      /\ \A i \in Instance : Exists(i)' => Exists(i)
    BY <1>1, Deletion DEF DataInv
<1>4. subscribed /\ dds_writer[routes] = DDS_ENTITY_NULL
    BY <1>1, Constants DEF DataInv, RoutesInv, Idle
<1>5. RoutesInv'
    <2>1. ToDdsTypeOK'
        BY <1>1, <1>2 DEF DataInv, RoutesInv, ToDdsTypeOK, AnyHandle
    <2> QED
        BY <1>1, <1>4, <2>1 DEF DataInv, RoutesInv, Idle
<1>6. SamplesInv'
    BY <1>2 DEF DataInv, SamplesInv
<1>7. TasksInv'
    <2>1. FromDdsTypeOK'
        BY <1>2 DEF DataInv, TasksInv, FromDdsTypeOK
    <2> QED
        BY <1>2, <1>3, <2>1 DEF DataInv, TasksInv
<1>8. EntitiesHeld'
    <2>1. HeldBy(Holding \cup {deleting}, dds_reader)
        BY EntitiesHeldSplit DEF DataInv
    <2>2. Holding = {DDS_ENTITY_NULL} /\ Holding' = {DDS_ENTITY_NULL}
        BY <1>1, <1>4 DEF Holding
    <2>3. deleting # dds_reader
        BY <1>1, <2>1 DEF HeldBy
    <2>4. HeldBy(Holding \cup {deleting}, dds_reader)'
        BY <1>1, <1>2, <1>3, <2>1, <2>2, <2>3, Constants DEF HeldBy
    <2> QED
        BY <2>4, EntitiesHeldSplit, PTL
<1> QED
    BY <1>3, <1>5, <1>6, <1>7, <1>8 DEF DataInv

\* A route from DDS is created with its reader and its task,
LEMMA NewRouteFromDdsStep ==
    ASSUME DataInv, NEW h \in Handle, Idle, NewRouteFromDds(h), UNCHANGED to_dds_vars
    PROVE  DataInv'
<1>1. /\ dds_reader = DDS_ENTITY_NULL /\ deleting = DDS_ENTITY_NULL
      /\ dds_create(h, "reader") /\ dds_reader' = h
      /\ task' = [task EXCEPT ![NextInstance] = "spawned"]
      /\ handle' = [handle EXCEPT ![NextInstance] = h]
      /\ UNCHANGED <<original, unread, forwarded, late>>
    BY DEF NewRouteFromDds, Idle
<1>2. /\ UNCHANGED <<routes, subscribed, dds_writer, dropping, deleting>>
      /\ UNCHANGED <<state, route_of, polls, loaded, writer_loaded>>
    BY DEF to_dds_vars, route_vars, samples_vars
<1>3. /\ HandlesInv'
      /\ NextInstance \in Instance
      /\ \A g \in Handle \ {h} : entity'[g] = entity[g]
      /\ \A g \in Handle \ {h} : entity[g] # 0 => kind'[entity'[g]] = kind[entity[g]]
      /\ entity[h] = 0 /\ entity'[h] # 0 /\ kind'[entity'[h]] = "reader"
      /\ \A i \in Instance : i <= created => (Exists(i)' <=> Exists(i))
      /\ created' = created + 1
    BY <1>1, Creation DEF DataInv
<1>4. FromDdsTypeOK /\ created \in Nat
    BY Constants DEF DataInv, TasksInv, HandlesInv, HandlesTypeOK, Instance
<1>5. RoutesInv'
    BY <1>2 DEF DataInv, RoutesInv, ToDdsTypeOK, Idle
<1>6. SamplesInv'
    BY <1>2 DEF DataInv, SamplesInv
<1>7. TasksInv'
    <2>1. /\ task'[NextInstance] = "spawned" /\ handle'[NextInstance] = h
          /\ \A i \in Instance : i # NextInstance => task'[i] = task[i] /\ handle'[i] = handle[i]
        BY <1>1, <1>3, <1>4 DEF FromDdsTypeOK
    <2>2. FromDdsTypeOK'
        BY <1>1, <1>3, <1>4 DEF FromDdsTypeOK, TaskState
    <2>3. task[NextInstance] = "none"
        BY <1>3, <1>4 DEF DataInv, TasksInv, NextInstance
    <2>4. late[NextInstance] = 0
        BY <1>3, <2>3 DEF DataInv, TasksInv
    <2>5. ASSUME NEW i \in Instance, i # NextInstance
          PROVE  /\ task'[i] # "none" => i <= created'
                 /\ task'[i] \notin {"none", "ended"} => handle'[i] \in Handle
                 /\ task'[i] \in {"none", "spawned"} => late'[i] = 0
                 /\ original'[i] = i => late'[i] <= 1
                 /\ original'[i] = i /\ late'[i] = 1 =>
                        task'[i] \in {"taking", "checking"} /\ ~ Exists(i)'
        <3>1. i \in Nat
            BY Constants DEF Instance
        <3> QED
            BY <1>1, <1>3, <1>4, <2>1, <2>5, <3>1 DEF DataInv, TasksInv
    <2>6. /\ NextInstance <= created' /\ h \in Handle
          /\ late'[NextInstance] = 0
        BY <1>1, <1>3, <1>4, <2>4 DEF NextInstance
    <2> QED
        BY <2>1, <2>2, <2>5, <2>6 DEF TasksInv
<1>8. EntitiesHeld'
    <2>1. HeldBy(Holding \cup {deleting}, dds_reader)
        BY EntitiesHeldSplit DEF DataInv
    <2>2. Holding' = Holding
        BY <1>2 DEF Holding
    <2>3. h \notin Holding
        BY <1>3, <2>1 DEF HeldBy
    <2>4. HeldBy(Holding \cup {deleting}, dds_reader)'
        BY <1>1, <1>2, <1>3, <2>1, <2>2, <2>3, Constants DEF HeldBy
    <2> QED
        BY <2>4, EntitiesHeldSplit, PTL
<1> QED
    BY <1>3, <1>5, <1>6, <1>7, <1>8 DEF DataInv

\* and dropped, its task being told nothing.
LEMMA DropRouteFromDdsStep ==
    ASSUME DataInv, Idle, DropRouteFromDds, UNCHANGED to_dds_vars
    PROVE  DataInv'
<1>1. /\ dds_reader \in Handle /\ dds_delete(dds_reader)
      /\ deleting = DDS_ENTITY_NULL
      /\ dds_reader' = DDS_ENTITY_NULL
      /\ unread' = unread \ {entity[dds_reader]}
      /\ UNCHANGED <<task, handle, original, forwarded, late>>
    BY DEF DropRouteFromDds, Idle, DataInv, TasksInv, FromDdsTypeOK
<1>2. /\ UNCHANGED <<routes, subscribed, dds_writer, dropping, deleting>>
      /\ UNCHANGED <<state, route_of, polls, loaded, writer_loaded>>
    BY DEF to_dds_vars, route_vars, samples_vars
<1>3. /\ HandlesInv'
      /\ \A g \in Handle \ {dds_reader} : entity'[g] = entity[g]
      /\ entity'[dds_reader] = 0 /\ kind' = kind /\ created' = created
      /\ \A i \in Instance : Exists(i)' => Exists(i)
    BY <1>1, Deletion DEF DataInv
<1>4. RoutesInv'
    BY <1>2 DEF DataInv, RoutesInv, ToDdsTypeOK, Idle
<1>5. SamplesInv'
    BY <1>2 DEF DataInv, SamplesInv
<1>6. TasksInv'
    <2>1. FromDdsTypeOK'
        BY <1>1 DEF DataInv, TasksInv, FromDdsTypeOK
    <2> QED
        BY <1>1, <1>3, <2>1 DEF DataInv, TasksInv
<1>7. EntitiesHeld'
    <2>1. HeldBy(Holding \cup {deleting}, dds_reader)
        BY EntitiesHeldSplit DEF DataInv
    <2>2. Holding' = Holding
        BY <1>2 DEF Holding
    <2>3. dds_reader \notin Holding
        BY <1>1, <2>1 DEF HeldBy
    <2>4. HeldBy(Holding \cup {deleting}, dds_reader)'
        BY <1>1, <1>2, <1>3, <2>1, <2>2, <2>3, Constants DEF HeldBy
    <2> QED
        BY <2>4, EntitiesHeldSplit, PTL
<1> QED
    BY <1>3, <1>4, <1>5, <1>6, <1>7 DEF DataInv

-----------------------------------------------------------------------------
(* The theorems. *)

\* Every step preserves the invariant.
LEMMA DataStep == DataInv /\ [DataNext]_data_vars => DataInv'
<1> SUFFICES ASSUME DataInv, [DataNext]_data_vars PROVE DataInv'
    OBVIOUS
<1>1. CASE ToDdsEventLoop /\ UNCHANGED from_dds_vars
    BY <1>1, NewRouteStep, SetDdsWriterStep, SwapStep, DeleteDdsWriterStep, DropSubscriberStep
       DEF ToDdsEventLoop
<1>2. CASE Idle /\ FromDdsEventLoop /\ UNCHANGED to_dds_vars
    BY <1>2, NewRouteFromDdsStep, DropRouteFromDdsStep DEF FromDdsEventLoop
<1>3. CASE /\ \E s \in Sample : SubscriberCallback(s) \/ ToDdsTask(s)
           /\ UNCHANGED from_dds_vars
    BY <1>3, CallbackStep, PollStep, RouteDataStep DEF ToDdsTask
<1>4. CASE /\ \E i \in Instance : FromDdsTask(i) \/ Receive(i)
           /\ UNCHANGED to_dds_vars
    BY <1>4, TaskStep
<1>5. CASE UNCHANGED data_vars
    <2>1. UNCHANGED <<handle_vars, to_dds_vars, dds_reader>> /\ UNCHANGED from_dds_vars
        BY <1>5 DEF data_vars, from_dds_vars
    <2>2. TasksInv'
        BY <2>1 DEF DataInv, TasksInv, FromDdsTypeOK, Exists, from_dds_vars, handle_vars
    <2> QED
        BY <2>1, <2>2, TasksMove
<1> QED
    BY <1>1, <1>2, <1>3, <1>4, <1>5 DEF DataNext, EventLoop, Threads

\* The invariant holds in every state of the two data paths.
THEOREM DataInvariance == DataSpec => []DataInv
BY DataInitInv, DataStep, PTL DEF DataSpec

\* Every variable of the data paths keeps its type, and a live entity has one handle.
THEOREM DataTypeCorrectness == DataSpec => []DataTypeOK
<1>1. DataInv => DataTypeOK
    BY DEF DataInv, DataTypeOK, HandlesInv, RoutesInv, TasksInv
<1> QED
    BY <1>1, DataInvariance, PTL

\* The event loop loses no DDS entity and deletes none of another kind, however often
\* handles are given again (delete_dds_writer, the drops of the routes).
THEOREM EntitiesHeldAlways == DataSpec => []EntitiesHeld
<1>1. DataInv => EntitiesHeld
    BY DEF DataInv
<1> QED
    BY <1>1, DataInvariance, PTL

\* A periodic task that knows its reader begins at most one period after the reader
\* is deleted (the loop of create_forwarding_dds_reader).
THEOREM OneLatePeriodAlways == DataSpec => []OneLatePeriod
<1>1. DataInv => OneLatePeriod
    BY DEF DataInv, TasksInv, OneLatePeriod
<1> QED
    BY <1>1, DataInvariance, PTL

-----------------------------------------------------------------------------
(* What a loaded handle stands for. *)

\* The handle of a writer never changes, so that a sample in writing whose writer
\* still exists holds its handle; likewise the task of a reader.
StaleInv ==
    /\ \A r \in Route : dds_writer[r] # DDS_ENTITY_NULL => r = routes /\ subscribed
    /\ \A s \in Sample : state[s] = "writing" =>
        /\ loaded[s] \in Handle
        /\ writer_loaded[s] \in Instance /\ writer_loaded[s] <= created
        /\ \A h \in Handle : entity[h] = writer_loaded[s] => h = loaded[s]
    /\ \A i \in Instance : task[i] \notin {"none", "ended"} =>
        \A h \in Handle : entity[h] = i => h = handle[i]

\* Nothing is loaded at first.
LEMMA StaleInit == DataInit => StaleInv
BY DEF DataInit, ToDdsInit, FromDdsInit, StaleInv

\* A handle keeps its entity, loses it, or gets one that none had before.
LEMMA HandlesMove ==
    ASSUME DataInv, [DataNext]_data_vars
    PROVE  /\ created \in Nat /\ created' \in Nat /\ created <= created'
           /\ \A h \in Handle :
                \/ entity'[h] = entity[h]
                \/ entity'[h] = 0
                \/ entity'[h] = created + 1
<1>1. /\ entity \in [Handle -> {0} \cup Instance] /\ created \in Nat
    BY Constants DEF DataInv, HandlesInv, HandlesTypeOK, Instance
<1>2. ASSUME NEW h \in Handle, NEW what \in {"reader", "writer"}, dds_create(h, what)
      PROVE  /\ created' = created + 1
             /\ entity' = [entity EXCEPT ![h] = created + 1]
    BY <1>2 DEF dds_create, NextInstance
<1>3. ASSUME NEW h, dds_delete(h)
      PROVE  created' = created /\ entity' = [entity EXCEPT ![h] = 0]
    BY <1>3 DEF dds_delete
<1>4. CASE \E h \in Handle : SetDdsWriter(h)
    BY <1>1, <1>2, <1>4 DEF SetDdsWriter
<1>5. CASE DeleteDdsWriter
    BY <1>1, <1>3, <1>5 DEF DeleteDdsWriter
<1>6. CASE \E h \in Handle : NewRouteFromDds(h)
    BY <1>1, <1>2, <1>6 DEF NewRouteFromDds
<1>7. CASE DropRouteFromDds
    BY <1>1, <1>3, <1>7 DEF DropRouteFromDds
<1>8. CASE UNCHANGED handle_vars
    BY <1>1, <1>8 DEF handle_vars
<1>9. CASE NewRouteToDds \/ SwapDdsWriter(TRUE) \/ SwapDdsWriter(FALSE) \/ DropSubscriber
    BY <1>8, <1>9 DEF NewRouteToDds, SwapDdsWriter, DropSubscriber
<1>10. CASE \E s \in Sample : SubscriberCallback(s) \/ ToDdsTask(s)
    BY <1>8, <1>10 DEF SubscriberCallback, ToDdsTask, PollDdsWriter, do_route_data
<1>11. CASE \E i \in Instance : FromDdsTask(i) \/ Receive(i)
    BY <1>8, <1>11 DEF FromDdsTask, StartTask, CheckReader, WakeUp, Take, Receive
<1>12. CASE UNCHANGED data_vars
    BY <1>8, <1>12 DEF data_vars
<1> QED
    BY <1>4, <1>5, <1>6, <1>7, <1>9, <1>10, <1>11, <1>12
       DEF DataNext, EventLoop, Threads, ToDdsEventLoop, FromDdsEventLoop

\* What is known of the one handle of an old entity stays true.
LEMMA HandleOfStays ==
    ASSUME DataInv, [DataNext]_data_vars, NEW i \in Instance, i <= created, NEW g,
           \A h \in Handle : entity[h] = i => h = g
    PROVE  \A h \in Handle : entity'[h] = i => h = g
<1>1. i # 0 /\ i # created + 1
    BY HandlesMove, Constants DEF Instance
<1> QED
    BY <1>1, HandlesMove

\* Whoever loads the handle of a route loads one of a live entity, known by no other.
LEMMA LoadedHandle ==
    ASSUME DataInv, StaleInv, NEW s \in Sample, NEW r \in Route, NEW otherwise \in SampleState,
           load(s, r, otherwise), UNCHANGED handle_vars, otherwise # "writing",
           state'[s] = "writing"
    PROVE  /\ loaded'[s] \in Handle
           /\ writer_loaded'[s] \in Instance /\ writer_loaded'[s] <= created'
           /\ \A h \in Handle : entity'[h] = writer_loaded'[s] => h = loaded'[s]
<1>1. /\ state \in [Sample -> SampleState]
      /\ loaded \in [Sample -> AnyHandle]
      /\ writer_loaded \in [Sample -> {0} \cup Instance]
      /\ dds_writer[r] \in AnyHandle
      /\ entity \in [Handle -> {0} \cup Instance]
    BY DEF DataInv, RoutesInv, ToDdsTypeOK, HandlesInv, HandlesTypeOK
<1>2. dds_writer[r] # DDS_ENTITY_NULL
    BY <1>1 DEF load
<1>3. loaded'[s] = dds_writer[r] /\ writer_loaded'[s] = entity[dds_writer[r]]
    BY <1>1, <1>2 DEF load
<1>4. dds_writer[r] \in Handle /\ r = routes /\ subscribed
    BY <1>1, <1>2 DEF AnyHandle, StaleInv
<1>5. entity[dds_writer[r]] # 0
    BY <1>4 DEF DataInv, EntitiesHeld
<1>6. entity[dds_writer[r]] \in Instance /\ entity[dds_writer[r]] <= created
    BY <1>1, <1>4, <1>5 DEF DataInv, HandlesInv
<1>7. \A h \in Handle : entity[h] = entity[dds_writer[r]] => h = dds_writer[r]
    BY <1>4, <1>5 DEF DataInv, HandlesInv
<1> QED
    BY <1>3, <1>4, <1>6, <1>7 DEF handle_vars

\* Only a load begins a write, for the one sample that the callback or a task has.
LEMMA LoadStep ==
    ASSUME DataInv, StaleInv, NEW s \in Sample, SubscriberCallback(s) \/ PollDdsWriter(s)
    PROVE  /\ state' \in [Sample -> SampleState]
           /\ UNCHANGED <<handle_vars, route_vars>>
           /\ \A t \in Sample \ {s} : /\ state'[t] = state[t]
                                      /\ loaded'[t] = loaded[t]
                                      /\ writer_loaded'[t] = writer_loaded[t]
           /\ state'[s] = "writing" =>
                /\ loaded'[s] \in Handle
                /\ writer_loaded'[s] \in Instance /\ writer_loaded'[s] <= created'
                /\ \A h \in Handle : entity'[h] = writer_loaded'[s] => h = loaded'[s]
<1>1. PICK r \in Route, otherwise \in {"waiting", "dropped"} : load(s, r, otherwise)
    <2>1. CASE SubscriberCallback(s)
        BY <2>1 DEF SubscriberCallback, DataInv, RoutesInv
    <2>2. CASE PollDdsWriter(s)
        BY <2>2 DEF PollDdsWriter, DataInv, SamplesInv
    <2> QED
        BY <2>1, <2>2
<1>2. UNCHANGED <<handle_vars, route_vars>>
    BY DEF SubscriberCallback, PollDdsWriter
<1>3. otherwise \in SampleState /\ otherwise # "writing"
    BY DEF SampleState
<1>4. state' \in [Sample -> SampleState] /\ \A t \in Sample \ {s} : state'[t] = state[t]
    BY <1>1, <1>3, Load
<1>5. \A t \in Sample \ {s} : loaded'[t] = loaded[t] /\ writer_loaded'[t] = writer_loaded[t]
    BY <1>1 DEF load, DataInv, RoutesInv, ToDdsTypeOK
<1> QED
    BY <1>1, <1>2, <1>3, <1>4, <1>5, LoadedHandle

\* Every step keeps it.
LEMMA StaleStep == DataInv /\ StaleInv /\ [DataNext]_data_vars => StaleInv'
<1> SUFFICES ASSUME DataInv, StaleInv, [DataNext]_data_vars PROVE StaleInv'
    OBVIOUS
<1> DEFINE
    Writers == \A r \in Route : dds_writer[r] # DDS_ENTITY_NULL => r = routes /\ subscribed
    Writing(s) == state[s] = "writing" =>
        /\ loaded[s] \in Handle
        /\ writer_loaded[s] \in Instance /\ writer_loaded[s] <= created
        /\ \A h \in Handle : entity[h] = writer_loaded[s] => h = loaded[s]
    Task(i) == task[i] \notin {"none", "ended"} =>
        \A h \in Handle : entity[h] = i => h = handle[i]
<1>1. Writers /\ (\A s \in Sample : Writing(s)) /\ (\A i \in Instance : Task(i))
    BY DEF StaleInv
<1>2. created <= created' /\ created \in Nat /\ created' \in Nat
    BY HandlesMove
<1>3. ASSUME NEW s \in Sample, UNCHANGED <<state[s], loaded[s], writer_loaded[s]>>
      PROVE  Writing(s)'
    <2> SUFFICES ASSUME state[s] = "writing"
                 PROVE  /\ loaded[s] \in Handle
                        /\ writer_loaded[s] \in Instance /\ writer_loaded[s] <= created'
                        /\ \A h \in Handle : entity'[h] = writer_loaded[s] => h = loaded[s]
        BY <1>3
    <2>1. /\ loaded[s] \in Handle
          /\ writer_loaded[s] \in Instance /\ writer_loaded[s] <= created
          /\ \A h \in Handle : entity[h] = writer_loaded[s] => h = loaded[s]
        BY <1>1
    <2>2. \A h \in Handle : entity'[h] = writer_loaded[s] => h = loaded[s]
        BY <2>1, HandleOfStays
    <2>3. writer_loaded[s] \in Nat
        BY <2>1, Constants DEF Instance
    <2> QED
        BY <1>2, <2>1, <2>2, <2>3
<1>4. ASSUME NEW i \in Instance, UNCHANGED handle[i],
             task'[i] \notin {"none", "ended"} => task[i] \notin {"none", "ended"}
      PROVE  Task(i)'
    <2> SUFFICES ASSUME task'[i] \notin {"none", "ended"}
                 PROVE  \A h \in Handle : entity'[h] = i => h = handle[i]
        BY <1>4
    <2>1. i <= created /\ \A h \in Handle : entity[h] = i => h = handle[i]
        BY <1>1, <1>4 DEF DataInv, TasksInv
    <2> QED
        BY <2>1, HandleOfStays
<1>5. UNCHANGED samples_vars => \A s \in Sample : Writing(s)'
    BY <1>3 DEF samples_vars
<1>6. UNCHANGED from_dds_vars => \A i \in Instance : Task(i)'
    BY <1>4 DEF from_dds_vars
<1>7. UNCHANGED route_vars => Writers'
    BY <1>1 DEF route_vars
<1> HIDE DEF Writing, Task
<1>8. CASE ToDdsEventLoop /\ UNCHANGED from_dds_vars
    <2>1. UNCHANGED samples_vars
        BY <1>8 DEF ToDdsEventLoop, NewRouteToDds, SetDdsWriter, SwapDdsWriter,
                    DeleteDdsWriter, DropSubscriber
    <2>2. /\ dds_writer \in [Route -> AnyHandle] /\ routes \in Nat
          /\ subscribed => routes \in Route
        BY Constants DEF DataInv, RoutesInv, ToDdsTypeOK, Route
    <2>3. NewRouteToDds => Writers'
        BY <1>1 DEF NewRouteToDds
    <2>4. \A h \in Handle : SetDdsWriter(h) => Writers'
        BY <1>1, <2>2 DEF SetDdsWriter
    <2>5. \A dropped \in BOOLEAN : SwapDdsWriter(dropped) => Writers'
        BY <1>1, <2>2 DEF SwapDdsWriter
    <2>6. DeleteDdsWriter => Writers'
        BY <1>1 DEF DeleteDdsWriter
    <2>7. DropSubscriber => Writers'
        BY <1>1 DEF DropSubscriber, DataInv, RoutesInv, Idle
    <2>8. Writers'
        BY <1>8, <2>3, <2>4, <2>5, <2>6, <2>7 DEF ToDdsEventLoop
    <2> QED
        BY <1>5, <1>6, <1>8, <2>1, <2>8 DEF StaleInv, Writing, Task
<1>9. CASE Idle /\ FromDdsEventLoop /\ UNCHANGED to_dds_vars
    <2>1. UNCHANGED <<samples_vars, route_vars>>
        BY <1>9 DEF to_dds_vars
    <2>2. FromDdsTypeOK /\ entity \in [Handle -> {0} \cup Instance]
        BY DEF DataInv, TasksInv, HandlesInv, HandlesTypeOK
    <2>3. ASSUME NEW g \in Handle, NewRouteFromDds(g), NEW i \in Instance
          PROVE  Task(i)'
        <3>1. CASE i = NextInstance
            <4>1. /\ handle' = [handle EXCEPT ![i] = g]
                  /\ entity' = [entity EXCEPT ![g] = i]
                BY <2>3, <3>1 DEF NewRouteFromDds, dds_create
            <4>2. \A h \in Handle : entity[h] # i
                BY <3>1, <1>2, Constants DEF NextInstance, DataInv, HandlesInv, Instance
            <4> QED
                BY <2>2, <4>1, <4>2 DEF Task, FromDdsTypeOK
        <3>2. CASE i # NextInstance
            BY <1>4, <2>2, <2>3, <3>2 DEF NewRouteFromDds, FromDdsTypeOK
        <3> QED
            BY <3>1, <3>2
    <2>4. DropRouteFromDds => \A i \in Instance : Task(i)'
        BY <1>4 DEF DropRouteFromDds
    <2> QED
        BY <1>5, <1>7, <1>9, <2>1, <2>3, <2>4 DEF StaleInv, Writing, Task, FromDdsEventLoop
<1>10. ASSUME NEW s \in Sample, SubscriberCallback(s) \/ PollDdsWriter(s),
              UNCHANGED from_dds_vars
       PROVE  StaleInv'
    <2>1. Writing(s)' /\ Writers'
        BY <1>7, <1>10, LoadStep DEF Writing
    <2>2. \A t \in Sample \ {s} : Writing(t)'
        BY <1>3, <1>10, LoadStep
    <2> QED
        BY <1>6, <1>10, <2>1, <2>2 DEF StaleInv, Writing, Task
<1>11. ASSUME NEW s \in Sample, do_route_data(s), UNCHANGED from_dds_vars
       PROVE  StaleInv'
    <2>1. /\ state \in [Sample -> SampleState]
          /\ loaded \in [Sample -> AnyHandle]
          /\ writer_loaded \in [Sample -> {0} \cup Instance]
        BY DEF DataInv, RoutesInv, ToDdsTypeOK
    <2>2. /\ state'[s] # "writing"
          /\ \A t \in Sample \ {s} : UNCHANGED <<state[t], loaded[t], writer_loaded[t]>>
          /\ Writers'
        BY <1>7, <1>11, <2>1 DEF do_route_data
    <2> QED
        BY <1>3, <1>6, <1>11, <2>2 DEF StaleInv, Writing, Task
<1>12. ASSUME NEW i \in Instance, FromDdsTask(i) \/ Receive(i), UNCHANGED to_dds_vars
       PROVE  StaleInv'
    <2>1. FromDdsTypeOK
        BY DEF DataInv, TasksInv
    <2>2. \A j \in Instance \ {i} : task'[j] = task[j] /\ handle'[j] = handle[j]
        BY <1>12, <2>1 DEF FromDdsTask, StartTask, CheckReader, WakeUp, Take, Receive,
                           FromDdsTypeOK
    <2>3. \/ task'[i] = "ended"
          \/ /\ handle'[i] = handle[i]
             /\ task'[i] \notin {"none", "ended"} => task[i] \notin {"none", "ended"}
        BY <1>12, <2>1 DEF FromDdsTask, StartTask, CheckReader, WakeUp, Take, Receive,
                           FromDdsTypeOK
    <2>4. \A j \in Instance : Task(j)'
        BY <1>4, <2>2, <2>3 DEF Task
    <2>5. UNCHANGED <<samples_vars, route_vars>>
        BY <1>12 DEF to_dds_vars
    <2> QED
        BY <1>5, <1>7, <2>4, <2>5 DEF StaleInv, Writing, Task
<1>13. CASE UNCHANGED data_vars
    BY <1>5, <1>6, <1>7, <1>13 DEF data_vars, to_dds_vars, StaleInv, Writing, Task
<1> QED
    BY <1>8, <1>9, <1>10, <1>11, <1>12, <1>13 DEF DataNext, EventLoop, Threads, ToDdsTask

\* Both invariants hold in every state.
LEMMA StaleInvariance == DataSpec => [](DataInv /\ StaleInv)
BY DataInitInv, DataStep, StaleInit, StaleStep, PTL DEF DataSpec

-----------------------------------------------------------------------------
(* What a step may never do. *)

Settled == {"routed", "misrouted", "lost", "dropped"}

\* The steps that the task of a sample has left at most: the write, and one per poll.
StepsLeft(s) ==
    IF state[s] \in Settled THEN 0
    ELSE IF state[s] = "writing" THEN 1
    ELSE 1 + MaxPolls - polls[s]

\* Each step of a sample's task brings it nearer to its end, no step of another thread
\* takes it back, and what is settled is so for good: it is written at most once.
SettlingStep ==
    \A s \in Sample :
        /\ StepsLeft(s) \in 0..MaxPolls + 1
        /\ StepsLeft(s)' <= StepsLeft(s)
        /\ ToDdsTask(s) => StepsLeft(s)' < StepsLeft(s)
        /\ state[s] \in Settled => state'[s] = state[s]

\* While its reader lives, a periodic task takes the samples of that reader only.
OwnSamplesTaken ==
    \A i \in Instance :
        Take(i) /\ Exists(i) /\ unread' # unread => i \in unread /\ unread' = unread \ {i}

\* The steps left are a number, at most one more than there are polls.
LEMMA StepsLeftBound ==
    ASSUME DataInv, NEW s \in Sample
    PROVE  /\ StepsLeft(s) \in 0..MaxPolls + 1
           /\ state[s] \notin Settled => StepsLeft(s) > 0
           /\ state[s] \in {"coming", "waiting"} => StepsLeft(s) > 1
<1>1. state[s] \in SampleState /\ polls[s] \in 0..MaxPolls
    BY DEF DataInv, RoutesInv, ToDdsTypeOK
<1>2. state[s] \in {"coming", "waiting"} => polls[s] < MaxPolls
    BY DEF DataInv, SamplesInv
<1> QED
    BY <1>1, <1>2, Constants DEF StepsLeft, Settled, SampleState

\* The callback and the task move the one sample they have,
LEMMA OwnSample ==
    ASSUME DataInv, NEW s \in Sample, SubscriberCallback(s) \/ ToDdsTask(s)
    PROVE  /\ \A t \in Sample \ {s} : state'[t] = state[t] /\ polls'[t] = polls[t]
           /\ state[s] \notin Settled
           /\ StepsLeft(s)' <= StepsLeft(s)
           /\ ToDdsTask(s) => StepsLeft(s)' < StepsLeft(s)
<1>1. /\ state \in [Sample -> SampleState] /\ polls \in [Sample -> 0..MaxPolls]
      /\ state[s] \in {"coming", "waiting"} => polls[s] < MaxPolls
    BY DEF DataInv, RoutesInv, ToDdsTypeOK, SamplesInv
<1>2. CASE SubscriberCallback(s)
    <2>1. /\ state[s] = "coming" /\ polls' = polls
          /\ \/ state' = [state EXCEPT ![s] = "writing"]
             \/ state' = [state EXCEPT ![s] = "waiting"]
        BY <1>2 DEF SubscriberCallback, load
    <2>2. ~ ToDdsTask(s)
        BY <2>1 DEF ToDdsTask, PollDdsWriter, do_route_data
    <2> QED
        BY <1>1, <2>1, <2>2, Constants DEF StepsLeft, Settled
<1>3. CASE PollDdsWriter(s)
    <2>1. /\ state[s] = "waiting" /\ polls' = [polls EXCEPT ![s] = polls[s] + 1]
          /\ \E next \in {"writing", "dropped", "waiting"} : state' = [state EXCEPT ![s] = next]
        BY <1>3 DEF PollDdsWriter, load
    <2> QED
        BY <1>1, <2>1, Constants DEF StepsLeft, Settled
<1>4. CASE do_route_data(s)
    <2>1. /\ state[s] = "writing" /\ polls' = [polls EXCEPT ![s] = 0]
          /\ \E next \in {"routed", "misrouted", "lost"} : state' = [state EXCEPT ![s] = next]
        BY <1>4 DEF do_route_data
    <2> QED
        BY <1>1, <2>1 DEF StepsLeft, Settled
<1> QED
    BY <1>2, <1>3, <1>4 DEF ToDdsTask

\* and nobody else moves one.
LEMMA SamplesStay ==
    ASSUME DataInv, [DataNext]_data_vars
    PROVE  \/ UNCHANGED <<state, polls>> /\ \A s \in Sample : ~ ToDdsTask(s)
           \/ \E s \in Sample : SubscriberCallback(s) \/ ToDdsTask(s)
<1>1. CASE UNCHANGED samples_vars
    <2>1. UNCHANGED <<state, polls>>
        BY <1>1 DEF samples_vars
    <2> QED
        BY <2>1
<1> QED
    BY <1>1 DEF DataNext, EventLoop, Threads, data_vars, to_dds_vars, ToDdsEventLoop,
        NewRouteToDds, SetDdsWriter, SwapDdsWriter, DeleteDdsWriter, DropSubscriber

\* Every sample is settled after at most one step more than there are polls, and for
\* good: the part of SamplesSettled that fairness adds nothing to (the callback and the
\* task of route_zenoh_dds.rs).
THEOREM SettlingProgresses == DataSpec => [][SettlingStep]_data_vars
<1>1. ASSUME DataInv, [DataNext]_data_vars PROVE [SettlingStep]_data_vars
    <2> SUFFICES ASSUME NEW s \in Sample
                 PROVE  /\ StepsLeft(s) \in 0..MaxPolls + 1
                        /\ StepsLeft(s)' <= StepsLeft(s)
                        /\ ToDdsTask(s) => StepsLeft(s)' < StepsLeft(s)
                        /\ state[s] \in Settled => state'[s] = state[s]
        BY DEF SettlingStep
    <2>1. StepsLeft(s) \in Nat
        BY <1>1, StepsLeftBound, Constants
    <2>2. UNCHANGED <<state[s], polls[s]>> => StepsLeft(s)' = StepsLeft(s)
        BY DEF StepsLeft
    <2>3. CASE UNCHANGED <<state, polls>> /\ \A t \in Sample : ~ ToDdsTask(t)
        BY <1>1, <2>1, <2>2, <2>3, StepsLeftBound
    <2>4. ASSUME NEW t \in Sample, SubscriberCallback(t) \/ ToDdsTask(t), ~ ToDdsTask(s), t # s
          PROVE  StepsLeft(s)' <= StepsLeft(s) /\ state'[s] = state[s]
        BY <1>1, <2>1, <2>2, <2>4, OwnSample
    <2>5. ASSUME SubscriberCallback(s) \/ ToDdsTask(s)
          PROVE  /\ StepsLeft(s)' <= StepsLeft(s)
                 /\ ToDdsTask(s) => StepsLeft(s)' < StepsLeft(s)
                 /\ state[s] \notin Settled
        BY <1>1, <2>5, OwnSample
    <2> QED
        BY <1>1, <2>3, <2>4, <2>5, SamplesStay, StepsLeftBound
<1> QED
    BY <1>1, DataInvariance, PTL DEF DataSpec

\* A sample never misses a DDS writer that lives: only delete_dds_writer between the
\* load of the handle and do_route_data loses or misroutes it, however the handles of
\* other entities are given again.
THEOREM LostToDeletionOnly == DataSpec => LostToDeletion
<1>1. ASSUME DataInv, StaleInv, [DataNext]_data_vars
      PROVE  [\A s \in Sample : Misses(s) => ~ Exists(writer_loaded[s])]_data_vars
    <2> SUFFICES ASSUME NEW s \in Sample, state'[s] # state[s],
                        state'[s] \in {"misrouted", "lost"}
                 PROVE  ~ Exists(writer_loaded[s])
        BY DEF Misses
    <2>1. state \in [Sample -> SampleState]
        BY <1>1 DEF DataInv, RoutesInv, ToDdsTypeOK
    <2>2. PICK t \in Sample : SubscriberCallback(t) \/ ToDdsTask(t)
        BY <1>1, SamplesStay
    <2>3. t = s
        BY <1>1, <2>2, OwnSample
    <2>4. CASE do_route_data(s)
        <3>1. state[s] = "writing" /\ entity[loaded[s]] # writer_loaded[s]
            BY <2>1, <2>4 DEF do_route_data
        <3>2. \A h \in Handle : entity[h] = writer_loaded[s] => h = loaded[s]
            BY <1>1, <3>1 DEF StaleInv
        <3> QED
            BY <3>1, <3>2 DEF Exists
    <2>5. CASE SubscriberCallback(s) \/ PollDdsWriter(s)
        BY <2>1, <2>5 DEF SubscriberCallback, PollDdsWriter, load
    <2> QED
        BY <2>2, <2>3, <2>4, <2>5 DEF ToDdsTask
<1> QED
    BY <1>1, StaleInvariance, PTL DEF DataSpec, LostToDeletion

\* The task of create_forwarding_dds_reader puts samples of another reader only after
\* its own was deleted.
THEOREM OwnSamplesOnly == DataSpec => [][OwnSamplesTaken]_data_vars
<1>1. ASSUME DataInv, StaleInv PROVE OwnSamplesTaken
    <2> SUFFICES ASSUME NEW i \in Instance, Take(i), Exists(i), unread' # unread
                 PROVE  i \in unread /\ unread' = unread \ {i}
        BY DEF OwnSamplesTaken
    <2>1. task[i] = "taking" /\ entity[handle[i]] \in unread
          /\ unread' = unread \ {entity[handle[i]]}
        BY DEF Take
    <2>2. PICK h \in Handle : entity[h] = i
        BY DEF Exists
    <2>3. h = handle[i]
        BY <1>1, <2>1, <2>2 DEF StaleInv
    <2> QED
        BY <2>1, <2>2, <2>3
<1> QED
    BY <1>1, StaleInvariance, PTL DEF DataSpec
=============================================================================
