------------------------------ MODULE DataPaths ------------------------------
(***************************************************************************)
(* The data of the bridge: a key with routes to DDS and a key with         *)
(* periodic routes from DDS.  They share the event loop, which does one    *)
(* thing at a time, and the handles of Cyclone DDS.                        *)
(***************************************************************************)
EXTENDS DataToDds, DataFromDds

data_vars == <<handle_vars, to_dds_vars, from_dds_vars>>

DataInit == HandlesInit /\ ToDdsInit /\ FromDdsInit

\* Deleting a DDS writer and dropping a route are one call of the event loop.
EventLoop ==
    \/ ToDdsEventLoop /\ UNCHANGED from_dds_vars
    \/ /\ Idle
       /\ FromDdsEventLoop
       /\ UNCHANGED to_dds_vars

\* The callback of the subscriber, the tasks, and the writers of the domain.
Threads ==
    \/ /\ \E s \in Sample : SubscriberCallback(s) \/ ToDdsTask(s)
       /\ UNCHANGED from_dds_vars
    \/ /\ \E i \in Instance : FromDdsTask(i) \/ Receive(i)
       /\ UNCHANGED to_dds_vars

DataNext == EventLoop \/ Threads

DataSpec == DataInit /\ [][DataNext]_data_vars

\* The tasks of the runtime are scheduled, sleeps end, and the Zenoh session writes
\* what its callback loaded.  Nothing is asked of the event loop.
DataFairness ==
    /\ \A s \in Sample : WF_to_dds_vars(ToDdsTask(s))
    /\ \A i \in Instance : WF_from_dds_vars(FromDdsTask(i))

DataFairSpec == DataSpec /\ DataFairness

-----------------------------------------------------------------------------
(* Properties. *)

\* Every variable has its type, and a live DDS entity has one handle.
DataTypeOK ==
    /\ HandlesTypeOK /\ ToDdsTypeOK /\ FromDdsTypeOK
    /\ \A g, h \in Handle : entity[g] = entity[h] => g = h \/ entity[g] = 0

\* The event loop never loses a DDS entity: each is held by a route, or about to be
\* deleted, and what a route holds is an entity of the route's own kind, whatever
\* became of the handles in between.
EntitiesHeld ==
    LET current == IF subscribed THEN {dds_writer[routes]} ELSE {} IN
    \A h \in Handle :
        /\ entity[h] # 0 => h \in current \cup {deleting, dds_reader}
        /\ h \in current \cup {deleting} => entity[h] # 0 /\ kind[entity[h]] = "writer"
        /\ h = dds_reader => entity[h] # 0 /\ kind[entity[h]] = "reader"

\* A task that knows its own reader's instance handle begins at most one period
\* after that reader is deleted, whichever entity got the reader's handle.
OneLatePeriod == \A i \in Instance : original[i] = i => late[i] <= 1

Misses(s) == state'[s] # state[s] /\ state'[s] \in {"misrouted", "lost"}

\* A sample is misrouted or lost only when the DDS writer whose handle was loaded for it
\* is deleted before the write: as long as that writer lives, it is written there,
\* whatever else is created or deleted in between.
LostToDeletion ==
    [][\A s \in Sample : Misses(s) => ~ Exists(writer_loaded[s])]_data_vars

\* "The data must be routed at no higher rate than associated max frequency": a
\* task puts at most one sample of an instance per period.
AtMostOnePerPeriod == \A i \in Instance : forwarded[i] <= 1

\* A received sample is settled: no task waits for a DDS writer for ever, even when
\* its route is gone.
SamplesSettled ==
    \A s \in Sample : state[s] \in {"waiting", "writing"} ~>
                        state[s] \in {"routed", "misrouted", "lost", "dropped"}

HasWriter(r) == r # 0 /\ dds_writer[IF r = 0 THEN 1 ELSE r] # DDS_ENTITY_NULL

\* A sample that waits when its route gets a DDS writer is written on it, unless
\* the route loses that writer.
WaitersServed ==
    \A s \in Sample :
        [](state[s] = "waiting" /\ [](HasWriter(route_of[s])) => <>(state[s] = "routed"))

UnreadBehind(h) == h \in Handle /\ entity[h] \in unread

\* The task of a deleted reader whose instance handle it had read ends, unless a
\* reader that got the handle always has another sample for it.
TasksEnd ==
    \A i \in Instance :
        <>[](original[i] = i /\ ~ Exists(i)) =>
            []<>UnreadBehind(handle[i])
=============================================================================
