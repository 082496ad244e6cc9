------------------------------ MODULE DataToDds ------------------------------
(***************************************************************************)
(* The data of the routes from Zenoh to DDS (route_zenoh_dds.rs).          *)
(*                                                                         *)
(* Three threads meet at a route's dds_writer, an atomic handle shared by  *)
(* an Arc: the event loop sets and deletes the DDS writer, the callback of *)
(* the Zenoh subscriber routes a sample with the handle it loads, and when *)
(* there is none spawns a task that polls for it.  Between loading and     *)
(* writing the handle may become stale.  The routes of one key follow each *)
(* other, each with an Arc of its own.                                     *)
(***************************************************************************)
EXTENDS DdsHandles

CONSTANTS
    Sample,     \* the samples received, once each
    MaxPolls,   \* the polls of a waiting task, 29 in the code
    MaxRoutes   \* bound: routes created on the key

ToDdsAssumption == MaxPolls \in Nat \ {0} /\ MaxRoutes \in Nat

ASSUME ToDdsAssumption

Route == 1..MaxRoutes

VARIABLES
    routes,         \* how many routes were created on the key
    subscribed,     \* does the last of them still exist?
    dds_writer,     \* per route the handle in its Arc
    dropping,       \* is it being dropped?
    deleting,       \* the handle that delete_dds_writer swapped out, not yet deleted
    state,          \* what happened to each sample
    route_of,       \* the route whose callback received the sample
    polls,          \* how often its task has polled
    loaded,         \* the handle its callback or task has loaded
    writer_loaded   \* the instance handle behind it at that moment
                    \*   (these are forgotten when the sample is settled)

route_vars == <<routes, subscribed, dds_writer, dropping, deleting>>
samples_vars == <<state, route_of, polls, loaded, writer_loaded>>
to_dds_vars == <<route_vars, samples_vars>>

SampleState == {"coming", "waiting", "writing", "routed", "misrouted", "lost", "dropped"}

AnyHandle == Handle \cup {DDS_ENTITY_NULL}

ToDdsTypeOK ==
    /\ routes \in {0} \cup Route
    /\ subscribed \in BOOLEAN
    /\ dds_writer \in [Route -> AnyHandle]
    /\ dropping \in BOOLEAN
    /\ deleting \in AnyHandle
    /\ state \in [Sample -> SampleState]
    /\ route_of \in [Sample -> {0} \cup Route]
    /\ polls \in [Sample -> 0..MaxPolls]
    /\ loaded \in [Sample -> AnyHandle]
    /\ writer_loaded \in [Sample -> {0} \cup Instance]

ToDdsInit ==
    /\ routes = 0
    /\ subscribed = FALSE
    /\ dds_writer = [r \in Route |-> DDS_ENTITY_NULL]
    /\ dropping = FALSE
    /\ deleting = DDS_ENTITY_NULL
    /\ state = [s \in Sample |-> "coming"]
    /\ route_of = [s \in Sample |-> 0]
    /\ polls = [s \in Sample |-> 0]
    /\ loaded = [s \in Sample |-> DDS_ENTITY_NULL]
    /\ writer_loaded = [s \in Sample |-> 0]

-----------------------------------------------------------------------------
(* The event loop. *)

\* Is the event loop not in the middle of a deletion or drop?
Idle == ~ dropping /\ deleting = DDS_ENTITY_NULL

\* A route has no DDS writer until set_dds_writer.
NewRouteToDds ==
    /\ Idle /\ ~ subscribed
    /\ routes < MaxRoutes
    /\ routes' = routes + 1
    /\ subscribed' = TRUE
    /\ UNCHANGED <<dds_writer, dropping, deleting, samples_vars, handle_vars>>

\* Only the event loop sets the handle, so that compare_exchange succeeds.
SetDdsWriter(h) ==
    /\ Idle /\ subscribed
    /\ dds_writer[routes] = DDS_ENTITY_NULL
    /\ dds_create(h, "writer")
    /\ dds_writer' = [dds_writer EXCEPT ![routes] = h]
    /\ UNCHANGED <<routes, subscribed, dropping, deleting, samples_vars>>

SwapWithoutDelete(dropped) ==
    /\ Idle /\ subscribed
    /\ dropped \/ dds_writer[routes] # DDS_ENTITY_NULL
    /\ dds_writer' = [dds_writer EXCEPT ![routes] = DDS_ENTITY_NULL]
    /\ dropping' = dropped
    /\ UNCHANGED <<routes, subscribed, deleting, samples_vars, handle_vars>>

\* The swap, of a route that stays or is dropped; the deletion follows.
SwapDdsWriter(dropped) ==
    /\ Idle /\ subscribed
    /\ dropped \/ dds_writer[routes] # DDS_ENTITY_NULL
    /\ deleting' = dds_writer[routes]
    /\ dds_writer' = [dds_writer EXCEPT ![routes] = DDS_ENTITY_NULL]
    /\ dropping' = dropped
    /\ UNCHANGED <<routes, subscribed, samples_vars, handle_vars>>

DeleteDdsWriter ==
    /\ deleting # DDS_ENTITY_NULL
    /\ dds_delete(deleting)
    /\ deleting' = DDS_ENTITY_NULL
    /\ UNCHANGED <<routes, subscribed, dropping, dds_writer, samples_vars>>

\* The fields of a dropped route, its subscriber among them, are dropped last.
DropSubscriber ==
    /\ dropping /\ deleting = DDS_ENTITY_NULL
    /\ subscribed' = FALSE
    /\ dropping' = FALSE
    /\ UNCHANGED <<routes, dds_writer, deleting, samples_vars, handle_vars>>

-----------------------------------------------------------------------------
(* The subscriber's callback and the tasks it spawns. *)

\* What a callback or a task finds that loads the handle of route r.
load(s, r, otherwise) ==
    /\ loaded' = [loaded EXCEPT ![s] = dds_writer[r]]
    /\ IF dds_writer[r] # DDS_ENTITY_NULL
       THEN /\ state' = [state EXCEPT ![s] = "writing"]
            /\ writer_loaded' = [writer_loaded EXCEPT ![s] = entity[dds_writer[r]]]
       ELSE /\ state' = [state EXCEPT ![s] = otherwise]
            /\ UNCHANGED writer_loaded

\* The callback is called for each sample, by any thread of Zenoh; without a DDS
\* writer a task is spawned for the sample.
SubscriberCallback(s) ==
    /\ subscribed
    /\ state[s] = "coming"
    /\ route_of' = [route_of EXCEPT ![s] = routes]
    /\ load(s, routes, "waiting")
    /\ UNCHANGED <<route_vars, polls, handle_vars>>

\* A task that polls once too often, one that never gives up, and one that keeps
\* what the callback loaded.
OneMorePoll(s) ==
    /\ state[s] = "waiting"
    /\ polls' = [polls EXCEPT ![s] = polls[s] + 1]
    /\ load(s, route_of[s], IF polls[s] + 1 > MaxPolls THEN "dropped" ELSE "waiting")
    /\ UNCHANGED <<route_vars, route_of, handle_vars>>

EndlessPoll(s) ==
    /\ state[s] = "waiting"
    /\ polls' = [polls EXCEPT ![s] = 1]
    /\ load(s, route_of[s], "waiting")
    /\ UNCHANGED <<route_vars, route_of, handle_vars>>

PollOfLoaded(s) ==
    /\ state[s] = "waiting"
    /\ polls' = [polls EXCEPT ![s] = polls[s] + 1]
    /\ state' = [state EXCEPT ![s] = IF loaded[s] # DDS_ENTITY_NULL THEN "writing"
                                     ELSE IF polls[s] + 1 = MaxPolls THEN "dropped"
                                     ELSE "waiting"]
    /\ UNCHANGED <<loaded, writer_loaded>>
    /\ UNCHANGED <<route_vars, route_of, handle_vars>>

\* The task wakes up; after the last poll it ends and the sample is dropped.
PollDdsWriter(s) ==
    /\ state[s] = "waiting"
    /\ polls' = [polls EXCEPT ![s] = polls[s] + 1]
    /\ load(s, route_of[s], IF polls[s] + 1 = MaxPolls THEN "dropped" ELSE "waiting")
    /\ UNCHANGED <<route_vars, route_of, handle_vars>>

\* A write with the handle that the route has by then.
RouteDataReloaded(s) ==
    /\ state[s] = "writing"
    /\ LET h == dds_writer[route_of[s]] IN
       state' = [state EXCEPT ![s] = IF h # DDS_ENTITY_NULL /\ entity[h] = writer_loaded[s]
                                     THEN "routed" ELSE "lost"]
    /\ polls' = [polls EXCEPT ![s] = 0]
    /\ loaded' = [loaded EXCEPT ![s] = DDS_ENTITY_NULL]
    /\ writer_loaded' = [writer_loaded EXCEPT ![s] = 0]
    /\ UNCHANGED <<route_vars, route_of, handle_vars>>

\* With the handle of a deleted entity, or of a reader, the sample is lost; with a
\* handle given to another writer it is written there.
do_route_data(s) ==
    /\ state[s] = "writing"
    /\ LET now == entity[loaded[s]] IN
       state' = [state EXCEPT ![s] = IF now = writer_loaded[s] THEN "routed"
                                     ELSE IF now # 0 /\ kind[now] = "writer" THEN "misrouted"
                                     ELSE "lost"]
    /\ polls' = [polls EXCEPT ![s] = 0]
    /\ loaded' = [loaded EXCEPT ![s] = DDS_ENTITY_NULL]
    /\ writer_loaded' = [writer_loaded EXCEPT ![s] = 0]
    /\ UNCHANGED <<route_vars, route_of, handle_vars>>

ToDdsTask(s) == PollDdsWriter(s) \/ do_route_data(s)

ToDdsEventLoop ==
    \/ NewRouteToDds
    \/ \E h \in Handle : SetDdsWriter(h)
    \/ SwapDdsWriter(TRUE)
    \/ SwapDdsWriter(FALSE)
    \/ DeleteDdsWriter
    \/ DropSubscriber

ToDdsNext ==
    \/ ToDdsEventLoop
    \/ \E s \in Sample : SubscriberCallback(s) \/ ToDdsTask(s)
=============================================================================
