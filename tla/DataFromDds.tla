----------------------------- MODULE DataFromDds -----------------------------
(***************************************************************************)
(* The data of the routes from DDS with a maximum frequency (the periodic  *)
(* branch of create_forwarding_dds_reader).                                *)
(*                                                                         *)
(* A task per route takes once per period from a reader that keeps the     *)
(* last sample.  Nobody stops the task when its route is dropped: it       *)
(* recognises the deletion of its reader by the instance handle behind the *)
(* reader's handle, which it reads when it starts and before each period.  *)
(***************************************************************************)
EXTENDS DdsHandles

VARIABLES
    dds_reader,     \* the handle of the route's reader, DDS_ENTITY_NULL without route
    task,           \* per reader where its task is
    handle,         \* per reader the handle its task has
    original,       \* per reader the instance handle its task read first
    unread,         \* the readers with a sample not taken yet
    forwarded,      \* per task the samples it put in this period, up to 2
    late            \* per task the periods it began after its reader's deletion, up to 2
                    \*   (what belongs to a task is forgotten when it ends)

from_dds_vars == <<dds_reader, task, handle, original, unread, forwarded, late>>

TaskState == {"none", "spawned", "checking", "sleeping", "taking", "ended"}

FromDdsTypeOK ==
    /\ dds_reader \in Handle \cup {DDS_ENTITY_NULL}
    /\ task \in [Instance -> TaskState]
    /\ handle \in [Instance -> Handle \cup {DDS_ENTITY_NULL}]
    /\ original \in [Instance -> {0} \cup Instance]
    /\ unread \in SUBSET Instance
    /\ forwarded \in [Instance -> 0..2]
    /\ late \in [Instance -> 0..2]

FromDdsInit ==
    /\ dds_reader = DDS_ENTITY_NULL
    /\ task = [i \in Instance |-> "none"]
    /\ handle = [i \in Instance |-> DDS_ENTITY_NULL]
    /\ original = [i \in Instance |-> 0]
    /\ unread = {}
    /\ forwarded = [i \in Instance |-> 0]
    /\ late = [i \in Instance |-> 0]

upTo2(n) == IF n < 2 THEN n ELSE 2

-----------------------------------------------------------------------------
(* The event loop. *)

\* When the creation fails, the task ends at its first check: it has no effect.
NewRouteFromDds(h) ==
    /\ dds_reader = DDS_ENTITY_NULL
    /\ dds_create(h, "reader")
    /\ dds_reader' = h
    /\ task' = [task EXCEPT ![NextInstance] = "spawned"]
    /\ handle' = [handle EXCEPT ![NextInstance] = h]
    /\ UNCHANGED <<original, unread, forwarded, late>>

DropRouteFromDds ==
    /\ dds_reader # DDS_ENTITY_NULL
    /\ dds_delete(dds_reader)
    /\ dds_reader' = DDS_ENTITY_NULL
    /\ unread' = unread \ {entity[dds_reader]}
    /\ UNCHANGED <<task, handle, original, forwarded, late>>

-----------------------------------------------------------------------------
(* The task of reader i. *)

StartTask(i) ==
    /\ task[i] = "spawned"
    /\ task' = [task EXCEPT ![i] = "checking"]
    /\ original' = [original EXCEPT ![i] = dds_get_instance_handle(handle[i])]
    /\ UNCHANGED <<dds_reader, handle, unread, forwarded, late, handle_vars>>

\* Is there still an entity, and is it the one there was when the task started?
any_entity(i) == dds_get_instance_handle(handle[i]) # 0

same_reader(i) ==
    /\ dds_get_instance_handle(handle[i]) # 0
    /\ dds_get_instance_handle(handle[i]) = original[i]

CheckReader(i) ==
    /\ task[i] = "checking"
    /\ \/ /\ same_reader(i)
          /\ task' = [task EXCEPT ![i] = "sleeping"]
          /\ UNCHANGED <<handle, original, late>>
       \/ /\ ~ same_reader(i)
          /\ task' = [task EXCEPT ![i] = "ended"]
          /\ handle' = [handle EXCEPT ![i] = DDS_ENTITY_NULL]
          /\ original' = [original EXCEPT ![i] = 0]
          /\ late' = [late EXCEPT ![i] = 0]
    /\ UNCHANGED <<dds_reader, unread, forwarded, handle_vars>>

WakeUp(i) ==
    /\ task[i] = "sleeping"
    /\ task' = [task EXCEPT ![i] = "taking"]
    /\ late' = [late EXCEPT ![i] = IF Exists(i) THEN 0 ELSE upTo2(late[i] + 1)]
    /\ UNCHANGED <<dds_reader, handle, original, unread, forwarded, handle_vars>>

\* The task takes and puts as long as there is a sample, from whichever entity has
\* the handle now.
Take(i) ==
    LET reader == entity[handle[i]] IN
    /\ task[i] = "taking"
    /\ \/ /\ reader \in unread
          /\ unread' = unread \ {reader}
          /\ forwarded' = [forwarded EXCEPT ![i] = upTo2(forwarded[i] + 1)]
          /\ UNCHANGED task
       \/ /\ reader \notin unread
          /\ task' = [task EXCEPT ![i] = "checking"]
          /\ forwarded' = [forwarded EXCEPT ![i] = 0]
          /\ UNCHANGED unread
    /\ UNCHANGED <<dds_reader, handle, original, late, handle_vars>>

FromDdsTask(i) == StartTask(i) \/ CheckReader(i) \/ WakeUp(i) \/ Take(i)

-----------------------------------------------------------------------------
(* The DDS domain. *)

\* A writer of the domain publishes; the reader keeps the last sample.
Receive(i) ==
    /\ Exists(i) /\ kind[i] = "reader"
    /\ unread' = unread \cup {i}
    /\ UNCHANGED <<dds_reader, task, handle, original, forwarded, late, handle_vars>>

FromDdsEventLoop ==
    \/ \E h \in Handle : NewRouteFromDds(h)
    \/ DropRouteFromDds

FromDdsNext ==
    \/ FromDdsEventLoop
    \/ \E i \in Instance : FromDdsTask(i) \/ Receive(i)
=============================================================================
