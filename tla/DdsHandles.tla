----------------------------- MODULE DdsHandles -----------------------------
(***************************************************************************)
(* The handles (dds_entity_t) that Cyclone DDS gives the bridge for its    *)
(* readers and writers.  The handle of a deleted entity may be given to a  *)
(* later one; the instance handle of an entity is never given again.       *)
(***************************************************************************)
EXTENDS Naturals

CONSTANTS
    Handle,         \* the valid handles
    DDS_ENTITY_NULL,
    MaxCreations    \* bound: entities created in all

HandlesAssumption == DDS_ENTITY_NULL \notin Handle /\ MaxCreations \in Nat

ASSUME HandlesAssumption

Instance == 1..MaxCreations

VARIABLES
    entity,     \* per handle the instance handle of the entity, 0 if there is none
    kind,       \* per instance handle "reader" or "writer", "none" before its creation
    created     \* how many entities were created

handle_vars == <<entity, kind, created>>

HandlesTypeOK ==
    /\ entity \in [Handle -> {0} \cup Instance]
    /\ kind \in [Instance -> {"none", "reader", "writer"}]
    /\ created \in {0} \cup Instance

HandlesInit ==
    /\ entity = [h \in Handle |-> 0]
    /\ kind = [i \in Instance |-> "none"]
    /\ created = 0

Exists(i) == \E h \in Handle : entity[h] = i

\* The instance handle the next entity gets.
NextInstance == created + 1

dds_create(h, what) ==
    /\ created < MaxCreations
    /\ entity[h] = 0
    /\ entity' = [entity EXCEPT ![h] = NextInstance]
    /\ kind' = [kind EXCEPT ![NextInstance] = what]
    /\ created' = NextInstance

dds_delete(h) ==
    /\ entity' = [entity EXCEPT ![h] = 0]
    /\ UNCHANGED <<kind, created>>

\* dds_get_instance_handle, 0 where it fails.
dds_get_instance_handle(h) == entity[h]
=============================================================================
