---------------------------- MODULE DdsDiscovery ----------------------------
(***************************************************************************)
(* How the entities of the DDS domain reach the bridge's event loop.       *)
(*                                                                         *)
(* Cyclone DDS keeps, in three builtin readers, one sample per entity of   *)
(* the domain (KEEP_LAST 1): a second change of an entity overwrites the   *)
(* sample of the first when that was not taken yet.  on_data, a listener   *)
(* called by threads of DDS, takes the samples in any order and sends an   *)
(* event for each on an unbounded channel, which the event loop receives   *)
(* in order.  A listener takes up to 32 samples in one call; here a call   *)
(* takes one, as its iterations share nothing but the channel.             *)
(*                                                                         *)
(* The bridge's own participant, readers and writers are entities of the   *)
(* same domain, so the builtin readers hold samples for them too.          *)
(***************************************************************************)
EXTENDS KeyMapping, QosAdaptation, Naturals, FiniteSets

CONSTANTS
    Writer, Reader, Participant,    \* entities of other participants
    TopicOf,                        \* [Writer \cup Reader -> Topic]
    PartitionsOf,                   \* [Writer \cup Reader -> SUBSET Partition]
    QosOf,                          \* [Writer \cup Reader -> Qos]
    BuiltinTopic,                   \* topics whose name starts with "DCPS"
    Self,                           \* the bridge's own participant
    MaxPending                      \* bound: changes of the domain not handled yet

Endpoint == Writer \cup Reader

Foreign == Endpoint \cup Participant

\* The reader, or writer, the bridge creates for the route of a key expression.
OwnReader(ke) == <<"own reader", ke>>
OwnWriter(ke) == <<"own writer", ke>>

OwnReaders == {OwnReader(ke) : ke \in Key}
OwnWriters == {OwnWriter(ke) : ke \in Key}

OwnEndpoint == OwnReaders \cup OwnWriters

Own == OwnEndpoint \cup {Self}

Entity == Foreign \cup Own

EntitiesAssumption ==
    /\ Writer \cap Reader = {}
    /\ Endpoint \cap Participant = {}
    /\ Foreign \cap Own = {}
    /\ Self \notin OwnEndpoint
    /\ TopicOf \in [Endpoint -> Topic]
    /\ PartitionsOf \in [Endpoint -> SUBSET Partition]
    /\ QosOf \in [Endpoint -> Qos]
    /\ MaxPending \in Nat

ASSUME EntitiesAssumption

\* One route per partition, or just one if there is no partition.
SlotsOf(e) == IF PartitionsOf[e] = {} THEN {NoPartition} ELSE PartitionsOf[e]

KeyFor(e, p) == topic_to_keyexpr(TopicOf[e], Scope, p)

\* An entity whose discovery the bridge reacts to.
Visible == {e \in Foreign : e \in Endpoint => TopicOf[e] \notin BuiltinTopic}

VARIABLES
    alive,      \* the entities that exist in the domain
    builtin,    \* the builtin sample not yet taken, per entity
    disco       \* the channel of DiscoveryEvents

disco_vars == <<alive, builtin, disco>>

DiscoveryEvent == [discovered : BOOLEAN, key : Entity]

\* Of the bridge's own endpoints only an undiscovery can be in the channel:
\* on_data filters their discovery, which the loop would answer with a route
\* that feeds itself.
DiscoTypeOK ==
    /\ alive \in SUBSET Entity
    /\ builtin \in [Entity -> {"taken", "alive", "disposed"}]
    /\ disco \in Seq(DiscoveryEvent)
    /\ \A i \in DOMAIN disco :
            disco[i].key \in Own => disco[i].key # Self /\ ~ disco[i].discovered

DiscoInit ==
    /\ alive = {Self}
    /\ builtin = [e \in Entity |-> IF e = Self THEN "alive" ELSE "taken"]
    /\ disco = <<>>

-----------------------------------------------------------------------------
(* The domain: entities appear, change a policy, disappear, and may appear  *)
(* again under the same GUID when a lease expired and is renewed.           *)

\* The effect on the domain of entities appearing and disappearing.
EntitiesChange(born, dead) ==
    /\ alive' = (alive \cup born) \ dead
    /\ builtin' = [e \in Entity |-> IF e \in dead THEN "disposed"
                                    ELSE IF e \in born THEN "alive"
                                    ELSE builtin[e]]

Pending == Len(disco) + Cardinality({e \in Foreign : builtin[e] # "taken"})

Change(born, dead) ==
    /\ Pending < MaxPending
    /\ EntitiesChange(born, dead)
    /\ UNCHANGED disco

Appear(e) == e \notin alive /\ Change({e}, {})

\* A mutable policy changes: the builtin sample is published again.
Update(e) == e \in alive /\ Change({e}, {})

Disappear(e) == e \in alive /\ Change({}, {e})

-----------------------------------------------------------------------------
(* The listener. *)

bounded_send_discovery_event(event) ==
    disco' = IF Len(disco) < 1 THEN Append(disco, event) ELSE disco

lifo_send_discovery_event(event) == disco' = <<event>> \o disco

\* The channel is unbounded: try_send fails only when the loop has ended.
send_discovery_event(event) == disco' = Append(disco, event)

own_not_ignored(e) ==
    builtin[e] = "alive" /\ e \in Endpoint /\ TopicOf[e] \in BuiltinTopic

\* Does on_data ignore the sample?  It recognises its own participant by its
\* key, and its own endpoints by the participant handle of the sample.
ignored(e) ==
    \/ e = Self
    \/ builtin[e] = "alive" /\ e \in OwnEndpoint
    \/ builtin[e] = "alive" /\ e \in Endpoint /\ TopicOf[e] \in BuiltinTopic

\* Only the key of a disposed sample is specified, so whether its participant
\* handle identifies an endpoint of the bridge is left open (and bounded).
maybe_ignored(e) == e \in OwnEndpoint /\ builtin[e] = "disposed"

event_of(e) == [discovered |-> builtin[e] = "alive", key |-> e]

on_data(e) ==
    /\ builtin[e] # "taken"
    /\ builtin' = [builtin EXCEPT ![e] = "taken"]
    /\ \/ (ignored(e) \/ maybe_ignored(e)) /\ UNCHANGED disco
       \/ /\ ~ ignored(e)
          /\ maybe_ignored(e) => Len(disco) < MaxPending
          /\ send_discovery_event(event_of(e))
    /\ UNCHANGED alive

-----------------------------------------------------------------------------
(* The event loop receives the events in order. *)

Receive(event) ==
    /\ disco # <<>>
    /\ Head(disco) = event
    /\ disco' = Tail(disco)

Discovered(e) == [discovered |-> TRUE, key |-> e]
Undiscovered(e) == [discovered |-> FALSE, key |-> e]

-----------------------------------------------------------------------------
(* What a quiet system has learnt. *)

Quiet == disco = <<>> /\ \A e \in Entity : builtin[e] = "taken"
=============================================================================
