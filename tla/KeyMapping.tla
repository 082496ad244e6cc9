----------------------------- MODULE KeyMapping -----------------------------
(***************************************************************************)
(* How a DDS topic and partition become a Zenoh key expression, and which  *)
(* key expressions the configuration allows to be routed.                  *)
(*                                                                         *)
(* A name (scope, partition, topic) is the sequence of its '/'-separated   *)
(* chunks, so that joining names is concatenation and two different pairs  *)
(* (partition, topic) may give the same key expression.                    *)
(***************************************************************************)
EXTENDS Sequences

CONSTANTS
    Topic,              \* DDS topic names
    Partition,          \* DDS partition names
    Scope,              \* config.scope; <<>> when there is none
    RemoteScope,        \* the scopes of other bridges whose messages arrive here
    Allow,              \* key expressions the "allow" regex matches, or NoRegex
    Deny,               \* key expressions the "deny" regex matches, or NoRegex
    NoRegex,
    Periodic,           \* key expressions one of "max-frequencies" matches
    ForwardDiscovery,   \* config.forward_discovery
    RosDiscoveryTopic   \* topics whose name ends with "ros_discovery_info"

\* "" is no chunk: an endpoint without partition has the one slot NoPartition,
\* which the code indexes by "*" in DdsEntity.routes.
NoPartition == <<>>

Slot == Partition \cup {NoPartition}

topic_to_keyexpr(topic, scope, slot) == scope \o slot \o topic

Scopes == {Scope} \cup RemoteScope

Key == {topic_to_keyexpr(t, s, p) : t \in Topic, s \in Scopes, p \in Slot}

NamesAssumption == NoPartition \notin Partition /\ ForwardDiscovery \in BOOLEAN

ASSUME NamesAssumption

is_ros_discovery_info(ke) ==
    \E t \in RosDiscoveryTopic, s \in Scopes, p \in Slot :
        ke = topic_to_keyexpr(t, s, p)

is_allowed(ke) ==
    /\ ForwardDiscovery => ~ is_ros_discovery_info(ke)
    /\ Allow # NoRegex => ke \in Allow
    /\ Deny # NoRegex => ke \notin Deny

\* Is the route read periodically by a task rather than by a listener?
get_read_period(ke) == ke \in Periodic
=============================================================================
