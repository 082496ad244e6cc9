-------------------------- MODULE MCLocalDiscovery --------------------------
(***************************************************************************)
(* Instances of LocalDiscovery for TLC.                                    *)
(***************************************************************************)
EXTENDS LocalDiscovery, TLC

CONSTANTS w1, w2, w3, r1, r2, d1, p1

A == <<"a">>            \* the topic most endpoints are on
PA == <<"p", "a">>      \* its key collides with that of A in partition P
Dcps == <<"DCPS">>      \* a builtin topic
P == <<"p">>
Q == <<"q">>

MCTopic == {A, PA}
MCTopicDcps == {A, Dcps}
MCTopicA == {A}
MCPartition == {P, Q}
MCScope == <<>>
MCDeny == {Q \o A}
MCNone == {}
MCBuiltin == {Dcps}

\* w1 and w2 share the key p/a; w3 collides with it from another topic.
AllTopics == w1 :> A @@ w2 :> A @@ w3 :> PA @@ r1 :> A @@ r2 :> A @@ d1 :> Dcps
MCTopicOf == [e \in Endpoint |-> AllTopics[e]]

AllPartitions ==
    w1 :> {P, Q} @@ w2 :> {P} @@ w3 :> {} @@ r1 :> {P} @@ r2 :> {P, Q} @@ d1 :> {Q}
MCPartitionsOf == [e \in Endpoint |-> AllPartitions[e]]

Volatile == [durability |-> "VOLATILE", reliability |-> "RELIABLE"]
Latched == [durability |-> "TRANSIENT_LOCAL", reliability |-> "RELIABLE"]
Unset == [durability |-> "unset", reliability |-> "unset"]

\* The endpoints of one kind have the same QoS.
MCSameQos == [e \in Endpoint |-> IF e \in Writer THEN Unset ELSE Latched]

\* A latched writer and a volatile one on the same key.
MCMixedQos == [e \in Endpoint |-> IF e = w1 THEN Latched ELSE Volatile]

MCMayFail == {P \o A, PA}
=============================================================================
