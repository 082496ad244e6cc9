--------------------------- MODULE MCFwdDiscovery ---------------------------
(***************************************************************************)
(* Instances of FwdDiscovery for TLC.                                      *)
(***************************************************************************)
EXTENDS FwdDiscovery, TLC

CONSTANTS w1, r1, r2, p1, xw, yw, xr, yr, X, Y

A == <<"a">>
Ros == <<"ros_discovery_info">>
P == <<"p">>
Q == <<"q">>

MCTopic == {A}
MCTopicRos == {A, Ros}
MCPartition == {P, Q}
MCNoPartition == {}
MCScope == <<>>
MCNone == {}
MCDeny == {Q \o A}
MCRos == {Ros}
MCMayFail == {A}
MCMayFailP == {P \o A}

MCTopicOf == [e \in Endpoint |-> A]
AllPartitions == w1 :> {P} @@ r1 :> {P} @@ r2 :> {P, Q}
MCPartitionsOf == [e \in Endpoint |-> AllPartitions[e]]
MCUnpartitioned == [e \in Endpoint |-> {}]

Volatile == [durability |-> "VOLATILE", reliability |-> "RELIABLE"]
Latched == [durability |-> "TRANSIENT_LOCAL", reliability |-> "RELIABLE"]
MCQosOf == [e \in Endpoint |-> Volatile]

\* X has a writer and a reader; Y a writer and a reader on the same keys.
AllPlugins == xw :> X @@ xr :> X @@ yw :> Y @@ yr :> Y
MCPluginOf == [x \in Remote |-> AllPlugins[x]]
MCRemoteTopicOf == [x \in Remote |-> A]
MCRemoteRos == [x \in Remote |-> IF x = yw THEN Ros ELSE A]
AllRemotePartitions == xw :> {P, Q} @@ xr :> {P} @@ yw :> {P} @@ yr :> {P}
MCRemotePartitionsOf == [x \in Remote |-> AllRemotePartitions[x]]
MCRemoteUnpartitioned == [x \in Remote |-> {}]
MCRemoteQosOf == [x \in Remote |-> Latched]
MCRemoteScopeOf == [plugin \in Plugin |-> MCScope]
=============================================================================
