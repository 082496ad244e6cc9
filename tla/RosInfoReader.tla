---------------------------- MODULE RosInfoReader ----------------------------
(***************************************************************************)
(* The poll of ros_discovery_info (RosDiscoveryInfoMgr::read).             *)
(*                                                                         *)
(* The processes of the domain write on one topic, into a reader that      *)
(* keeps all samples.  A timer makes the event loop take them, one by one  *)
(* while the processes go on writing, into a map by the gid of the         *)
(* process, and forward the map's samples.                                 *)
(***************************************************************************)
EXTENDS Sequences, Naturals

CONSTANTS
    RosProcess,     \* the ROS processes of the domain
    MaxHistory      \* bound: samples in the reader

RosReaderAssumption == MaxHistory \in Nat

ASSUME RosReaderAssumption

VARIABLES
    history,        \* the samples in the reader
    latest,         \* the info each process wrote last
    reading,        \* is the event loop in read?
    result,         \* the map read fills
    put             \* the info last forwarded for each process

ros_reader_vars == <<history, latest, reading, result, put>>

Info == {"none", "first", "second"}

RosReaderTypeOK ==
    /\ history \in Seq([gid : RosProcess, info : Info \ {"none"}])
    /\ latest \in [RosProcess -> Info]
    /\ reading \in BOOLEAN
    /\ result \in [RosProcess -> Info]
    /\ put \in [RosProcess -> Info]

RosReaderInit ==
    /\ history = <<>>
    /\ latest = [p \in RosProcess |-> "none"]
    /\ reading = FALSE
    /\ result = [p \in RosProcess |-> "none"]
    /\ put = [p \in RosProcess |-> "none"]

\* A process writes another info than the one before.
WriteInfo(p) ==
    LET info == IF latest[p] = "first" THEN "second" ELSE "first" IN
    /\ Len(history) < MaxHistory
    /\ latest' = [latest EXCEPT ![p] = info]
    /\ history' = Append(history, [gid |-> p, info |-> info])
    /\ UNCHANGED <<reading, result, put>>

TimerEvent ==
    /\ ~ reading
    /\ reading' = TRUE
    /\ result' = [p \in RosProcess |-> "none"]
    /\ UNCHANGED <<history, latest, put>>

\* Insertion into the map, when the first sample of a process stays and when the
\* last one does.
insert_if_absent(sample) ==
    [result EXCEPT ![sample.gid] = IF @ = "none" THEN sample.info ELSE @]

insert(sample) == [result EXCEPT ![sample.gid] = sample.info]

TakeInfo ==
    /\ reading /\ history # <<>>
    /\ result' = insert(Head(history))
    /\ history' = Tail(history)
    /\ UNCHANGED <<latest, reading, put>>

ForwardInfos ==
    /\ reading /\ history = <<>>
    /\ put' = [p \in RosProcess |-> IF result[p] = "none" THEN put[p] ELSE result[p]]
    /\ reading' = FALSE
    /\ UNCHANGED <<history, latest, result>>

RosReaderNext ==
    \/ \E p \in RosProcess : WriteInfo(p)
    \/ TimerEvent
    \/ TakeInfo
    \/ ForwardInfos

RosReaderSpec == RosReaderInit /\ [][RosReaderNext]_ros_reader_vars

\* Once the reader is empty and no read is going on, what was forwarded of each
\* process is what it wrote last.
LatestForwarded == ~ reading /\ history = <<>> => put = latest
=============================================================================
