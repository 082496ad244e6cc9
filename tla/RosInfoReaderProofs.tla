------------------------- MODULE RosInfoReaderProofs -------------------------
(***************************************************************************)
(* Proofs about RosInfoReader for any processes and any number of samples. *)
(***************************************************************************)
EXTENDS RosInfoReader, SequenceTheorems, TLAPS

RosSample == [gid : RosProcess, info : Info \ {"none"}]

\* Sample i is the last one of process p in the reader.
IsLast(p, i) ==
    /\ history[i].gid = p
    /\ \A j \in 1..Len(history) : j > i => history[j].gid # p

Unheard(p) == \A i \in 1..Len(history) : history[i].gid # p

\* What a process wrote last is its last sample in the reader; when it has none there,
\* it is in the map of the read that goes on; when it is not there either, it was
\* forwarded.
ReaderInv ==
    /\ RosReaderTypeOK
    /\ \A p \in RosProcess : \A i \in 1..Len(history) :
            IsLast(p, i) => history[i].info = latest[p]
    /\ \A p \in RosProcess : Unheard(p) =>
            IF reading /\ result[p] # "none" THEN result[p] = latest[p]
                                             ELSE put[p] = latest[p]

LEMMA ReaderInitInv == RosReaderInit => ReaderInv
<1> SUFFICES ASSUME RosReaderInit PROVE ReaderInv
    OBVIOUS
<1>1. history = <<>> /\ Len(history) = 0 /\ ~ reading /\ put = latest
    BY DEF RosReaderInit
<1>2. RosReaderTypeOK
    <2>1. history \in Seq(RosSample)
        BY <1>1
    <2>2. [p \in RosProcess |-> "none"] \in [RosProcess -> Info]
        BY DEF Info
    <2> QED
        BY <2>1, <2>2 DEF RosReaderInit, RosReaderTypeOK, RosSample
<1>3. 1..Len(history) = {}
    BY <1>1
<1>4. \A p \in RosProcess :
            IF reading /\ result[p] # "none" THEN result[p] = latest[p]
                                             ELSE put[p] = latest[p]
    BY <1>1
<1> QED
    BY <1>2, <1>3, <1>4 DEF ReaderInv

\* A process writes.
LEMMA WriteInfoStep ==
    ASSUME ReaderInv, NEW p \in RosProcess, WriteInfo(p)
    PROVE  ReaderInv'
<1> DEFINE info == IF latest[p] = "first" THEN "second" ELSE "first"
<1> DEFINE sample == [gid |-> p, info |-> info]
<1>1. /\ latest' = [latest EXCEPT ![p] = info]
      /\ history' = Append(history, sample)
      /\ UNCHANGED <<reading, result, put>>
    BY DEF WriteInfo
<1>2. info # "none" /\ info \in Info /\ sample \in RosSample
    BY DEF Info, RosSample
<1>3. /\ sample.gid = p /\ sample.info = info
    OBVIOUS
<1> HIDE DEF info, sample
<1>4. history \in Seq(RosSample) /\ latest \in [RosProcess -> Info]
    BY DEF ReaderInv, RosReaderTypeOK, RosSample
<1>5. /\ history' \in Seq(RosSample)
      /\ Len(history') = Len(history) + 1 /\ Len(history) \in Nat
      /\ \A i \in 1..Len(history) : history'[i] = history[i]
      /\ history'[Len(history) + 1] = sample
    BY <1>1, <1>2, <1>4
<1>6. latest'[p] = info /\ \A q \in RosProcess \ {p} : latest'[q] = latest[q]
    BY <1>1, <1>4
<1>7. RosReaderTypeOK'
    <2>1. latest' \in [RosProcess -> Info]
        BY <1>1, <1>2, <1>4
    <2>2. history' \in Seq(RosSample)
        BY <1>5
    <2>3. (reading \in BOOLEAN)'
        BY <1>1 DEF ReaderInv, RosReaderTypeOK
    <2> QED
        BY <1>1, <2>1, <2>2, <2>3 DEF ReaderInv, RosReaderTypeOK, RosSample
<1>8. ASSUME NEW q \in RosProcess, NEW i \in 1..Len(history'), IsLast(q, i)'
      PROVE  history'[i].info = latest'[q]
    <2>1. CASE i = Len(history) + 1
        BY <1>3, <1>5, <1>6, <1>8, <2>1 DEF IsLast
    <2>2. CASE i # Len(history) + 1
        <3>1. i \in 1..Len(history) /\ q # p
            BY <1>3, <1>5, <1>8, <2>2 DEF IsLast
        <3>2. IsLast(q, i)
            BY <1>5, <1>8, <3>1 DEF IsLast
        <3> QED
            BY <1>5, <1>6, <3>1, <3>2 DEF ReaderInv
    <2> QED
        BY <2>1, <2>2
<1>9. ASSUME NEW q \in RosProcess, Unheard(q)'
      PROVE  Unheard(q) /\ q # p
    BY <1>3, <1>5, <1>9 DEF Unheard
<1>10. ASSUME NEW q \in RosProcess, Unheard(q)'
       PROVE  IF reading' /\ result'[q] # "none" THEN result'[q] = latest'[q]
                                                 ELSE put'[q] = latest'[q]
    BY <1>1, <1>6, <1>9, <1>10 DEF ReaderInv
<1> QED
    BY <1>5, <1>7, <1>8, <1>10 DEF ReaderInv

\* The timer starts a read with an empty map.
LEMMA TimerEventStep ==
    ASSUME ReaderInv, TimerEvent
    PROVE  ReaderInv'
<1>1. /\ ~ reading /\ reading' = TRUE
      /\ result' = [p \in RosProcess |-> "none"]
      /\ UNCHANGED <<history, latest, put>>
    BY DEF TimerEvent
<1>2. RosReaderTypeOK'
    BY <1>1 DEF ReaderInv, RosReaderTypeOK, Info
<1> QED
    BY <1>1, <1>2 DEF ReaderInv, IsLast, Unheard

\* A sample is taken into the map.
LEMMA TakeInfoStep ==
    ASSUME ReaderInv, TakeInfo
    PROVE  ReaderInv'
<1> DEFINE sample == Head(history)
<1>1. /\ reading /\ history # <<>>
      /\ result' = [result EXCEPT ![sample.gid] = sample.info]
      /\ history' = Tail(history)
      /\ UNCHANGED <<latest, reading, put>>
    BY DEF TakeInfo, insert
<1>2. history \in Seq(RosSample) /\ result \in [RosProcess -> Info]
    BY DEF ReaderInv, RosReaderTypeOK, RosSample
<1>3. /\ history' \in Seq(RosSample)
      /\ Len(history) \in Nat \ {0} /\ Len(history') = Len(history) - 1
      /\ \A i \in 1..Len(history') : history'[i] = history[i + 1]
      /\ sample = history[1] /\ sample \in RosSample
    BY <1>1, <1>2
<1> HIDE DEF sample
<1>4. /\ sample.gid \in RosProcess /\ sample.info \in Info /\ sample.info # "none"
    BY <1>3 DEF RosSample
<1>5. /\ result'[sample.gid] = sample.info
      /\ \A q \in RosProcess \ {sample.gid} : result'[q] = result[q]
    BY <1>1, <1>2, <1>4
<1>6. RosReaderTypeOK'
    <2>1. result' \in [RosProcess -> Info]
        BY <1>1, <1>2, <1>4
    <2>2. history' \in Seq(RosSample)
        BY <1>3
    <2>3. (reading \in BOOLEAN)'
        BY <1>1 DEF ReaderInv, RosReaderTypeOK
    <2> QED
        BY <1>1, <2>1, <2>2, <2>3 DEF ReaderInv, RosReaderTypeOK, RosSample
<1>7. ASSUME NEW q \in RosProcess, NEW i \in 1..Len(history'), IsLast(q, i)'
      PROVE  history'[i].info = latest'[q]
    <2>1. i + 1 \in 1..Len(history) /\ history'[i] = history[i + 1]
        BY <1>3
    <2>2. IsLast(q, i + 1)
        <3> SUFFICES ASSUME NEW j \in 1..Len(history), j > i + 1
                     PROVE  history[j].gid # q
            BY <1>7, <2>1 DEF IsLast
        <3>1. j - 1 \in 1..Len(history') /\ j - 1 > i /\ history'[j - 1] = history[j]
            BY <1>3
        <3> QED
            BY <1>7, <3>1 DEF IsLast
    <2> QED
        BY <1>1, <2>1, <2>2 DEF ReaderInv
<1>8. ASSUME NEW q \in RosProcess, Unheard(q)'
      PROVE  IF reading' /\ result'[q] # "none" THEN result'[q] = latest'[q]
                                                ELSE put'[q] = latest'[q]
    <2>1. ASSUME NEW j \in 1..Len(history), j # 1
          PROVE  history[j].gid # q
        <3>1. j - 1 \in 1..Len(history') /\ history'[j - 1] = history[j]
            BY <1>3, <2>1
        <3> QED
            BY <1>8, <3>1 DEF Unheard
    <2>2. 1 \in 1..Len(history)
        BY <1>3
    <2>3. CASE sample.gid = q
        <3>1. IsLast(q, 1)
            BY <1>3, <2>1, <2>3 DEF IsLast
        <3>2. sample.info = latest[q]
            BY <1>3, <2>2, <3>1 DEF ReaderInv
        <3> QED
            BY <1>1, <1>4, <1>5, <2>3, <3>2
    <2>4. CASE sample.gid # q
        <3>1. Unheard(q)
            BY <1>3, <2>1, <2>4 DEF Unheard
        <3>2. result'[q] = result[q]
            BY <1>5, <2>4
        <3> QED
            BY <1>1, <3>1, <3>2 DEF ReaderInv
    <2> QED
        BY <2>3, <2>4
<1> QED
    BY <1>3, <1>6, <1>7, <1>8 DEF ReaderInv

\* The map is forwarded.
LEMMA ForwardInfosStep ==
    ASSUME ReaderInv, ForwardInfos
    PROVE  ReaderInv'
<1>1. /\ reading /\ history = <<>> /\ reading' = FALSE
      /\ put' = [p \in RosProcess |-> IF result[p] = "none" THEN put[p] ELSE result[p]]
      /\ UNCHANGED <<history, latest, result>>
    BY DEF ForwardInfos
<1>2. RosReaderTypeOK'
    BY <1>1 DEF ReaderInv, RosReaderTypeOK
<1>3. \A p \in RosProcess : put'[p] = latest[p]
    BY <1>1 DEF ReaderInv, Unheard
<1> QED
    BY <1>1, <1>2, <1>3 DEF ReaderInv, IsLast

\* The invariant holds in every state of the poll.
THEOREM ReaderInvariance == RosReaderSpec => []ReaderInv
<1>1. ReaderInv /\ [RosReaderNext]_ros_reader_vars => ReaderInv'
    <2> SUFFICES ASSUME ReaderInv, [RosReaderNext]_ros_reader_vars PROVE ReaderInv'
        OBVIOUS
    <2>1. CASE RosReaderNext
        BY <2>1, WriteInfoStep, TimerEventStep, TakeInfoStep, ForwardInfosStep DEF RosReaderNext
    <2>2. CASE UNCHANGED ros_reader_vars
        BY <2>2 DEF ros_reader_vars, ReaderInv, RosReaderTypeOK, IsLast, Unheard
    <2> QED
        BY <2>1, <2>2
<1> QED
    BY <1>1, ReaderInitInv, PTL DEF RosReaderSpec

\* Once the reader is empty and no read is going on, what was forwarded of each process
\* is what it wrote last, for any number of processes and unread samples
\* (RosDiscoveryInfoMgr::read and the loop that puts its result).
THEOREM LatestForwardedAlways == RosReaderSpec => []LatestForwarded
<1>1. ReaderInv => LatestForwarded
    <2> SUFFICES ASSUME ReaderInv, ~ reading, history = <<>> PROVE put = latest
        BY DEF LatestForwarded
    <2>1. \A p \in RosProcess : Unheard(p)
        BY DEF Unheard
    <2>2. \A p \in RosProcess : put[p] = latest[p]
        BY <2>1 DEF ReaderInv
    <2>3. put \in [RosProcess -> Info] /\ latest \in [RosProcess -> Info]
        BY DEF ReaderInv, RosReaderTypeOK
    <2> QED
        BY <2>2, <2>3
<1> QED
    BY <1>1, ReaderInvariance, PTL
=============================================================================
