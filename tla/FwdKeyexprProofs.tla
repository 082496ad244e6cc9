-------------------------- MODULE FwdKeyexprProofs --------------------------
(***************************************************************************)
(* Theorems about the keys of forwarded messages: with plain names, the    *)
(* parser finds out what a message is about, and no two messages have the  *)
(* same key.                                                               *)
(***************************************************************************)
EXTENDS FwdKeyexpr, SequenceTheorems, TLAPS

\* All that can be a chunk of a key.
Chunk ==
    STRING \cup Uuid \cup Guid \cup Kind
        \cup {"participant", KE_PREFIX_ADMIN_SPACE, KE_PREFIX_FWD_DISCO}

Names == Seq(Chunk)

-----------------------------------------------------------------------------
(* The chunks of a key.                                                      *)

LEMMA MinOfPlaces ==
    ASSUME NEW S \in SUBSET Nat, NEW n \in S, \A i \in S : n <= i
    PROVE  Min(S) = n
<1>1. \A i \in S : (\A j \in S : i <= j) => i = n
    OBVIOUS
<1> QED
    BY <1>1 DEF Min

LEMMA OneChunk ==
    ASSUME NEW a \in Chunk
    PROVE  <<a>> \in Names /\ Len(<<a>>) = 1 /\ <<a>>[1] = a
    BY DEF Names

LEMMA ThreeChunks ==
    ASSUME NEW a \in Chunk, NEW b \in Chunk, NEW c \in Chunk
    PROVE  /\ <<a, b, c>> \in Names /\ Len(<<a, b, c>>) = 3
           /\ <<a, b, c>>[1] = a /\ <<a, b, c>>[2] = b /\ <<a, b, c>>[3] = c
    BY DEF Names

LEMMA FourChunks ==
    ASSUME NEW a \in Chunk, NEW b \in Chunk, NEW c \in Chunk, NEW d \in Chunk
    PROVE  /\ <<a, b, c, d>> \in Names /\ Len(<<a, b, c, d>>) = 4
           /\ <<a, b, c, d>>[1] = a /\ <<a, b, c, d>>[2] = b
           /\ <<a, b, c, d>>[3] = c /\ <<a, b, c, d>>[4] = d
    BY DEF Names

\* A name of the configuration or of DDS.
LEMMA NameOfChunks == ScopeName \cup TopicName \subseteq Names
<1>1. STRING \subseteq Chunk
    BY DEF Chunk
<1> QED
    BY <1>1, NamesAssumption, SeqMonotonic DEF NamesAssumption, Names

LEMMA Concat ==
    ASSUME NEW s \in Names, NEW t \in Names
    PROVE  /\ Len(s) \in Nat /\ Len(t) \in Nat
           /\ s \o t \in Names /\ Len(s \o t) = Len(s) + Len(t)
           /\ \A i \in 1 .. Len(s) : (s \o t)[i] = s[i]
           /\ \A j \in 1 .. Len(t) : (s \o t)[Len(s) + j] = t[j]
<1> DEFINE k == Len(s)
           l == Len(t)
<1>1. k \in Nat /\ l \in Nat
    BY DEF Names
<1>2. /\ s \o t \in Names /\ Len(s \o t) = k + l
      /\ \A i \in 1 .. k + l : (s \o t)[i] = IF i <= k THEN s[i] ELSE t[i - k]
    BY ConcatProperties DEF Names
<1> HIDE DEF k, l
<1>3. ASSUME NEW i \in 1 .. k PROVE (s \o t)[i] = s[i]
    BY <1>1, <1>2
<1>4. ASSUME NEW j \in 1 .. l PROVE (s \o t)[k + j] = t[j]
    <2>1. k + j \in 1 .. k + l /\ ~ k + j <= k /\ (k + j) - k = j
        BY <1>1
    <2> QED
        BY <1>2, <2>1
<1> QED
    BY <1>1, <1>2, <1>3, <1>4 DEF k, l

LEMMA RelativeKey ==
    ASSUME NEW m \in Message
    PROVE  /\ m.scope \in Names /\ m.uuid \in Chunk /\ m.kind \in Kind
           /\ relative_key(m) \in Names /\ Len(relative_key(m)) > 0
<1>1. CASE m.kind = "ros_disco"
    <2>1. m \in [uuid : Uuid, scope : ScopeName, kind : {"ros_disco"}, guid : Guid]
        BY <1>1 DEF Message
    <2>2. relative_key(m) = <<m.guid>>
        BY <1>1 DEF relative_key
    <2>3. /\ m.guid \in Chunk /\ m.uuid \in Chunk /\ m.kind \in Kind /\ m.scope \in Names
        BY <2>1, NameOfChunks DEF Chunk, Kind
    <2> QED
        BY <2>2, <2>3, OneChunk
<1>2. CASE m.kind # "ros_disco"
    <2>1. m \in [uuid : Uuid, scope : ScopeName, kind : {"reader", "writer"},
                 participant : Guid, guid : Guid, topic : TopicName]
        BY <1>2 DEF Message
    <2>2. relative_key(m) = <<"participant", m.participant, m.kind, m.guid>> \o m.topic
        BY <1>2 DEF relative_key, get_entity_admin_keyexpr
    <2>3. /\ <<"participant", m.participant, m.kind, m.guid>> \in Names
          /\ Len(<<"participant", m.participant, m.kind, m.guid>>) = 4
          /\ m.topic \in Names
        <3>1. /\ "participant" \in Chunk /\ m.participant \in Chunk
              /\ m.kind \in Chunk /\ m.guid \in Chunk
            BY <2>1 DEF Chunk, Kind
        <3>2. m.topic \in Names
            BY <2>1, NameOfChunks
        <3> QED
            BY <3>1, <3>2, FourChunks
    <2>4. Len(m.topic) \in Nat
        BY <2>3 DEF Names
    <2>5. relative_key(m) \in Names /\ Len(relative_key(m)) = 4 + Len(m.topic)
        BY <2>2, <2>3, Concat
    <2>6. m.uuid \in Chunk /\ m.kind \in Kind /\ m.scope \in Names
        BY <2>1, NameOfChunks DEF Chunk, Kind
    <2> QED
        BY <2>4, <2>5, <2>6
<1> QED
    BY <1>1, <1>2

LEMMA KeyChunks ==
    ASSUME NEW m \in Message
    PROVE  LET ke == fwd_ke(m)
               n == Len(m.scope)
               rel == relative_key(m)
           IN
           /\ ke \in Names /\ n \in Nat /\ Len(rel) \in Nat
           /\ Len(ke) = 4 + n + Len(rel)
           /\ ke[1] = KE_PREFIX_ADMIN_SPACE /\ ke[2] = m.uuid /\ ke[3] = KE_PREFIX_FWD_DISCO
           /\ \A i \in 1..n : ke[3 + i] = m.scope[i]
           /\ ke[4 + n] = m.kind
           /\ \A i \in 1..Len(rel) : ke[4 + n + i] = rel[i]
<1> DEFINE head == <<KE_PREFIX_ADMIN_SPACE, m.uuid, KE_PREFIX_FWD_DISCO>>
           n == Len(m.scope)
           rel == relative_key(m)
           front == head \o m.scope
           middle == front \o <<m.kind>>
<1>1. /\ m.scope \in Names /\ m.uuid \in Chunk /\ m.kind \in Kind
      /\ rel \in Names /\ Len(rel) \in Nat /\ n \in Nat
    BY RelativeKey DEF Names
<1>2. /\ head \in Names /\ Len(head) = 3
      /\ head[1] = KE_PREFIX_ADMIN_SPACE /\ head[2] = m.uuid /\ head[3] = KE_PREFIX_FWD_DISCO
    <2>1. KE_PREFIX_ADMIN_SPACE \in Chunk /\ KE_PREFIX_FWD_DISCO \in Chunk
        BY DEF Chunk
    <2> QED
        BY <1>1, <2>1, ThreeChunks
<1>3. <<m.kind>> \in Names /\ Len(<<m.kind>>) = 1 /\ <<m.kind>>[1] = m.kind
    <2>1. m.kind \in Chunk
        BY <1>1 DEF Chunk
    <2> QED
        BY <2>1, OneChunk
<1> HIDE DEF head, rel, n
<1>4. /\ front \in Names /\ Len(front) = 3 + n
      /\ \A i \in 1..3 : front[i] = head[i]
      /\ \A i \in 1..n : front[3 + i] = m.scope[i]
    <2>1. /\ front \in Names /\ Len(front) = Len(head) + Len(m.scope)
          /\ \A i \in 1..Len(head) : front[i] = head[i]
          /\ \A i \in 1..Len(m.scope) : front[Len(head) + i] = m.scope[i]
        BY <1>1, <1>2, Concat, Zenon DEF front
    <2> HIDE DEF front
    <2> QED
        BY <1>1, <1>2, <2>1 DEF n
<1> HIDE DEF front
<1>5. /\ middle \in Names /\ Len(middle) = 4 + n
      /\ \A i \in 1..(3 + n) : middle[i] = front[i]
      /\ middle[4 + n] = m.kind
    <2>1. /\ middle \in Names /\ Len(middle) = Len(front) + Len(<<m.kind>>)
          /\ \A i \in 1..Len(front) : middle[i] = front[i]
          /\ \A j \in 1..Len(<<m.kind>>) : middle[Len(front) + j] = <<m.kind>>[j]
        BY <1>3, <1>4, Concat, Zenon DEF middle
    <2> HIDE DEF middle
    <2>2. 3 + n + 1 = 4 + n /\ 1 \in 1..1
        BY <1>1
    <2> QED
        BY <1>1, <1>3, <1>4, <2>1, <2>2
<1>6. fwd_ke(m) = middle \o rel
    BY DEF fwd_ke, middle, front, head, rel
<1> HIDE DEF middle
<1>7. /\ fwd_ke(m) \in Names /\ Len(fwd_ke(m)) = 4 + n + Len(rel)
      /\ \A i \in 1..(4 + n) : fwd_ke(m)[i] = middle[i]
      /\ \A j \in 1..Len(rel) : fwd_ke(m)[4 + n + j] = rel[j]
    <2>1. /\ middle \o rel \in Names /\ Len(middle \o rel) = Len(middle) + Len(rel)
          /\ \A i \in 1..Len(middle) : (middle \o rel)[i] = middle[i]
          /\ \A j \in 1..Len(rel) : (middle \o rel)[Len(middle) + j] = rel[j]
        BY <1>1, <1>5, Concat, Zenon
    <2> QED
        BY <1>5, <1>6, <2>1
<1>8. \A i \in 1..3 : fwd_ke(m)[i] = head[i]
    BY <1>1, <1>4, <1>5, <1>7
<1>9. \A i \in 1..n : fwd_ke(m)[3 + i] = m.scope[i]
    <2>1. \A i \in 1..n : 3 + i \in 1..(3 + n) /\ 3 + i \in 1..(4 + n)
        BY <1>1
    <2> QED
        BY <1>4, <1>5, <1>7, <2>1
<1>10. fwd_ke(m)[4 + n] = m.kind
    <2>1. 4 + n \in 1..(4 + n)
        BY <1>1
    <2> QED
        BY <1>5, <1>7, <2>1
<1> QED
    BY <1>1, <1>2, <1>7, <1>8, <1>9, <1>10 DEF n, rel

-----------------------------------------------------------------------------
(* What the parser searches: the key without "@/<uuid>/".                    *)

remaining(m) == SubSeq(fwd_ke(m), 3, Len(fwd_ke(m)))

LEMMA RemainingChunks ==
    ASSUME NEW m \in Message
    PROVE  LET n == Len(m.scope)
               rel == relative_key(m)
               r == remaining(m)
           IN
           /\ n \in Nat /\ Len(rel) \in Nat /\ Len(rel) > 0
           /\ Len(fwd_ke(m)) >= 3
           /\ r \in Names /\ Len(r) = 2 + n + Len(rel)
           /\ \A i \in 1..n : r[1 + i] = m.scope[i]
           /\ r[2 + n] = m.kind
           /\ \A j \in 1..Len(rel) : r[2 + n + j] = rel[j]
<1> DEFINE n == Len(m.scope)
           rel == relative_key(m)
           ke == fwd_ke(m)
           r == remaining(m)
<1>1. /\ ke \in Names /\ n \in Nat /\ Len(rel) \in Nat /\ Len(rel) > 0
      /\ Len(ke) = 4 + n + Len(rel)
      /\ \A i \in 1..n : ke[3 + i] = m.scope[i]
      /\ ke[4 + n] = m.kind
      /\ \A j \in 1..Len(rel) : ke[4 + n + j] = rel[j]
    BY KeyChunks, RelativeKey
<1>2. \A i \in 3..Len(ke) : ke[i] \in Chunk
    BY <1>1, ElementOfSeq DEF Names
<1>3. r = SubSeq(ke, 3, Len(ke))
    BY DEF remaining
<1> HIDE DEF n, rel, ke, r
<1>4. /\ r \in Names /\ Len(r) = 2 + n + Len(rel)
      /\ \A i \in 1..(2 + n + Len(rel)) : r[i] = ke[i + 2]
    <2>1. /\ Len(ke) \in Int /\ 3 \in Int /\ 3 <= Len(ke)
          /\ Len(ke) - 3 + 1 = 2 + n + Len(rel)
        BY <1>1
    <2>2. /\ r \in Seq(Chunk)
          /\ Len(r) = IF 3 <= Len(ke) THEN Len(ke) - 3 + 1 ELSE 0
          /\ \A i \in 1 .. Len(ke) - 3 + 1 : r[i] = ke[3 + i - 1]
        BY <1>2, <1>3, <2>1, SubSeqProperties
    <2> QED
        BY <2>1, <2>2 DEF Names
<1>5. ASSUME NEW i \in 1..n PROVE r[1 + i] = m.scope[i]
    <2>1. 1 + i \in 1..(2 + n + Len(rel)) /\ (1 + i) + 2 = 3 + i
        BY <1>1
    <2> QED
        BY <1>1, <1>4, <2>1
<1>6. r[2 + n] = m.kind
    <2>1. 2 + n \in 1..(2 + n + Len(rel)) /\ (2 + n) + 2 = 4 + n
        BY <1>1
    <2> QED
        BY <1>1, <1>4, <2>1
<1>7. ASSUME NEW j \in 1..Len(rel) PROVE r[2 + n + j] = rel[j]
    <2>1. 2 + n + j \in 1..(2 + n + Len(rel)) /\ (2 + n + j) + 2 = 4 + n + j
        BY <1>1
    <2> QED
        BY <1>1, <1>4, <2>1
<1> QED
    BY <1>1, <1>4, <1>5, <1>6, <1>7 DEF n, rel, ke, r

\* The kind of a plain message is found where it is,
LEMMA KindFound ==
    ASSUME NEW m \in Message, Plain(m)
    PROVE  find(remaining(m), m.kind) = Len(m.scope) + 2
<1> DEFINE n == Len(m.scope)
           rel == relative_key(m)
           r == remaining(m)
           S == places(r, m.kind)
<1>1. /\ n \in Nat /\ Len(rel) \in Nat /\ Len(rel) > 0
      /\ Len(r) = 2 + n + Len(rel)
      /\ \A i \in 1..n : r[1 + i] = m.scope[i]
      /\ r[2 + n] = m.kind
    BY RemainingChunks
<1>2. m.kind \in Kind /\ \A i \in 1..n : m.scope[i] \notin Kind
    BY RelativeKey, LenProperties DEF Plain, Names
<1>3. S = {i \in 2 .. Len(r) - 1 : r[i] = m.kind}
    BY DEF places
<1> HIDE DEF n, rel, r, S
<1>4. n + 2 \in S
    BY <1>1, <1>3
<1>5. ASSUME NEW i \in S PROVE n + 2 <= i
    <2>1. i \in 2 .. Len(r) - 1 /\ r[i] = m.kind
        BY <1>3
    <2>2. i \in Int /\ i >= 2
        BY <1>1, <2>1
    <2>3. i <= n + 1 => i - 1 \in 1..n /\ 1 + (i - 1) = i
        BY <1>1, <2>2
    <2>4. ~ i <= n + 1
        BY <1>1, <1>2, <2>1, <2>3
    <2> QED
        BY <1>1, <2>2, <2>4
<1>6. S \in SUBSET Nat
    BY <1>1, <1>3
<1>7. Min(S) = n + 2
    BY <1>4, <1>5, <1>6, MinOfPlaces
<1> QED
    BY <1>4, <1>7 DEF find, n, r, S

\* and no kind that is searched before.
LEMMA NoOtherFound ==
    ASSUME NEW m \in Message, Plain(m)
    PROVE  /\ m.kind \in {"writer", "ros_disco"} => find(remaining(m), "reader") = 0
           /\ m.kind = "ros_disco" => find(remaining(m), "writer") = 0
<1> DEFINE n == Len(m.scope)
           rel == relative_key(m)
           r == remaining(m)
<1>1. /\ n \in Nat /\ Len(rel) \in Nat /\ Len(rel) > 0
      /\ Len(r) = 2 + n + Len(rel)
      /\ \A i \in 1..n : r[1 + i] = m.scope[i]
      /\ r[2 + n] = m.kind
      /\ \A j \in 1..Len(rel) : r[2 + n + j] = rel[j]
    BY RemainingChunks
<1>2. \A i \in 1..n : m.scope[i] \notin Kind
    BY RelativeKey, LenProperties DEF Plain, Names
<1> HIDE DEF n, rel, r
<1>3. ASSUME NEW kind \in Kind, kind # m.kind,
             \A j \in 1 .. Len(rel) - 1 : rel[j] # kind
      PROVE  find(r, kind) = 0
    <2>1. ASSUME NEW i \in 2 .. Len(r) - 1 PROVE r[i] # kind
        <3>1. i \in Int /\ 2 <= i /\ i <= 1 + n + Len(rel)
            BY <1>1
        <3>2. CASE i <= n + 1
            <4>1. i - 1 \in 1..n /\ 1 + (i - 1) = i
                BY <1>1, <3>1, <3>2
            <4> QED
                BY <1>1, <1>2, <4>1
        <3>3. CASE i = n + 2
            BY <1>1, <1>3, <3>3
        <3>4. CASE i > n + 2
            <4>1. PICK j \in Int : j = i - (n + 2)
                BY <1>1, <3>1
            <4>2. j \in 1 .. Len(rel) - 1 /\ j \in 1 .. Len(rel)
                BY <1>1, <3>1, <3>4, <4>1
            <4>3. 2 + n + j = i
                BY <1>1, <3>1, <4>1
            <4> QED
                BY <1>1, <1>3, <4>2, <4>3
        <3> QED
            BY <1>1, <3>1, <3>2, <3>3, <3>4
    <2>2. places(r, kind) = {}
        BY <2>1 DEF places
    <2> QED
        BY <2>2 DEF find
<1>4. CASE m.kind = "ros_disco"
    <2>1. rel = <<m.guid>>
        BY <1>4 DEF rel, relative_key
    <2>2. \A j \in 1 .. Len(rel) - 1 : FALSE
        BY <2>1
    <2> QED
        BY <1>3, <1>4, <2>2 DEF Kind, r
<1>5. CASE m.kind = "writer"
    <2>1. /\ m.participant \in Guid /\ m.guid \in Guid /\ m.topic \in Names
          /\ rel = <<"participant", m.participant, "writer", m.guid>> \o m.topic
        BY <1>5, NameOfChunks DEF Message, rel, relative_key, get_entity_admin_keyexpr
    <2> DEFINE prefix == <<"participant", m.participant, "writer", m.guid>>
    <2>2. /\ prefix \in Names /\ Len(prefix) = 4
          /\ prefix[1] = "participant" /\ prefix[2] = m.participant
          /\ prefix[3] = "writer" /\ prefix[4] = m.guid
        <3>1. /\ "participant" \in Chunk /\ "writer" \in Chunk
              /\ m.participant \in Chunk /\ m.guid \in Chunk
            BY <2>1 DEF Chunk, Kind
        <3> QED
            BY <3>1, FourChunks
    <2> HIDE DEF prefix
    <2>3. \A i \in 1..4 : prefix[i] # "reader"
        <3>1. m.participant # "reader" /\ m.guid # "reader"
            BY <2>1, NamesAssumption DEF NamesAssumption
        <3> QED
            BY <2>2, <3>1
    <2>4. /\ Len(m.topic) \in Nat
          /\ Len(rel) = Len(prefix) + Len(m.topic)
          /\ \A i \in 1..Len(prefix) : rel[i] = prefix[i]
          /\ \A j \in 1..Len(m.topic) : rel[Len(prefix) + j] = m.topic[j]
        BY <2>1, <2>2, Concat, Zenon DEF prefix
    <2>5. ASSUME NEW j \in 1 .. Len(rel) - 1 PROVE rel[j] # "reader"
        <3>1. CASE j <= 4
            BY <2>2, <2>3, <2>4, <3>1
        <3>2. CASE j > 4
            <4>1. /\ j - 4 \in 1 .. Len(m.topic) - 1 /\ j - 4 \in 1 .. Len(m.topic)
                  /\ 4 + (j - 4) = j
                BY <2>2, <2>4, <3>2
            <4>2. m.topic[j - 4] # "reader"
                BY <1>5, <4>1 DEF Plain
            <4> QED
                BY <2>2, <2>4, <4>1, <4>2
        <3> QED
            BY <3>1, <3>2
    <2> QED
        BY <1>3, <1>5, <2>5 DEF Kind, r
<1> QED
    BY <1>4, <1>5

\* The parser finds out what a plain message is about, whatever the configuration
\* and DDS call scopes, topics and partitions (parse_fwd_discovery_keyexpr).
THEOREM PlainParsed ==
    ASSUME NEW m \in Message, Plain(m)
    PROVE  parse_fwd_discovery_keyexpr(fwd_ke(m))
                = [uuid |-> m.uuid, kind |-> m.kind, remaining_ke |-> relative_key(m)]
<1> DEFINE n == Len(m.scope)
           rel == relative_key(m)
           r == remaining(m)
           found == {k \in 1 .. 3 : find(r, SearchedKinds[k]) # 0}
<1>1. /\ n \in Nat /\ Len(rel) \in Nat
      /\ Len(fwd_ke(m)) >= 3
      /\ r \in Names /\ Len(r) = 2 + n + Len(rel)
      /\ \A j \in 1..Len(rel) : r[2 + n + j] = rel[j]
    BY RemainingChunks
<1>2. /\ fwd_ke(m)[1] = KE_PREFIX_ADMIN_SPACE /\ fwd_ke(m)[2] = m.uuid
      /\ fwd_ke(m)[3] = KE_PREFIX_FWD_DISCO
    BY KeyChunks
<1>3. rel \in Names /\ m.kind \in Kind
    BY RelativeKey
<1>4. find(r, m.kind) = n + 2
    BY KindFound
<1>5. /\ m.kind \in {"writer", "ros_disco"} => find(r, "reader") = 0
      /\ m.kind = "ros_disco" => find(r, "writer") = 0
    BY NoOtherFound
<1>6. r = SubSeq(fwd_ke(m), 3, Len(fwd_ke(m)))
    BY DEF remaining
<1> HIDE DEF n, rel, r
<1>7. found # {} /\ SearchedKinds[Min(found)] = m.kind
    <2>1. /\ SearchedKinds[1] = "reader" /\ SearchedKinds[2] = "writer"
          /\ SearchedKinds[3] = "ros_disco"
        BY DEF SearchedKinds
    <2>2. n + 2 # 0
        BY <1>1
    <2>3. \A k \in found : k \in {1, 2, 3} /\ find(r, SearchedKinds[k]) # 0
        OBVIOUS
    <2>4. \A k \in {1, 2, 3} : find(r, SearchedKinds[k]) # 0 => k \in found
        OBVIOUS
    <2>5. found \in SUBSET Nat
        OBVIOUS
    <2> HIDE DEF found
    <2>6. CASE m.kind = "reader"
        <3>1. 1 \in found /\ \A k \in found : 1 <= k
            BY <1>4, <2>1, <2>2, <2>3, <2>4, <2>6
        <3> QED
            BY <2>1, <2>5, <2>6, <3>1, MinOfPlaces
    <2>7. CASE m.kind = "writer"
        <3>1. 2 \in found /\ \A k \in found : 2 <= k
            BY <1>4, <1>5, <2>1, <2>2, <2>3, <2>4, <2>7
        <3> QED
            BY <2>1, <2>5, <2>7, <3>1, MinOfPlaces
    <2>8. CASE m.kind = "ros_disco"
        <3>1. 3 \in found /\ \A k \in found : 3 <= k
            BY <1>4, <1>5, <2>1, <2>2, <2>3, <2>4, <2>8
        <3> QED
            BY <2>1, <2>5, <2>8, <3>1, MinOfPlaces
    <2> QED
        BY <1>3, <2>6, <2>7, <2>8 DEF Kind
<1>8. SubSeq(r, find(r, m.kind) + 1, Len(r)) = rel
    <2> DEFINE rest == SubSeq(r, n + 3, Len(r))
    <2>1. \A i \in (n + 3) .. Len(r) : r[i] \in Chunk
        BY <1>1, ElementOfSeq DEF Names
    <2>2. n + 3 \in Int /\ Len(r) \in Int /\ Len(r) - (n + 3) + 1 = Len(rel)
        BY <1>1
    <2>3. /\ rest \in Seq(Chunk)
          /\ Len(rest) = IF n + 3 <= Len(r) THEN Len(r) - (n + 3) + 1 ELSE 0
          /\ \A i \in 1 .. Len(r) - (n + 3) + 1 : rest[i] = r[n + 3 + i - 1]
        BY <2>1, <2>2, SubSeqProperties
    <2> HIDE DEF rest
    <2>4. Len(rest) = Len(rel)
        BY <1>1, <2>2, <2>3
    <2>5. ASSUME NEW i \in 1 .. Len(rel) PROVE rest[i] = rel[i]
        <3>1. n + 3 + i - 1 = 2 + n + i
            BY <1>1
        <3> QED
            BY <1>1, <2>2, <2>3, <3>1
    <2>6. rest = rel
        BY <1>3, <2>3, <2>4, <2>5, SeqEqual DEF Names
    <2>7. find(r, m.kind) + 1 = n + 3
        BY <1>1, <1>4
    <2> QED
        BY <2>6, <2>7 DEF rest
<1>9. ~ (Len(fwd_ke(m)) < 3)
    BY <1>1, KeyChunks
<1> HIDE DEF found
<1>10. parse_fwd_discovery_keyexpr(fwd_ke(m))
            = [uuid |-> fwd_ke(m)[2], kind |-> SearchedKinds[Min(found)],
               remaining_ke |-> SubSeq(r, find(r, SearchedKinds[Min(found)]) + 1, Len(r))]
    BY <1>2, <1>6, <1>7, <1>9, Zenon DEF parse_fwd_discovery_keyexpr, found
<1> QED
    BY <1>2, <1>7, <1>8, <1>10 DEF rel

\* The relative key tells the message, but for its session and scope.
LEMMA RelativeKeyTells ==
    ASSUME NEW m \in Message, NEW k \in Message,
           m.kind = k.kind, relative_key(m) = relative_key(k)
    PROVE  /\ m.guid = k.guid
           /\ m.kind # "ros_disco" => m.participant = k.participant /\ m.topic = k.topic
<1>1. CASE m.kind = "ros_disco"
    <2>1. <<m.guid>> = <<k.guid>>
        BY <1>1 DEF relative_key
    <2> QED
        BY <1>1, <2>1
<1>2. CASE m.kind # "ros_disco"
    <2> DEFINE prefix(x) == <<"participant", x.participant, x.kind, x.guid>>
    <2>1. ASSUME NEW x \in {m, k}
          PROVE  /\ prefix(x) \in Names /\ Len(prefix(x)) = 4
                 /\ prefix(x)[2] = x.participant /\ prefix(x)[4] = x.guid
                 /\ x.topic \in Names /\ Len(x.topic) \in Nat
                 /\ Len(relative_key(x)) = 4 + Len(x.topic)
                 /\ \A i \in 1..4 : relative_key(x)[i] = prefix(x)[i]
                 /\ \A j \in 1..Len(x.topic) : relative_key(x)[4 + j] = x.topic[j]
        <3>1. /\ x.participant \in Guid /\ x.guid \in Guid /\ x.kind \in Kind
              /\ x.topic \in Names
            BY <1>2, NameOfChunks DEF Message, Kind
        <3>2. relative_key(x) = prefix(x) \o x.topic
            BY <1>2 DEF relative_key, get_entity_admin_keyexpr
        <3>3. /\ "participant" \in Chunk /\ x.participant \in Chunk
              /\ x.kind \in Chunk /\ x.guid \in Chunk
            BY <3>1 DEF Chunk
        <3>4. /\ prefix(x) \in Names /\ Len(prefix(x)) = 4
              /\ prefix(x)[2] = x.participant /\ prefix(x)[4] = x.guid
            BY <3>3, FourChunks
        <3> HIDE DEF prefix
        <3>5. /\ Len(x.topic) \in Nat
              /\ Len(prefix(x) \o x.topic) = Len(prefix(x)) + Len(x.topic)
              /\ \A i \in 1..Len(prefix(x)) : (prefix(x) \o x.topic)[i] = prefix(x)[i]
              /\ \A j \in 1..Len(x.topic) :
                    (prefix(x) \o x.topic)[Len(prefix(x)) + j] = x.topic[j]
            BY <3>1, <3>4, Concat, Zenon
        <3> QED
            BY <3>1, <3>2, <3>4, <3>5
    <2> HIDE DEF prefix
    <2>2. m.participant = k.participant /\ m.guid = k.guid
        <3>1. 2 \in 1..4 /\ 4 \in 1..4
            OBVIOUS
        <3> QED
            BY <2>1, <3>1
    <2>3. Len(m.topic) = Len(k.topic)
        BY <2>1
    <2>4. \A j \in 1..Len(m.topic) : m.topic[j] = k.topic[j]
        BY <2>1, <2>3
    <2>5. m.topic = k.topic
        BY <2>1, <2>3, <2>4, SeqEqual DEF Names
    <2> QED
        BY <2>2, <2>5
<1> QED
    BY <1>1, <1>2

\* No two messages with plain names have the same key, so that none replaces another
\* where Zenoh keeps the last one of a key (the publication cache of a bridge).
THEOREM PlainKeysDistinct ==
    ASSUME NEW m \in Message, NEW k \in Message, Plain(m), Plain(k),
           fwd_ke(m) = fwd_ke(k)
    PROVE  m = k
<1>1. m.uuid = k.uuid /\ m.kind = k.kind /\ relative_key(m) = relative_key(k)
    <2>1. [uuid |-> m.uuid, kind |-> m.kind, remaining_ke |-> relative_key(m)]
            = [uuid |-> k.uuid, kind |-> k.kind, remaining_ke |-> relative_key(k)]
        <3>1. parse_fwd_discovery_keyexpr(fwd_ke(m)) = parse_fwd_discovery_keyexpr(fwd_ke(k))
            BY Zenon
        <3> QED
            BY <3>1, PlainParsed, Zenon
    <2> QED
        BY <2>1
<1>2. m.scope = k.scope
    <2>1. /\ Len(m.scope) \in Nat /\ Len(k.scope) \in Nat /\ Len(relative_key(m)) \in Nat
          /\ Len(fwd_ke(m)) = 4 + Len(m.scope) + Len(relative_key(m))
          /\ Len(fwd_ke(m)) = 4 + Len(k.scope) + Len(relative_key(m))
          /\ \A i \in 1..Len(m.scope) : fwd_ke(m)[3 + i] = m.scope[i]
          /\ \A i \in 1..Len(k.scope) : fwd_ke(m)[3 + i] = k.scope[i]
        BY <1>1, KeyChunks
    <2>2. Len(m.scope) = Len(k.scope)
        BY <2>1
    <2>3. m.scope \in Names /\ k.scope \in Names
        BY RelativeKey
    <2> QED
        BY <2>1, <2>2, <2>3, SeqEqual DEF Names
<1>3. /\ m.guid = k.guid
      /\ m.kind # "ros_disco" => m.participant = k.participant /\ m.topic = k.topic
    BY <1>1, RelativeKeyTells
<1>4. CASE m.kind = "ros_disco"
    <2>1. ASSUME NEW x \in {m, k}
          PROVE  x = [uuid |-> x.uuid, scope |-> x.scope, kind |-> x.kind, guid |-> x.guid]
        BY <1>1, <1>4 DEF Message
    <2> QED
        BY <1>1, <1>2, <1>3, <2>1
<1>5. CASE m.kind # "ros_disco"
    <2>1. ASSUME NEW x \in {m, k}
          PROVE  x = [uuid |-> x.uuid, scope |-> x.scope, kind |-> x.kind,
                      participant |-> x.participant, guid |-> x.guid, topic |-> x.topic]
        BY <1>1, <1>5 DEF Message
    <2> QED
        BY <1>1, <1>2, <1>3, <1>5, <2>1
<1> QED
    BY <1>4, <1>5

-----------------------------------------------------------------------------

\* A message with plain names is understood (parse_fwd_discovery_keyexpr).
THEOREM PlainUnderstoodAlways == Spec => []PlainUnderstood
<1> DEFINE Inv ==
        /\ message \in Message \cup {Nothing}
        /\ received # Nothing =>
                /\ message # Nothing
                /\ received = parse_fwd_discovery_keyexpr(fwd_ke(message))
<1>1. Init => Inv
    BY DEF Init
<1>2. Inv /\ [Next]_vars => Inv'
    <2> SUFFICES ASSUME Inv, [Next]_vars PROVE Inv'
        OBVIOUS
    <2>1. CASE Publish
        BY <2>1 DEF Publish
    <2>2. CASE Receive
        BY <2>2 DEF Receive
    <2>3. CASE UNCHANGED vars
        BY <2>3 DEF vars
    <2> QED
        BY <2>1, <2>2, <2>3 DEF Next
<1>3. Inv => PlainUnderstood
    <2> SUFFICES ASSUME Inv, received # Nothing, Plain(message) PROVE Understood
        BY DEF PlainUnderstood
    <2>1. message \in Message /\ received = parse_fwd_discovery_keyexpr(fwd_ke(message))
        OBVIOUS
    <2> QED
        BY <2>1, PlainParsed DEF Understood
<1> QED
    BY <1>1, <1>2, <1>3, PTL DEF Spec
=============================================================================
