----------------------------- MODULE FwdKeyexpr -----------------------------
(***************************************************************************)
(* The key expressions of forwarded discovery messages, and how a bridge   *)
(* that receives one finds out what the message is about.                  *)
(*                                                                         *)
(* A key expression is the sequence of its chunks.  The kind of a message  *)
(* is not at a fixed place, as the scope before it has any number of       *)
(* chunks: the code searches the whole key for "/reader/", then for        *)
(* "/writer/", then for "/ros_disco/".                                     *)
(***************************************************************************)
EXTENDS Sequences, FiniteSetsExt

CONSTANTS
    Uuid,           \* the ids of the Zenoh sessions
    ScopeName,      \* the scopes of the publishing bridges, <<>> for none
    TopicName,      \* the names of DDS topics
    Guid            \* the GUIDs of DDS participants and endpoints

\* Names are sequences of chunks; a GUID is one chunk, of hexadecimal digits.
NamesAssumption ==
    /\ ScopeName \cup TopicName \subseteq Seq(STRING)
    /\ Guid \cap {"reader", "writer", "ros_disco"} = {}

ASSUME NamesAssumption

KE_PREFIX_ADMIN_SPACE == "@"
KE_PREFIX_FWD_DISCO == "@dds_fwd_disco"

Kind == {"reader", "writer", "ros_disco"}

get_entity_admin_keyexpr(participant, kind, guid, topic) ==
    <<"participant", participant, kind, guid>> \o topic

\* What a bridge publishes: the discovery of an endpoint, or what it read on
\* ros_discovery_info from a participant.
Message ==
    [uuid : Uuid, scope : ScopeName, kind : {"reader", "writer"},
     participant : Guid, guid : Guid, topic : TopicName]
    \cup [uuid : Uuid, scope : ScopeName, kind : {"ros_disco"}, guid : Guid]

relative_key(m) ==
    IF m.kind = "ros_disco" THEN <<m.guid>>
    ELSE get_entity_admin_keyexpr(m.participant, m.kind, m.guid, m.topic)

fwd_ke(m) ==
    <<KE_PREFIX_ADMIN_SPACE, m.uuid, KE_PREFIX_FWD_DISCO>> \o m.scope
        \o <<m.kind>> \o relative_key(m)

\* The places of "/chunk/" in ke: the first and last chunk are not between slashes.
places(ke, chunk) == {i \in 2 .. Len(ke) - 1 : ke[i] = chunk}

\* The last of them, instead of the first.
find_last(ke, chunk) == IF places(ke, chunk) = {} THEN 0 ELSE Max(places(ke, chunk))

\* The first of them; 0 if there is none.
find(ke, chunk) == IF places(ke, chunk) = {} THEN 0 ELSE Min(places(ke, chunk))

\* The kinds in the order in which they are searched.
SearchedKinds == <<"reader", "writer", "ros_disco">>

Nothing == [kind |-> "nothing"]

\* The receiver logs an error and drops the sample.
Ignored == [kind |-> "none"]

parse_fwd_discovery_keyexpr(ke) ==
    LET remaining == SubSeq(ke, 3, Len(ke))
        found == {k \in 1 .. 3 : find(remaining, SearchedKinds[k]) # 0}
        kind == SearchedKinds[Min(found)]
    IN
    IF \/ Len(ke) < 3
       \/ ke[1] # KE_PREFIX_ADMIN_SPACE
       \/ ke[3] # KE_PREFIX_FWD_DISCO
       \/ found = {}
    THEN Ignored
    ELSE [uuid |-> ke[2],
          kind |-> kind,
          remaining_ke |-> SubSeq(remaining, find(remaining, kind) + 1, Len(remaining))]

-----------------------------------------------------------------------------
(* One bridge publishes, another receives.                                  *)

VARIABLES
    message,    \* the message published last
    received    \* what the receiver took it for

vars == <<message, received>>

Init == message = Nothing /\ received = Nothing

Publish == message' \in Message /\ received' = Nothing

Receive ==
    /\ message # Nothing
    /\ received = Nothing
    /\ received' = parse_fwd_discovery_keyexpr(fwd_ke(message))
    /\ UNCHANGED message

Next == Publish \/ Receive

Spec == Init /\ [][Next]_vars

-----------------------------------------------------------------------------

Understood ==
    received = [uuid |-> message.uuid, kind |-> message.kind,
                remaining_ke |-> relative_key(message)]

\* No chunk of the scope is the name of a kind, and, when the message is about a
\* writer, "reader" is no chunk of the topic but possibly the last.
Plain(m) ==
    /\ \A i \in DOMAIN m.scope : m.scope[i] \notin Kind
    /\ m.kind = "writer" => \A i \in 1 .. Len(m.topic) - 1 : m.topic[i] # "reader"

\* A message is understood when its names are plain, although the relative key of
\* an endpoint repeats the kind and its topic may name kinds searched for later.
PlainUnderstood == received # Nothing => (Plain(message) => Understood)

\* A message is understood whatever its scope and topic are: the key has the
\* format "<admin>/<uuid>/<fwd_disco>[/scope/possibly/multiple]/<disco_kind>/
\* <remaining_ke...>", from which the parser takes the kind and what remains.
AllUnderstood == received # Nothing => Understood
=============================================================================
