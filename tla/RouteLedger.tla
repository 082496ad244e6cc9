----------------------------- MODULE RouteLedger ----------------------------
(***************************************************************************)
(* What the routes of one direction promise: a ledger of which clients     *)
(* each key serves.  A key opens with its first client and closes with its *)
(* last.  A client is added to some of the keys it may use; clients that   *)
(* leave together are gone from all keys in one step, and only keys that   *)
(* served one of them may close.                                           *)
(***************************************************************************)
CONSTANTS
    Client, Key,
    Group       \* the sets of clients that leave together

VARIABLES
    open,       \* the keys that have a route
    serves      \* [Key -> SUBSET Client], the clients of each route

TypeOK == open \in SUBSET Key /\ serves \in [Key -> SUBSET Client]

Init == open = {} /\ serves = [ke \in Key |-> {}]

Join(c, keys) ==
    /\ serves' = [ke \in Key |-> IF ke \in keys THEN serves[ke] \cup {c} ELSE serves[ke]]
    /\ open' = open \cup keys

Leave(group) ==
    /\ serves' = [ke \in Key |-> serves[ke] \ group]
    /\ open' = {ke \in open : serves'[ke] # {}}

Next ==
    \/ \E c \in Client, keys \in SUBSET Key : Join(c, keys)
    \/ \E group \in Group : Leave(group)

Spec == Init /\ [][Next]_<<open, serves>>
=============================================================================
