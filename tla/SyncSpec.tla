------------------------------- MODULE SyncSpec -------------------------------
(***************************************************************************)
(* What the Sync operations of the database accessor promise a caller:     *)
(* every write moves one entry of the table to where the caller wants it,  *)
(* no write moves one away from there, and the call returns without an     *)
(* error only when every entry is there that others left alone.            *)
(***************************************************************************)
CONSTANTS Key, Value

VARIABLES table,  \* each key with its value, or without an entry
          goal,   \* the table the last call wants
          busy,   \* it is under way
          res,    \* how the last call ended
          theirs  \* entries that others have written since it began

vars == <<table, goal, busy, res, theirs>>

Tables == [Key -> Value]

Init == table \in Tables /\ goal \in Tables /\ busy = FALSE
        /\ res = "none" /\ theirs = {}

Begin == /\ ~busy /\ goal' \in Tables
         /\ busy' = TRUE /\ res' = "none" /\ theirs' = {} /\ UNCHANGED table

Reject == /\ ~busy /\ goal' \in Tables
          /\ res' = "error" /\ theirs' = {} /\ UNCHANGED <<table, busy>>

Move == \E k \in Key : table' = [table EXCEPT ![k] = goal[k]]

Write == busy /\ Move /\ UNCHANGED <<goal, busy, res, theirs>>

Succeed == /\ busy /\ \A k \in Key \ theirs : table[k] = goal[k]
           /\ busy' = FALSE /\ res' = "ok" /\ UNCHANGED <<table, goal, theirs>>

\* The last write may have taken effect and only its reply been lost.
Fail == /\ busy /\ (Move \/ UNCHANGED table)
        /\ busy' = FALSE /\ res' = "error" /\ UNCHANGED <<goal, theirs>>

Meddle == /\ \E k \in Key, v \in Value : /\ table' = [table EXCEPT ![k] = v]
                                        /\ theirs' = theirs \cup {k}
          /\ UNCHANGED <<goal, busy, res>>

Next == Begin \/ Reject \/ Write \/ Succeed \/ Fail \/ Meddle

Spec == Init /\ [][Next]_vars
=============================================================================
