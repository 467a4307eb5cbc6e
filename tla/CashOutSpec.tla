------------------------------ MODULE CashOutSpec ------------------------------
(***************************************************************************)
(* What the platform promises about a cash-out: the tokens are reserved,   *)
(* and then either burnt and paid out in fiat, or returned and never burnt.*)
(***************************************************************************)
CONSTANT Requests

VARIABLES
    stage,   \* request |-> how far it has come
    burnt    \* the requests whose tokens the ledger has destroyed

promiseVars == <<stage, burnt>>

Init ==
    /\ stage = [r \in Requests |-> "open"]
    /\ burnt = {}

Move(r, from, to) ==
    /\ stage[r] = from
    /\ stage' = [stage EXCEPT ![r] = to]
    /\ UNCHANGED burnt

\* One ledger may burn for several requests.
Burn(rs) ==
    /\ \A r \in rs : stage[r] = "reserved" /\ r \notin burnt
    /\ burnt' = burnt \cup rs
    /\ UNCHANGED stage

Next ==
    \/ \E r \in Requests : \/ Move(r, "open", "refused")
                           \/ Move(r, "open", "reserved")
                           \/ r \in burnt /\ Move(r, "reserved", "paid")
                           \/ r \notin burnt /\ Move(r, "reserved", "returned")
    \/ \E rs \in SUBSET Requests : Burn(rs)

Spec == Init /\ [][Next]_promiseVars
=============================================================================
