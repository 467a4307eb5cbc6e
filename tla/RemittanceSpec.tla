---------------------------- MODULE RemittanceSpec ----------------------------
(***************************************************************************)
(* What the platform promises about a remittance, whatever goes on inside: *)
(* the money comes in or the transfer is cancelled; money that came in is  *)
(* paid to the recipient on the ledger at most once; and the recipient's   *)
(* wallet is credited at most once, after the payment.                     *)
(***************************************************************************)
EXTENDS Naturals

CONSTANTS Transfers, Payments

VARIABLES
    cash,    \* transfer |-> where the sender's card payment stands
    paid,    \* transfer |-> the payments that moved funds to the recipient
    credit   \* transfer |-> times the wallet was credited

promiseVars == <<cash, paid, credit>>

Init ==
    /\ cash = [t \in Transfers |-> "absent"]
    /\ paid = [t \in Transfers |-> {}]
    /\ credit = [t \in Transfers |-> 0]

\* A transfer is created; a declined card fails it at once.
Open(t) ==
    /\ cash[t] = "absent"
    /\ \E c \in {"pending", "failed"} : cash' = [cash EXCEPT ![t] = c]
    /\ UNCHANGED <<paid, credit>>

Fund(t) ==
    /\ cash[t] = "pending"
    /\ cash' = [cash EXCEPT ![t] = "received"]
    /\ UNCHANGED <<paid, credit>>

\* One sweep may cancel several.
Cancel(ts) ==
    /\ \A t \in ts : cash[t] = "pending"
    /\ cash' = [t \in Transfers |-> IF t \in ts THEN "failed" ELSE cash[t]]
    /\ UNCHANGED <<paid, credit>>

\* One ledger may pay several, each for the first time.
Pay(ts) ==
    /\ \A t \in ts : cash[t] = "received" /\ paid[t] = {}
    /\ \E p \in [ts -> Payments] :
          paid' = [t \in Transfers |-> IF t \in ts THEN {p[t]} ELSE paid[t]]
    /\ UNCHANGED <<cash, credit>>

Credit(t) ==
    /\ paid[t] # {}
    /\ credit[t] = 0
    /\ credit' = [credit EXCEPT ![t] = 1]
    /\ UNCHANGED <<cash, paid>>

Next ==
    \/ \E t \in Transfers : Open(t) \/ Fund(t) \/ Credit(t)
    \/ \E ts \in SUBSET Transfers : Cancel(ts) \/ Pay(ts)

Spec == Init /\ [][Next]_promiseVars
=============================================================================
