------------------------------ MODULE WalletCache ------------------------------
(***************************************************************************)
(* The cached balance of one recipient's wallet (wallets.balance_uctusd)   *)
(* and everything that writes it: settlements credit it, approvals of      *)
(* cash-outs debit it, failed cash-outs are added back, and new requests   *)
(* are admitted against it.                                                *)
(*                                                                         *)
(* Every writer locks the wallet row (SELECT ... FOR UPDATE) and commits   *)
(* its status change with the new balance: one action.  But it computes    *)
(* the new balance from the Wallet object of its database session, and a   *)
(* session that loaded the wallet earlier keeps the balance it read then:  *)
(* the locking SELECT has no populate_existing.                            *)
(***************************************************************************)
EXTENDS Integers, FiniteSets, FiniteSetsExt

CONSTANTS
    Transfers,   \* remittances to the recipient that the ledger pays
    CashOuts,    \* cash-out requests of the recipient
    Sessions,    \* database sessions (worker jobs and admin requests)
    Amount,      \* transfer or cash-out |-> its uctusd_amount
    NoItem

ASSUME ItemsAssumption  == Transfers \cap CashOuts = {} /\ NoItem \notin Transfers \cup CashOuts
ASSUME AmountAssumption == Amount \in [Transfers \cup CashOuts -> Nat \ {0}]

VARIABLES
    balance,   \* wallets.balance_uctusd
    transfer,  \* transfer |-> its settlement status
    cashout,   \* cash-out |-> its status
    session,   \* session |-> what it is about, and the balance its Wallet object holds
    lost       \* history: some writer wrote back a balance that had moved since it read it

vars == <<balance, transfer, cashout, session, lost>>

Task == {"idle", "credit", "approve", "undo", "restore"}
Session == [task : Task, item : Transfers \cup CashOuts \cup {NoItem}, seen : Int]
Idle == [task |-> "idle", item |-> NoItem, seen |-> 0]

TypeOK ==
    /\ balance \in Int
    /\ transfer \in [Transfers -> {"paid", "completed"}]
    /\ cashout \in [CashOuts -> {"absent", "requested", "approved", "completed", "failed"}]
    /\ session \in [Sessions -> Session]
    /\ lost \in BOOLEAN

Init ==
    /\ balance = 0
    /\ transfer = [p \in Transfers |-> "paid"]
    /\ cashout = [r \in CashOuts |-> "absent"]
    /\ session = [s \in Sessions |-> Idle]
    /\ lost = FALSE

Total(items) == SumFunctionOnSet(Amount, items)
Requested == {r \in CashOuts : cashout[r] = "requested"}
Reserved  == {r \in CashOuts : cashout[r] \in {"approved", "completed"}}
Credited  == {p \in Transfers : transfer[p] = "completed"}

-----------------------------------------------------------------------------
(* Building blocks.                                                        *)

\* Session s reads the wallet, for a task that may write it much later.
Load(s, t, i) ==
    /\ session[s].task = "idle"
    /\ session' = [session EXCEPT ![s] = [task |-> t, item |-> i, seen |-> balance]]
    /\ UNCHANGED <<balance, transfer, cashout, lost>>

End(s) == session' = [session EXCEPT ![s] = Idle]

\* The locked UPDATE by session s: its own idea of the balance, plus n.
WriteBack(s, n) ==
    /\ balance' = session[s].seen + n
    /\ lost' = (lost \/ session[s].seen # balance)

\* held_for_requests.
Held == Total(Requested)

-----------------------------------------------------------------------------
(* Settlements.                                                            *)

\* The worker loads the wallet in provision_wallet, before the payment.
LoadForCredit(s, p) ==
    /\ transfer[p] = "paid"
    /\ Load(s, "credit", p)

\* Mutant of CompleteSettlement: the credit does not depend on the transition.
CompleteSettlementAgain(s) ==
    LET p == session[s].item IN
    /\ session[s].task = "credit"
    /\ WriteBack(s, Amount[p]) /\ transfer' = [transfer EXCEPT ![p] = "completed"]
    /\ End(s)
    /\ UNCHANGED cashout

\* complete_settlement in that session.
CompleteSettlement(s) ==
    LET p == session[s].item IN
    /\ session[s].task = "credit"
    /\ IF transfer[p] = "paid"
       THEN WriteBack(s, Amount[p]) /\ transfer' = [transfer EXCEPT ![p] = "completed"]
       ELSE UNCHANGED <<balance, transfer, lost>>
    /\ End(s)
    /\ UNCHANGED cashout

\* complete_settlement from an admin's retry: that session has not read the wallet.
ReconcileSettlement(p) ==
    /\ transfer[p] = "paid"
    /\ transfer' = [transfer EXCEPT ![p] = "completed"]
    /\ balance' = balance + Amount[p]
    /\ UNCHANGED <<cashout, session, lost>>

-----------------------------------------------------------------------------
(* Cash-outs.                                                              *)

\* Mutant of CreateRequest: what is requested already is not held back.
CreateRequestUnheld(r) ==
    /\ cashout[r] = "absent"
    /\ Amount[r] <= balance
    /\ cashout' = [cashout EXCEPT ![r] = "requested"]
    /\ UNCHANGED <<balance, transfer, session, lost>>

\* create_request: check and insert under the lock, the wallet read for the first time.
CreateRequest(r) ==
    /\ cashout[r] = "absent"
    /\ Amount[r] <= balance - Held
    /\ cashout' = [cashout EXCEPT ![r] = "requested"]
    /\ UNCHANGED <<balance, transfer, session, lost>>

Reject(r) ==
    /\ cashout[r] = "requested"
    /\ cashout' = [cashout EXCEPT ![r] = "failed"]
    /\ UNCHANGED <<balance, transfer, session, lost>>

\* cashout_approve: get_request loads the wallet with the request.
LoadForApprove(s, r) ==
    /\ cashout[r] # "absent"
    /\ Load(s, "approve", r)

\* Mutant of Approve: the balance is not checked again.
ApproveUnchecked(s) ==
    LET r == session[s].item IN
    /\ session[s].task = "approve"
    /\ IF cashout[r] = "requested"
       THEN /\ WriteBack(s, -Amount[r])
            /\ cashout' = [cashout EXCEPT ![r] = "approved"]
            /\ session' = [session EXCEPT ![s] =
                             [@ EXCEPT !.task = "undo", !.seen = balance']]
       ELSE End(s) /\ UNCHANGED <<balance, cashout, lost>>
    /\ UNCHANGED transfer

\* approve: lock, check the balance, claim requested -> approved, debit, commit.
Approve(s) ==
    LET r == session[s].item IN
    /\ session[s].task = "approve"
    /\ IF Amount[r] <= session[s].seen /\ cashout[r] = "requested"
       THEN /\ WriteBack(s, -Amount[r])
            /\ cashout' = [cashout EXCEPT ![r] = "approved"]
            /\ session' = [session EXCEPT ![s] =
                             [@ EXCEPT !.task = "undo", !.seen = balance']]
       ELSE End(s) /\ UNCHANGED <<balance, cashout, lost>>
    /\ UNCHANGED transfer

\* The burn worker (db.get) or an admin's reconcile (get_request) loads the wallet.
LoadForRestore(s, r) ==
    /\ cashout[r] = "approved"
    /\ Load(s, "restore", r)

\* fail_and_restore, from those sessions or from the approval whose publish failed.
FailAndRestore(s) ==
    LET r == session[s].item IN
    /\ session[s].task \in {"restore", "undo"}
    /\ IF cashout[r] = "approved"
       THEN WriteBack(s, Amount[r]) /\ cashout' = [cashout EXCEPT ![r] = "failed"]
       ELSE UNCHANGED <<balance, cashout, lost>>
    /\ End(s)
    /\ UNCHANGED transfer

\* Mutant of CompleteBurn: a burnt cash-out gets a status the table does not have.
CompleteBurnAsBurnt(r) ==
    /\ cashout[r] = "approved"
    /\ cashout' = [cashout EXCEPT ![r] = "burnt"]
    /\ UNCHANGED <<balance, transfer, session, lost>>

\* complete_burn does not touch the wallet.
CompleteBurn(r) ==
    /\ cashout[r] = "approved"
    /\ cashout' = [cashout EXCEPT ![r] = "completed"]
    /\ UNCHANGED <<balance, transfer, session, lost>>

\* The session ends without another write: published, held, refused, or crashed.
Leave(s) ==
    /\ session[s].task # "idle"
    /\ End(s)
    /\ UNCHANGED <<balance, transfer, cashout, lost>>

\* Every step on money that is in the wallet, or in a request already made.
MoveMoney ==
    \/ \E s \in Sessions :
          \/ \E p \in Transfers : LoadForCredit(s, p)
          \/ \E r \in CashOuts : LoadForApprove(s, r) \/ LoadForRestore(s, r)
          \/ CompleteSettlement(s) \/ Approve(s) \/ FailAndRestore(s) \/ Leave(s)
    \/ \E p \in Transfers : ReconcileSettlement(p)
    \/ \E r \in CashOuts : Reject(r) \/ CompleteBurn(r)

Next == MoveMoney \/ \E r \in CashOuts : CreateRequest(r)

Spec == Init /\ [][Next]_vars

-----------------------------------------------------------------------------
(* Properties.                                                             *)

\* The cache is what was credited less what is reserved or burnt.
BooksBalance == balance = Total(Credited) - Total(Reserved)

\* A balance written back from a stale Wallet object is the only way the books can go
\* wrong: without one they balance through every retry, restore and double click.
BooksBalanceUnlessLost == ~lost => BooksBalance

\* Requests waiting for approval are always covered, so an approval never finds the
\* balance it was admitted against gone (create_request "cannot both pass an
\* availability check the wallet can only satisfy once").
RequestsCovered == ~lost => Held <= balance

\* The balance never goes negative, stale reads included: the debit is checked against
\* the very figure it is taken from ("so it can never go negative", cashout_service).
NeverNegative == balance >= 0
=============================================================================
