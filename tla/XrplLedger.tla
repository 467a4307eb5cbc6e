------------------------------ MODULE XrplLedger ------------------------------
(***************************************************************************)
(* The XRP Ledger as app/services/xrpl_service.py uses it: an external     *)
(* system.  A payment is signed off-ledger with a LastLedgerSequence, then *)
(* submitted, and from that moment the network may include it in any       *)
(* ledger up to that sequence, whether or not the submitter still listens. *)
(* One public server answers every query: it knows the latest validated    *)
(* ledger but may lack the history of some of the ledgers before it.       *)
(***************************************************************************)
EXTENDS Naturals, FiniteSets

CONSTANTS
    Rows,       \* database rows a payment is signed for (transfers or cash-outs)
    Hashes,     \* transaction hashes
    NoRow,      \* the row of a hash nobody has signed yet
    Window,     \* LastLedgerSequence - current ledger, chosen by autofill
    MaxLedger,  \* bound: the last ledger that closes in a behaviour
    MaxGaps     \* bound: ledgers the server misses at a time

ASSUME NoRowAssumption  == NoRow \notin Rows
ASSUME WindowAssumption == Window \in Nat \ {0}
ASSUME BoundAssumption  == MaxLedger \in Nat \ {0} /\ MaxGaps \in Nat

VARIABLES
    pay,        \* hash |-> the signed transaction and what became of it
    validated,  \* index of the latest validated ledger
    history     \* the ledgers the queried server holds

ledgerVars == <<pay, validated, history>>

\* unsigned: no such transaction.  signed: exists in its signer's memory only.
\* submitted: the network has it.  void: the server rejected the blob (tem*).
\* tes / tec: included in a validated ledger, and did / did not move funds.
PayState == {"unsigned", "signed", "submitted", "void", "tes", "tec"}

Payment == [row : Rows \cup {NoRow}, state : PayState, last : Nat, ledger : Nat]

LedgerTypeOK ==
    /\ pay \in [Hashes -> Payment]
    /\ validated \in Nat
    /\ history \in SUBSET Nat

LedgerInit ==
    /\ pay = [h \in Hashes |-> [row |-> NoRow, state |-> "unsigned", last |-> 0, ledger |-> 0]]
    /\ validated = 1
    /\ history = {1}

-----------------------------------------------------------------------------
(* What a client does.                                                     *)

\* autofill_and_sign: a fresh hash, valid for Window more ledgers.
SignPayment(h, r) ==
    /\ pay[h].state = "unsigned"
    /\ pay' = [pay EXCEPT ![h] =
                 [row |-> r, state |-> "signed", last |-> validated + Window, ledger |-> 0]]
    /\ UNCHANGED <<validated, history>>

SetState(h, s) ==
    /\ pay' = [pay EXCEPT ![h] = [@ EXCEPT !.state = s]]
    /\ UNCHANGED <<validated, history>>

\* The server's answers.  A transaction in a ledger the server does not hold is
\* reported exactly like one that does not exist (txnNotFound).
Sees(h)      == pay[h].state \in {"tes", "tec"} /\ pay[h].ledger \in history
SeesTes(h)   == Sees(h) /\ pay[h].state = "tes"
SeesTec(h)   == Sees(h) /\ pay[h].state = "tec"
Unbroken(first, last) == first..last \subseteq history

-----------------------------------------------------------------------------
(* What the network does.                                                  *)

Includable(h) == pay[h].state = "submitted" /\ validated + 1 <= pay[h].last

\* The next ledger validates with the payments in good and bad, which did and did
\* not move funds.  The server stores it, or misses it.
CloseLedger(good, bad) ==
    /\ validated < MaxLedger
    /\ good \cap bad = {}
    /\ \A h \in good \cup bad : Includable(h)
    /\ validated' = validated + 1
    /\ pay' = [h \in Hashes |->
                 IF h \in good THEN [pay[h] EXCEPT !.state = "tes", !.ledger = validated + 1]
                 ELSE IF h \in bad THEN [pay[h] EXCEPT !.state = "tec", !.ledger = validated + 1]
                 ELSE pay[h]]
    /\ \/ history' = history \cup {validated + 1}
       \/ Cardinality((1..validated) \ history) < MaxGaps /\ history' = history

\* The server acquires the ledgers it lacked.
Backfill ==
    /\ history' = history \cup 1..validated
    /\ UNCHANGED <<pay, validated>>

-----------------------------------------------------------------------------
(* Facts about a signed payment.                                           *)

Landed(h)  == pay[h].state = "tes"
Dead(h)    == \/ pay[h].state \in {"void", "tec"}
              \/ pay[h].state \in {"signed", "submitted"} /\ pay[h].last <= validated
=============================================================================
