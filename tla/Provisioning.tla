------------------------------ MODULE Provisioning ------------------------------
(***************************************************************************)
(* Settlement with two things its jobs share: the recipient's wallet,      *)
(* which the first job to pay a new recipient creates (provision_wallet),  *)
(* and the sequence number of the treasury account, which every payment    *)
(* takes at autofill.  All rows pay one recipient, so that two jobs may    *)
(* both find no wallet.                                                    *)
(*                                                                         *)
(* A step here is a step of Settlement with more detail, or one that       *)
(* Settlement does not see.                                                *)
(***************************************************************************)
EXTENDS Settlement

CONSTANTS
    Accounts,   \* XRPL accounts the faucet may hand out (bound: one per call)
    NoAccount

ASSUME NoAccountAssumption == NoAccount \notin Accounts
ASSUME HashesAssumption    == IsFiniteSet(Hashes)

VARIABLES
    wallet,    \* the recipient's wallets row, unique per user
    funded,    \* accounts the faucet has made
    lines,     \* accounts with a trust line to the issuer, on the ledger
    desk,      \* worker |-> how far its provision_wallet is, the account it holds
    dest,      \* hash |-> the account it pays
    seq,       \* hash |-> its treasury sequence number
    treasury,  \* the treasury's next sequence number in the validated ledger
    unseen     \* history: payments whose job lost sight of them

walletVars   == <<wallet, funded, lines>>
sequenceVars == <<dest, seq, treasury, unseen>>
provisionedVars == <<vars, walletVars, desk, sequenceVars>>

MaybeAccount == Accounts \cup {NoAccount}
Desk == [at : {"none", "faucet", "insert", "trust", "ready"}, account : MaybeAccount]
Nothing == [at |-> "none", account |-> NoAccount]

ProvisioningTypeOK ==
    /\ TypeOK
    /\ wallet \in [address : MaybeAccount, trusted : BOOLEAN]
    /\ funded \in SUBSET Accounts /\ lines \in SUBSET Accounts
    /\ desk \in [Workers -> Desk]
    /\ dest \in [Hashes -> MaybeAccount]
    /\ seq \in [Hashes -> Nat] /\ treasury \in Nat \ {0}
    /\ unseen \in SUBSET Hashes

ProvisionedInit ==
    /\ Init
    /\ wallet = [address |-> NoAccount, trusted |-> FALSE]
    /\ funded = {} /\ lines = {}
    /\ desk = [w \in Workers |-> Nothing]
    /\ dest = [h \in Hashes |-> NoAccount]
    /\ seq = [h \in Hashes |-> 0] /\ treasury = 1
    /\ unseen = {}

-----------------------------------------------------------------------------
(* provision_wallet.                                                       *)

Hold(w, step, a) == desk' = [desk EXCEPT ![w] = [at |-> step, account |-> a]]
At(w, step) == job[w].at = "provision" /\ desk[w].at = step

\* get_wallet_for_user finds no row, or one whose trust line is still to be set.
LookUpWallet(w) ==
    /\ At(w, "none")
    /\ ~wallet.trusted
    /\ Hold(w, IF wallet.address = NoAccount THEN "faucet" ELSE "trust", wallet.address)
    /\ UNCHANGED <<vars, walletVars, sequenceVars>>

\* It finds a wallet that is ready.
FindWallet(w) ==
    /\ At(w, "none")
    /\ wallet.trusted
    /\ Hold(w, "ready", wallet.address)
    /\ Provisioned(w)
    /\ UNCHANGED <<walletVars, sequenceVars>>

\* Mutant of FundAccount: the faucet's answer is used without a look at its account.
FundAccountFails(w) ==
    /\ At(w, "faucet")
    /\ funded' = funded \cup {NoAccount}
    /\ Hold(w, "insert", NoAccount)
    /\ UNCHANGED <<vars, wallet, lines, sequenceVars>>

\* generate_faucet_wallet: the account exists before any row names it.
FundAccount(w) ==
    /\ At(w, "faucet")
    /\ \E a \in Accounts \ funded : funded' = funded \cup {a} /\ Hold(w, "insert", a)
    /\ UNCHANGED <<vars, wallet, lines, sequenceVars>>

\* Mutant of InsertWallet: user_id is not unique, and the last row is the one found.
InsertAnotherWallet(w) ==
    /\ At(w, "insert")
    /\ wallet' = [address |-> desk[w].account, trusted |-> FALSE]
    /\ Hold(w, "trust", desk[w].account)
    /\ UNCHANGED <<vars, funded, lines, sequenceVars>>

\* The row is committed before TrustSet.
InsertWallet(w) ==
    /\ At(w, "insert")
    /\ wallet.address = NoAccount
    /\ wallet' = [address |-> desk[w].account, trusted |-> FALSE]
    /\ Hold(w, "trust", desk[w].account)
    /\ UNCHANGED <<vars, funded, lines, sequenceVars>>

\* Another job's row is there: the commit violates the unique key.  The handler in
\* process_settlement then writes with a session that was not rolled back, which
\* raises again: the job ends and its row stays processing, as after a crash.
LoseRace(w) ==
    /\ At(w, "insert")
    /\ wallet.address # NoAccount
    /\ Crash(w)
    /\ desk' = [desk EXCEPT ![w] = Nothing]
    /\ UNCHANGED <<walletVars, sequenceVars>>

\* ensure_trust_line succeeds and commits trust_set_complete.
SetTrustLine(w) ==
    /\ At(w, "trust")
    /\ wallet' = [wallet EXCEPT !.trusted = TRUE]
    /\ lines' = lines \cup {desk[w].account}
    /\ Hold(w, "ready", desk[w].account)
    /\ Provisioned(w)
    /\ UNCHANGED <<funded, sequenceVars>>

\* TrustSet fails, or its outcome is not seen, or two jobs took one sequence number of
\* the wallet: trust_set_complete stays false, and the settlement is retried.
MissTrustLine(w) ==
    /\ At(w, "trust")
    /\ lines' \in {lines, lines \cup {desk[w].account}}
    /\ desk' = [desk EXCEPT ![w] = Nothing]
    /\ FailTransiently(w)
    /\ UNCHANGED <<wallet, funded, sequenceVars>>

-----------------------------------------------------------------------------
(* The treasury's payments.                                                *)

\* What autofill may read from the open ledger of its server: the sequence number
\* after those of any payments in flight that this server has applied.
NextSequence ==
    {s \in treasury .. treasury + Cardinality(Hashes) :
        \A n \in treasury .. s - 1 : \E h \in Hashes : pay[h].state = "submitted" /\ seq[h] = n}

\* autofill_and_sign a payment to the wallet the job holds.
SignFor(w, h) ==
    /\ Sign(w, h)
    /\ dest' = [dest EXCEPT ![h] = desk[w].account]
    /\ \E s \in NextSequence : seq' = [seq EXCEPT ![h] = s]
    /\ desk' = [desk EXCEPT ![w] = Nothing]
    /\ UNCHANGED <<walletVars, treasury, unseen>>

\* The job goes on, or dies, without seeing what becomes of its payment.
Forget(w) ==
    /\ LoseSight(w) \/ Crash(w)
    /\ unseen' = IF job[w].at \in {"submit", "wait"} THEN unseen \cup {job[w].hash} ELSE unseen
    /\ desk' = [desk EXCEPT ![w] = Nothing]
    /\ UNCHANGED <<walletVars, dest, seq, treasury>>

\* A ledger takes the treasury's payments in order, one per sequence number.
InSequence(included) ==
    {seq[h] : h \in included} = treasury .. treasury + Cardinality(included) - 1

LedgerClosesInSequence ==
    /\ SlowRpc \/ ~Querying
    /\ \E good, bad \in SUBSET Hashes :
          /\ CloseLedger(good, bad)
          /\ InSequence(good \cup bad)
          /\ treasury' = treasury + Cardinality(good \cup bad)
    /\ UNCHANGED <<row, queue, lock, job, session, credited, faults>>
    /\ UNCHANGED <<walletVars, desk, dest, seq, unseen>>

-----------------------------------------------------------------------------
(* The other steps of Settlement.                                          *)

\* Faucet errors are retried like the errors of the lock and of autofill.
FailBeforeSigning(w) ==
    /\ job[w].at = "provision" => desk[w].at = "faucet"
    /\ FailTransiently(w)
    /\ desk' = [desk EXCEPT ![w] = Nothing]

\* The row has no recipient, which is seen first; or an amount that cannot be sent.
FailForGood(w) ==
    /\ job[w].at = "provision" => desk[w].at = "none"
    /\ FailUnsigned(w)
    /\ desk' = [desk EXCEPT ![w] = Nothing]

Untouched ==
    \/ \E w \in Workers :
          \/ AcquireLock(w) \/ Submit(w) \/ Observe(w) \/ CompleteSettlement(w)
          \/ FailSigned(w) \/ HandBack(w) \/ Requeue(w)
    \/ \E t \in Rows : \/ CreateRemittance(t) \/ MarkCashinFailed(t) \/ SetAmlFlag(t)
                       \/ GrowOld(t) \/ LoseMessage(t) \/ Deliver(t)
    \/ \E stale \in SUBSET Rows : ExpireStaleCashins(stale)
    \/ \E a \in Admins, t \in Rows :
          MarkCashinReceived(a, t) \/ StartRequeue(a, t) \/ StartRetry(a, t)
    \/ \E a \in Admins : RequestSteps(a) \/ Abort(a)
    \/ LockExpires
    \/ ServerBackfills

ProvisionedNext ==
    \/ \E w \in Workers :
          \/ LookUpWallet(w) \/ FindWallet(w) \/ FundAccount(w) \/ InsertWallet(w)
          \/ LoseRace(w) \/ SetTrustLine(w) \/ MissTrustLine(w)
          \/ \E h \in Hashes : SignFor(w, h)
          \/ Forget(w)
          \/ (FailBeforeSigning(w) \/ FailForGood(w)) /\ UNCHANGED <<walletVars, sequenceVars>>
    \/ LedgerClosesInSequence
    \/ Untouched /\ UNCHANGED <<walletVars, desk, sequenceVars>>

ProvisionedSpec == ProvisionedInit /\ [][ProvisionedNext]_provisionedVars

-----------------------------------------------------------------------------
(* Properties.                                                             *)

\* Whoever wins the race to create it, a recipient has one wallet for ever: every
\* payment was signed to the account of the wallets row, whose key is therefore kept,
\* and that account could hold the tokens (FR-WAL-01, provision_wallet "Idempotent").
PaidToTheWallet ==
    \A h \in Hashes : pay[h].state # "unsigned" =>
        dest[h] = wallet.address /\ dest[h] \in lines

\* Two payments share a treasury sequence number only after some job lost sight of one
\* of them: the lock is enough while every payment's outcome is seen, and not after a
\* crash or a timeout (treasury_lock: "two workers take the same sequence").
ClashOnlyUnseen ==
    \A h, k \in Hashes :
        (h # k /\ {pay[h].state, pay[k].state} \cap {"unsigned", "void"} = {} /\ seq[h] = seq[k])
            => {h, k} \cap unseen # {}
=============================================================================
