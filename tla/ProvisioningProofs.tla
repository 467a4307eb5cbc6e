--------------------------- MODULE ProvisioningProofs ---------------------------
(***************************************************************************)
(* Provisioning adds detail to Settlement and takes nothing away: all that *)
(* is proved of Settlement holds with it.  And what it adds holds for any  *)
(* number of rows, workers, payments and accounts.                         *)
(***************************************************************************)
EXTENDS Provisioning, SettlementRefinement, FiniteSetTheorems

-----------------------------------------------------------------------------
(* Refinement.                                                             *)

LEMMA StepRefines == [ProvisionedNext]_provisionedVars => [Next]_vars
<1> SUFFICES ASSUME [ProvisionedNext]_provisionedVars PROVE [Next]_vars
  OBVIOUS
<1>1. ASSUME NEW w \in Workers, LookUpWallet(w) \/ FundAccount(w) \/ InsertWallet(w)
      PROVE  UNCHANGED vars
  BY <1>1 DEF LookUpWallet, FundAccount, InsertWallet
<1>2. ASSUME NEW w \in Workers, FindWallet(w) \/ SetTrustLine(w) PROVE Next
  BY <1>2 DEF FindWallet, SetTrustLine, Next, JobSteps
<1>3. ASSUME NEW w \in Workers, LoseRace(w) PROVE Next
  BY <1>3 DEF LoseRace, Next
<1>4. ASSUME NEW w \in Workers, MissTrustLine(w) \/ FailBeforeSigning(w) PROVE Next
  BY <1>4 DEF MissTrustLine, FailBeforeSigning, Next, JobSteps
<1>5. ASSUME NEW w \in Workers, NEW h \in Hashes, SignFor(w, h) PROVE Next
  BY <1>5 DEF SignFor, Next, JobSteps
<1>6. ASSUME NEW w \in Workers, Forget(w) PROVE Next
  BY <1>6 DEF Forget, Next, JobSteps
<1>7. ASSUME NEW w \in Workers, FailForGood(w) PROVE Next
  BY <1>7 DEF FailForGood, Next, JobSteps
<1>8. CASE LedgerClosesInSequence
  <2>1. LedgerCloses
    BY <1>8 DEF LedgerClosesInSequence, LedgerCloses
  <2> QED
    BY <2>1 DEF Next
<1>9. CASE Untouched
  BY <1>9 DEF Untouched, Next, JobSteps
<1>10. CASE UNCHANGED provisionedVars
  BY <1>10 DEF provisionedVars
<1> QED
  BY <1>1, <1>2, <1>3, <1>4, <1>5, <1>6, <1>7, <1>8, <1>9, <1>10 DEF ProvisionedNext

\* A behaviour with its wallets and sequence numbers is a behaviour of Settlement:
\* neither can lead a settlement where the simpler model does not go.
THEOREM RefinesSettlement == ProvisionedSpec => Spec
<1>1. ProvisionedInit => Init
  BY DEF ProvisionedInit
<1> QED
  BY <1>1, StepRefines, PTL DEF ProvisionedSpec, Spec

\* So, with wallets made and lost in races, a remittance is still paid at most once.
THEOREM ProvisionedPaidOnce ==
    ASSUME SlowRpc = FALSE PROVE ProvisionedSpec => []NoDoublePayment
BY RefinesSettlement, PaidAtMostOnce, PTL

\* And, with them, the promise to sender and recipient is kept as well.
THEOREM ProvisionedPromise ==
    ASSUME SlowRpc = FALSE PROVE ProvisionedSpec => ImplementsPromise
BY RefinesSettlement, PromiseIsKept, PTL

\* Whatever the ledger does meanwhile: nothing is paid before its money came in, and
\* a queued row is nobody's.
THEOREM ProvisionedFunded ==
    ProvisionedSpec => []CashBeforePayment /\ []QueuedIsClaimable
BY RefinesSettlement, PaidOnlyIfFunded, QueuedRowsAreFree, PTL

-----------------------------------------------------------------------------
(* Types.                                                                  *)

LEMMA HoldEffect ==
    ASSUME desk \in [Workers -> Desk], NEW w \in Workers,
           NEW s \in {"none", "faucet", "insert", "trust", "ready"}, NEW a \in MaybeAccount, Hold(w, s, a)
    PROVE  /\ desk' \in [Workers -> Desk]
           /\ desk'[w].at = s /\ desk'[w].account = a
           /\ \A v \in Workers \ {w} : desk'[v] = desk[v]
BY DEF Hold, Desk

LEMMA ClearEffect ==
    ASSUME desk \in [Workers -> Desk], NEW w \in Workers, desk' = [desk EXCEPT ![w] = Nothing]
    PROVE  /\ desk' \in [Workers -> Desk]
           /\ desk'[w].at = "none" /\ \A v \in Workers \ {w} : desk'[v] = desk[v]
BY DEF Desk, Nothing, MaybeAccount

\* Sequence numbers are numbers: what a payment may be signed with, what a ledger adds.
LEMMA NextSequenceNat ==
    ASSUME treasury \in Nat \ {0}, NEW s \in NextSequence
    PROVE  s \in Nat /\ s >= treasury
<1>1. Cardinality(Hashes) \in Nat
  BY HashesAssumption, FS_CardinalityType
<1> QED
  BY <1>1 DEF NextSequence

LEMMA InSequenceNat ==
    ASSUME treasury \in Nat \ {0}, NEW included \in SUBSET Hashes, InSequence(included)
    PROVE  /\ treasury + Cardinality(included) \in Nat \ {0}
           /\ treasury + Cardinality(included) >= treasury
           /\ \A h \in included : seq[h] < treasury + Cardinality(included)
<1>1. Cardinality(included) \in Nat
  BY HashesAssumption, FS_Subset, FS_CardinalityType
<1>2. \A h \in included : seq[h] \in treasury .. treasury + Cardinality(included) - 1
  BY DEF InSequence
<1> QED
  BY <1>1, <1>2

-----------------------------------------------------------------------------
(* The recipient's wallet.                                                 *)

\* The account a job holds, from insert on, is the wallet's; a job that may sign holds
\* an account with a trust line.
DeskInv ==
    \A w \in Workers :
        /\ desk[w].at = "insert" => desk[w].account \in Accounts
        /\ desk[w].at \in {"trust", "ready"} =>
              desk[w].account \in Accounts /\ desk[w].account = wallet.address
        /\ desk[w].at = "ready" => wallet.trusted
        /\ job[w].at \in {"lock", "sign"} => desk[w].at = "ready"

WalletInv ==
    /\ DeskInv
    /\ wallet.trusted => wallet.address \in lines
    /\ PaidToTheWallet

-----------------------------------------------------------------------------
(* The treasury's sequence numbers.                                        *)

Live(h) == pay[h].state \notin {"unsigned", "void"}
Pursuing(w) == job[w].at \in {"submit", "wait"}

\* A job pursues a payment that was signed; a payment in a ledger has used its sequence
\* number up; one that may still get there is pursued, unless its job lost sight of it.
SequenceInv ==
    /\ \A w \in Workers : Pursuing(w) => job[w].hash \in Hashes /\ Live(job[w].hash)
    /\ \A h \in Hashes : pay[h].state \in {"tes", "tec"} => seq[h] < treasury
    /\ \A h \in Hashes : pay[h].state \in {"signed", "submitted"} =>
          h \in unseen \/ \E w \in Workers : Pursuing(w) /\ job[w].hash = h
    /\ ClashOnlyUnseen

LEMMA ProvisioningTypeStep ==
    ASSUME ProvisioningTypeOK, WalletInv, SequenceInv, TypeOK', [ProvisionedNext]_provisionedVars
    PROVE  ProvisioningTypeOK'
<1> USE DEF ProvisioningTypeOK
<1>1. ASSUME NEW w \in Workers, LookUpWallet(w) PROVE ProvisioningTypeOK'
  <2>1. PICK s \in {"faucet", "trust"} : Hold(w, s, wallet.address)
    BY <1>1 DEF LookUpWallet
  <2>2. desk' \in [Workers -> Desk]
    BY <2>1, HoldEffect
  <2> QED
    BY <1>1, <2>2 DEF LookUpWallet, walletVars, sequenceVars
<1>2. ASSUME NEW w \in Workers, FindWallet(w) PROVE ProvisioningTypeOK'
  <2>1. desk' \in [Workers -> Desk]
    BY <1>2, HoldEffect DEF FindWallet
  <2> QED
    BY <1>2, <2>1 DEF FindWallet, walletVars, sequenceVars
<1>3. ASSUME NEW w \in Workers, FundAccount(w) PROVE ProvisioningTypeOK'
  <2>1. PICK a \in Accounts : funded' = funded \cup {a} /\ Hold(w, "insert", a)
    BY <1>3 DEF FundAccount
  <2>2. desk' \in [Workers -> Desk] /\ funded' \in SUBSET Accounts
    BY <2>1, HoldEffect DEF MaybeAccount
  <2> QED
    BY <1>3, <2>2 DEF FundAccount, sequenceVars
<1>4. ASSUME NEW w \in Workers, InsertWallet(w) PROVE ProvisioningTypeOK'
  <2>1. desk[w].account \in MaybeAccount
    BY DEF Desk
  <2>2. desk' \in [Workers -> Desk]
    BY <1>4, <2>1, HoldEffect DEF InsertWallet
  <2>3. wallet' \in [address : MaybeAccount, trusted : BOOLEAN]
    BY <1>4, <2>1 DEF InsertWallet
  <2> QED
    BY <1>4, <2>2, <2>3 DEF InsertWallet, sequenceVars
<1>5. ASSUME NEW w \in Workers, desk' = [desk EXCEPT ![w] = Nothing],
             UNCHANGED <<walletVars, sequenceVars>>
      PROVE  ProvisioningTypeOK'
  <2>1. desk' \in [Workers -> Desk]
    BY <1>5, ClearEffect
  <2> QED
    BY <1>5, <2>1 DEF walletVars, sequenceVars
<1>6. ASSUME NEW w \in Workers, SetTrustLine(w) PROVE ProvisioningTypeOK'
  <2>1. desk[w].account \in Accounts
    BY <1>6 DEF SetTrustLine, At, WalletInv, DeskInv
  <2>2. desk' \in [Workers -> Desk]
    BY <1>6, <2>1, HoldEffect DEF SetTrustLine, MaybeAccount
  <2>3. wallet' \in [address : MaybeAccount, trusted : BOOLEAN]
    BY <1>6 DEF SetTrustLine
  <2> QED
    BY <1>6, <2>1, <2>2, <2>3 DEF SetTrustLine, sequenceVars
<1>7. ASSUME NEW w \in Workers, MissTrustLine(w) PROVE ProvisioningTypeOK'
  <2>1. desk[w].account \in Accounts
    BY <1>7 DEF MissTrustLine, At, WalletInv, DeskInv
  <2>2. desk' \in [Workers -> Desk]
    BY <1>7, ClearEffect DEF MissTrustLine
  <2> QED
    BY <1>7, <2>1, <2>2 DEF MissTrustLine, sequenceVars
<1>8. ASSUME NEW w \in Workers, NEW h \in Hashes, SignFor(w, h) PROVE ProvisioningTypeOK'
  <2>1. PICK s \in NextSequence : seq' = [seq EXCEPT ![h] = s]
    BY <1>8 DEF SignFor
  <2>2. seq' \in [Hashes -> Nat]
    BY <2>1, NextSequenceNat
  <2>3. desk' \in [Workers -> Desk]
    BY <1>8, ClearEffect DEF SignFor
  <2>4. dest' \in [Hashes -> MaybeAccount]
    BY <1>8 DEF SignFor, Desk
  <2> QED
    BY <1>8, <2>2, <2>3, <2>4 DEF SignFor, walletVars
<1>9. ASSUME NEW w \in Workers, Forget(w) PROVE ProvisioningTypeOK'
  <2>1. desk' \in [Workers -> Desk]
    BY <1>9, ClearEffect DEF Forget
  <2>2. unseen' \in SUBSET Hashes
    BY <1>9 DEF Forget, SequenceInv, Pursuing
  <2> QED
    BY <1>9, <2>1, <2>2 DEF Forget, walletVars
<1>10. CASE LedgerClosesInSequence
  <2>1. PICK good \in SUBSET Hashes, bad \in SUBSET Hashes :
            InSequence(good \cup bad) /\ treasury' = treasury + Cardinality(good \cup bad)
    BY <1>10 DEF LedgerClosesInSequence
  <2>2. treasury' \in Nat \ {0}
    BY <2>1, InSequenceNat
  <2> QED
    BY <1>10, <2>2 DEF LedgerClosesInSequence, walletVars
<1>11. CASE UNCHANGED <<walletVars, desk, sequenceVars>>
  BY <1>11 DEF walletVars, sequenceVars
<1> QED
  BY <1>1, <1>2, <1>3, <1>4, <1>5, <1>6, <1>7, <1>8, <1>9, <1>10, <1>11
     DEF ProvisionedNext, provisionedVars, LoseRace, FailBeforeSigning, FailForGood

-----------------------------------------------------------------------------
(* What the steps of Settlement do here.                                   *)

\* No payment is signed or made live.
NoneSigned == \A h \in Hashes : /\ pay[h].state = "unsigned" => pay'[h].state = "unsigned"
                                /\ Live(h)' => Live(h)

LEMMA StillNoneSigned == UNCHANGED ledgerVars => NoneSigned
BY DEF ledgerVars, NoneSigned, Live

\* Worker w's job is not, or no longer, in the lock's block.
Left(w) == job'[w].at \notin {"lock", "sign", "submit", "wait"}

LEMMA SubmitEffect ==
    ASSUME TypeOK, SequenceInv, NEW w \in Workers, Submit(w)
    PROVE  /\ NoneSigned
           /\ \A v \in Workers \ {w} : job'[v] = job[v]
           /\ job[w].at = "submit" /\ job'[w].hash = job[w].hash /\ job[w].hash \in Hashes
           /\ \A k \in Hashes \ {job[w].hash} : pay'[k] = pay[k]
           /\ \/ job'[w].at = "wait" /\ pay'[job[w].hash].state = "submitted"
              \/ job'[w].at = "failed" /\ pay'[job[w].hash].state = "void"
<1>1. PICK h \in Hashes : job[w].hash = h /\ Live(h) /\ job[w].at = "submit"
  BY DEF Submit, SequenceInv, Pursuing
<1>2. \A k \in Hashes \ {h} : pay'[k] = pay[k]
  BY <1>1 DEF Submit, SetState, TypeOK, LedgerTypeOK
<1>3. /\ \A v \in Workers \ {w} : job'[v] = job[v]
      /\ job'[w].hash = job[w].hash
      /\ \/ job'[w].at = "wait" /\ pay'[h].state = "submitted"
         \/ job'[w].at = "failed" /\ pay'[h].state = "void"
  BY <1>1, JobToEffect DEF Submit, SetState, TypeOK, LedgerTypeOK, Payment
<1> QED
  BY <1>1, <1>2, <1>3 DEF NoneSigned, Live

\* The steps of Settlement that Provisioning takes unchanged, apart from Submit.
LEMMA UntouchedEffect ==
    ASSUME TypeOK, Untouched, \A w \in Workers : ~Submit(w)
    PROVE  /\ UNCHANGED ledgerVars \/ UNCHANGED pay
           /\ \A w \in Workers :
                 \/ job'[w].at = job[w].at /\ job'[w].hash = job[w].hash
                 \/ job[w].at = "lock" /\ job'[w].at = "sign"
                 \/ Left(w) /\ ~Pursuing(w)
                 \/ Left(w) /\ pay[job[w].hash].state \in {"tes", "tec"}
<1> DEFINE Ok == /\ UNCHANGED ledgerVars \/ UNCHANGED pay
                 /\ \A w \in Workers :
                       \/ job'[w].at = job[w].at /\ job'[w].hash = job[w].hash
                       \/ job[w].at = "lock" /\ job'[w].at = "sign"
                       \/ Left(w) /\ ~Pursuing(w)
                       \/ Left(w) /\ pay[job[w].hash].state \in {"tes", "tec"}
<1> SUFFICES Ok
  OBVIOUS
<1>1. ASSUME UNCHANGED job, UNCHANGED ledgerVars \/ UNCHANGED pay PROVE Ok
  BY <1>1
<1>2. ASSUME NEW w \in Workers, UNCHANGED ledgerVars, ~Pursuing(w), Left(w),
             \A v \in Workers \ {w} : job'[v] = job[v]
      PROVE  Ok
  BY <1>2
<1>3. ASSUME NEW w \in Workers, AcquireLock(w) PROVE Ok
  <2>1. job'[w].at = "sign" /\ \A v \in Workers \ {w} : job'[v] = job[v]
    BY <1>3 DEF AcquireLock, TypeOK, Job
  <2> QED
    BY <1>3, <2>1 DEF AcquireLock
<1>4. ASSUME NEW w \in Workers, Observe(w) PROVE Ok
  <2>1. /\ job'[w].at \in {"succeeded", "failed"} /\ \A v \in Workers \ {w} : job'[v] = job[v]
        /\ pay[job[w].hash].state \in {"tes", "tec"}
    BY <1>4, JobToEffect DEF Observe
  <2> QED
    BY <1>4, <2>1 DEF Observe, Left
<1>5. ASSUME NEW w \in Workers, CompleteSettlement(w) \/ FailSigned(w) \/ Requeue(w) PROVE Ok
  BY <1>5, <1>2, JobEndEffect DEF CompleteSettlement, FailSigned, Requeue, Left, Pursuing
<1>6. ASSUME NEW w \in Workers, HandBack(w) PROVE Ok
  <2>1. job'[w].at \in {"idle", "requeue"} /\ \A v \in Workers \ {w} : job'[v] = job[v]
    BY <1>6, JobEndEffect DEF HandBack, TypeOK, IdleJob
  <2> QED
    BY <1>6, <2>1, <1>2 DEF HandBack, Left, Pursuing
<1>7. ASSUME NEW t \in Rows, NEW w \in Workers, Claim(w, t) PROVE Ok
  <2>1. job'[w].at = "provision" /\ \A v \in Workers \ {w} : job'[v] = job[v]
    BY <1>7 DEF Claim, TypeOK
  <2> QED
    BY <1>7, <2>1, <1>2 DEF Claim, Left, Pursuing
<1>8. ASSUME NEW t \in Rows,
             \/ CreateRemittance(t) \/ MarkCashinFailed(t) \/ SetAmlFlag(t)
             \/ GrowOld(t) \/ LoseMessage(t) \/ Deliver(t)
      PROVE  Ok
  BY <1>8, <1>1, <1>7 DEF CreateRemittance, MarkCashinFailed, SetAmlFlag, GrowOld, LoseMessage,
                          Deliver, Skip
<1>9. ASSUME NEW stale \in SUBSET Rows, ExpireStaleCashins(stale) PROVE Ok
  BY <1>9, <1>1 DEF ExpireStaleCashins
<1>10. ASSUME NEW a \in Admins, NEW t \in Rows,
              MarkCashinReceived(a, t) \/ StartRequeue(a, t) \/ StartRetry(a, t)
       PROVE  Ok
  BY <1>10, <1>1 DEF MarkCashinReceived, StartRequeue, StartRetry
<1>11. ASSUME NEW a \in Admins, RequestSteps(a) \/ Abort(a) PROVE Ok
  BY <1>11, <1>1 DEF RequestSteps, LookUp, CheckLatest, CheckRange, Reset, Reconcile,
                     Publish, PublishRaises, Unpublish, Abort
<1>12. CASE LockExpires \/ ServerBackfills
  BY <1>12, <1>1 DEF LockExpires, ServerBackfills, Backfill
<1> HIDE DEF Ok
<1> QED
  BY <1>3, <1>4, <1>5, <1>6, <1>8, <1>9, <1>10, <1>11, <1>12 DEF Untouched

-----------------------------------------------------------------------------
(* The wallet's invariant is kept.                                         *)

\* Worker w leaves its provisioning, or did nothing at the desk.
LEMMA WalletLeft ==
    ASSUME WalletInv, NoneSigned, UNCHANGED <<wallet, dest>>, lines \subseteq lines',
           \A w \in Workers :
              \/ /\ desk'[w] = desk[w]
                 /\ job'[w].at \in {"lock", "sign"} => job[w].at \in {"lock", "sign"}
              \/ desk'[w].at = "none" /\ job'[w].at \notin {"lock", "sign"}
    PROVE  WalletInv'
<1>1. DeskInv'
  BY DEF WalletInv, DeskInv
<1>2. PaidToTheWallet'
  BY DEF WalletInv, PaidToTheWallet, NoneSigned
<1> QED
  BY <1>1, <1>2 DEF WalletInv

LEMMA WalletStep ==
    ASSUME ProvisioningTypeOK, WalletInv, SequenceInv, [ProvisionedNext]_provisionedVars
    PROVE  WalletInv'
<1> USE DEF ProvisioningTypeOK
<1>1. ASSUME NEW w \in Workers, LookUpWallet(w) PROVE WalletInv'
  <2>1. PICK s \in {"faucet", "trust"} :
            Hold(w, s, wallet.address) /\ (s = "trust" => wallet.address # NoAccount)
    BY <1>1 DEF LookUpWallet
  <2>2. /\ desk'[w].at = s /\ desk'[w].account = wallet.address
        /\ \A v \in Workers \ {w} : desk'[v] = desk[v]
        /\ s = "trust" => wallet.address \in Accounts
    BY <2>1, HoldEffect DEF MaybeAccount
  <2>3. job[w].at = "provision" /\ UNCHANGED <<job, pay, wallet, lines, dest>>
    BY <1>1 DEF LookUpWallet, At, vars, ledgerVars, walletVars, sequenceVars
  <2>4. DeskInv'
    BY <2>2, <2>3 DEF WalletInv, DeskInv
  <2> QED
    BY <2>3, <2>4 DEF WalletInv, PaidToTheWallet
<1>2. ASSUME NEW w \in Workers, FindWallet(w) PROVE WalletInv'
  <2>1. wallet.trusted /\ wallet.address \in Accounts
    BY <1>2 DEF FindWallet, WalletInv
  <2>2. /\ desk'[w].at = "ready" /\ desk'[w].account = wallet.address
        /\ \A v \in Workers \ {w} : desk'[v] = desk[v]
    BY <1>2, HoldEffect DEF FindWallet
  <2>3. /\ UNCHANGED <<pay, wallet, lines, dest>>
        /\ \A v \in Workers \ {w} : job'[v] = job[v]
    BY <1>2, JobToEffect DEF FindWallet, Provisioned, ledgerVars, walletVars, sequenceVars
  <2>4. DeskInv'
    BY <2>1, <2>2, <2>3 DEF WalletInv, DeskInv
  <2> QED
    BY <2>3, <2>4 DEF WalletInv, PaidToTheWallet
<1>3. ASSUME NEW w \in Workers, FundAccount(w) PROVE WalletInv'
  <2>1. PICK a \in Accounts : Hold(w, "insert", a)
    BY <1>3 DEF FundAccount
  <2>2. /\ desk'[w].at = "insert" /\ desk'[w].account = a
        /\ \A v \in Workers \ {w} : desk'[v] = desk[v]
    BY <2>1, HoldEffect DEF MaybeAccount
  <2>3. job[w].at = "provision" /\ UNCHANGED <<job, pay, wallet, lines, dest>>
    BY <1>3 DEF FundAccount, At, vars, ledgerVars, sequenceVars
  <2>4. DeskInv'
    BY <2>2, <2>3 DEF WalletInv, DeskInv
  <2> QED
    BY <2>3, <2>4 DEF WalletInv, PaidToTheWallet
<1>4. ASSUME NEW w \in Workers, InsertWallet(w) PROVE WalletInv'
  <2>1. PICK a \in Accounts : desk[w].account = a
    BY <1>4 DEF InsertWallet, At, WalletInv, DeskInv
  <2>2. /\ desk'[w].at = "trust" /\ desk'[w].account = a
        /\ \A v \in Workers \ {w} : desk'[v] = desk[v]
    BY <1>4, <2>1, HoldEffect DEF InsertWallet, MaybeAccount
  <2>3. wallet'.address = a /\ wallet'.trusted = FALSE
    BY <1>4, <2>1 DEF InsertWallet
  <2>4. /\ job[w].at = "provision" /\ UNCHANGED <<job, pay, lines, dest>>
        /\ wallet.address = NoAccount /\ NoAccount \notin Accounts
    BY <1>4, NoAccountAssumption DEF InsertWallet, At, vars, ledgerVars, sequenceVars
  <2>5. \A v \in Workers : desk[v].at \notin {"trust", "ready"} /\ job[v].at \notin {"lock", "sign"}
    BY <2>4 DEF WalletInv, DeskInv
  <2>6. DeskInv'
    BY <2>1, <2>2, <2>3, <2>4, <2>5 DEF WalletInv, DeskInv
  <2>7. \A h \in Hashes : pay[h].state = "unsigned"
    BY <2>4 DEF WalletInv, PaidToTheWallet
  <2> QED
    BY <2>3, <2>4, <2>6, <2>7 DEF WalletInv, PaidToTheWallet
<1>5. ASSUME NEW w \in Workers, SetTrustLine(w) PROVE WalletInv'
  <2>1. desk[w].account = wallet.address /\ wallet.address \in Accounts
    BY <1>5 DEF SetTrustLine, At, WalletInv, DeskInv
  <2>2. /\ desk'[w].at = "ready" /\ desk'[w].account = wallet.address
        /\ \A v \in Workers \ {w} : desk'[v] = desk[v]
    BY <1>5, <2>1, HoldEffect DEF SetTrustLine, MaybeAccount
  <2>3. /\ UNCHANGED <<pay, dest>> /\ lines' = lines \cup {wallet.address}
        /\ wallet'.address = wallet.address /\ wallet'.trusted
        /\ \A v \in Workers \ {w} : job'[v] = job[v]
    BY <1>5, <2>1, JobToEffect DEF SetTrustLine, Provisioned, ledgerVars, sequenceVars
  <2>4. DeskInv'
    BY <2>1, <2>2, <2>3 DEF WalletInv, DeskInv
  <2> QED
    BY <2>3, <2>4 DEF WalletInv, PaidToTheWallet
<1>6. ASSUME NEW w \in Workers, desk' = [desk EXCEPT ![w] = Nothing], NoneSigned,
             UNCHANGED <<wallet, dest>>, lines \subseteq lines', job'[w].at \notin {"lock", "sign"},
             \A v \in Workers \ {w} : job'[v] = job[v]
      PROVE  WalletInv'
  <2>1. desk'[w].at = "none" /\ \A v \in Workers \ {w} : desk'[v] = desk[v]
    BY <1>6, ClearEffect
  <2> QED
    BY <1>6, <2>1, WalletLeft
<1>7. ASSUME NEW w \in Workers,
             \/ LoseRace(w) \/ MissTrustLine(w) \/ Forget(w)
             \/ /\ FailBeforeSigning(w) \/ FailForGood(w)
                /\ UNCHANGED <<walletVars, sequenceVars>>
      PROVE  WalletInv'
  <2>1. Crash(w) \/ FailTransiently(w) \/ LoseSight(w) \/ FailUnsigned(w)
    BY <1>7 DEF LoseRace, MissTrustLine, Forget, FailBeforeSigning, FailForGood
  <2>2. UNCHANGED ledgerVars /\ (JobEnd(w) \/ JobTo(w, "retry") \/ JobTo(w, "unknown"))
    BY <2>1 DEF Crash, FailTransiently, LoseSight, FailUnsigned
  <2>3. job'[w].at \notin {"lock", "sign"} /\ \A v \in Workers \ {w} : job'[v] = job[v]
    BY <2>2, JobEndEffect, JobToEffect
  <2>4. /\ desk' = [desk EXCEPT ![w] = Nothing]
        /\ UNCHANGED <<wallet, dest>> /\ lines \subseteq lines'
    BY <1>7 DEF LoseRace, MissTrustLine, Forget, FailBeforeSigning, FailForGood,
                walletVars, sequenceVars
  <2> QED
    BY <2>2, <2>3, <2>4, <1>6, StillNoneSigned
<1>8. ASSUME NEW w \in Workers, NEW h \in Hashes, SignFor(w, h) PROVE WalletInv'
  <2>1. /\ SignPayment(h, job[w].row) /\ job[w].at = "sign"
        /\ job'[w].at = "submit" /\ \A v \in Workers \ {w} : job'[v] = job[v]
    BY <1>8 DEF SignFor, Sign, TypeOK, Job
  <2>2. \A k \in Hashes \ {h} : pay'[k] = pay[k]
    BY <2>1, SignPaymentEffect
  <2>3. /\ desk[w].account = wallet.address /\ wallet.address \in lines
    BY <2>1 DEF WalletInv, DeskInv
  <2>4. /\ dest'[h] = wallet.address /\ \A k \in Hashes \ {h} : dest'[k] = dest[k]
        /\ UNCHANGED <<wallet, lines>>
    BY <1>8, <2>3 DEF SignFor, walletVars
  <2>5. desk'[w].at = "none" /\ \A v \in Workers \ {w} : desk'[v] = desk[v]
    BY <1>8, ClearEffect DEF SignFor
  <2>6. DeskInv'
    BY <2>1, <2>4, <2>5 DEF WalletInv, DeskInv
  <2>7. PaidToTheWallet'
    BY <2>2, <2>3, <2>4 DEF WalletInv, PaidToTheWallet
  <2> QED
    BY <2>4, <2>6, <2>7 DEF WalletInv
<1>9. CASE LedgerClosesInSequence
  <2>1. PICK good \in SUBSET Hashes, bad \in SUBSET Hashes : CloseLedger(good, bad)
    BY <1>9 DEF LedgerClosesInSequence
  <2>2. NoneSigned
    BY <2>1, CloseLedgerEffect DEF NoneSigned, Live
  <2> QED
    BY <1>9, <2>2, WalletLeft DEF LedgerClosesInSequence, walletVars
<1>10. CASE Untouched /\ UNCHANGED <<walletVars, desk, sequenceVars>>
  <2>1. UNCHANGED <<wallet, dest, desk, lines>>
    BY <1>10 DEF walletVars, sequenceVars
  <2>2. ASSUME NEW w \in Workers, Submit(w) PROVE WalletInv'
    BY <2>1, <2>2, SubmitEffect, WalletLeft
  <2>3. CASE \A w \in Workers : ~Submit(w)
    <3>1. NoneSigned /\ \A w \in Workers :
              job'[w].at \in {"lock", "sign"} => job[w].at \in {"lock", "sign"}
      BY <1>10, <2>3, UntouchedEffect DEF NoneSigned, Live, ledgerVars, Left
    <3> QED
      BY <2>1, <3>1, WalletLeft
  <2> QED
    BY <2>2, <2>3
<1>11. CASE UNCHANGED provisionedVars
  BY <1>11 DEF provisionedVars, vars, ledgerVars, walletVars, sequenceVars, WalletInv, DeskInv,
               PaidToTheWallet
<1> QED
  BY <1>1, <1>2, <1>3, <1>4, <1>5, <1>7, <1>8, <1>9, <1>10, <1>11 DEF ProvisionedNext

-----------------------------------------------------------------------------
(* The sequence numbers' invariant is kept.                                *)

\* A job is still pursuing what it pursued, or need not any more.
GoesOn(w) == (Pursuing(w)' <=> Pursuing(w)) /\ job'[w].hash = job[w].hash
LetGo(w) ==
    /\ ~Pursuing(w)'
    /\ Pursuing(w) => job[w].hash \in unseen' \/ pay[job[w].hash].state \in {"tes", "tec"}

LEMMA SequenceKept ==
    ASSUME SequenceInv, UNCHANGED <<pay, seq, treasury>>, unseen \subseteq unseen',
           \A w \in Workers : GoesOn(w) \/ LetGo(w)
    PROVE  SequenceInv'
<1>1. \A w \in Workers : Pursuing(w)' => Pursuing(w) /\ job'[w].hash = job[w].hash
  BY DEF LetGo, GoesOn
<1>2. \A w \in Workers : Pursuing(w)' => job'[w].hash \in Hashes /\ Live(job[w].hash)'
  BY <1>1 DEF SequenceInv, Live
<1>3. ASSUME NEW h \in Hashes, pay[h].state \in {"signed", "submitted"}, h \notin unseen'
      PROVE  \E w \in Workers : Pursuing(w)' /\ job'[w].hash = h
  <2>1. PICK w \in Workers : Pursuing(w) /\ job[w].hash = h
    BY <1>3 DEF SequenceInv
  <2>2. Pursuing(w)' /\ job'[w].hash = h
    BY <1>3, <2>1 DEF LetGo, GoesOn
  <2> QED
    BY <2>2
<1>4. ClashOnlyUnseen'
  BY DEF SequenceInv, ClashOnlyUnseen
<1> QED
  BY <1>2, <1>3, <1>4 DEF SequenceInv

\* A worker that is not pursuing anything moves on, to something that is no pursuit.
LEMMA SequenceApart ==
    ASSUME SequenceInv, UNCHANGED <<pay, sequenceVars>>, NEW w \in Workers,
           ~Pursuing(w), job'[w].at \notin {"submit", "wait"},
           \A v \in Workers \ {w} : job'[v] = job[v]
    PROVE  SequenceInv'
<1>1. \A v \in Workers : GoesOn(v) \/ LetGo(v)
  BY DEF Pursuing, GoesOn, LetGo
<1> QED
  BY <1>1, SequenceKept DEF sequenceVars

\* The step that takes a sequence number: every earlier payment that could still have
\* that number is out of sight.
LEMMA SequenceSigned ==
    ASSUME ProvisioningTypeOK, LockInv, SequenceInv, NEW w \in Workers, NEW h \in Hashes, SignFor(w, h)
    PROVE  SequenceInv'
<1> USE DEF ProvisioningTypeOK
<1>1. /\ SignPayment(h, job[w].row) /\ job[w].at = "sign"
      /\ job'[w].at = "submit" /\ job'[w].hash = h
      /\ \A v \in Workers \ {w} : job'[v] = job[v]
  BY DEF SignFor, Sign, TypeOK, Job
<1>2. /\ \A k \in Hashes \ {h} : pay'[k] = pay[k]
      /\ pay[h].state = "unsigned" /\ pay'[h].state = "signed"
  BY <1>1, SignPaymentEffect
<1>3. PICK s \in NextSequence : seq' = [seq EXCEPT ![h] = s]
  BY DEF SignFor
<1>4. s >= treasury /\ s \in Nat /\ treasury \in Nat
  BY NextSequenceNat
<1>5. seq'[h] = s /\ (\A k \in Hashes \ {h} : seq'[k] = seq[k]) /\ UNCHANGED <<treasury, unseen>>
  BY <1>3 DEF SignFor
<1>6. \A v \in Workers : ~Pursuing(v)
  BY <1>1 DEF LockInv, Signing, Pursuing
<1>7. ASSUME NEW k \in Hashes \ {h}, Live(k), k \notin unseen PROVE seq[k] # s
  <2>1. pay[k].state \in {"tes", "tec"}
    BY <1>6, <1>7 DEF SequenceInv, Live, TypeOK, LedgerTypeOK, Payment, PayState
  <2>2. seq[k] < treasury /\ seq[k] \in Nat
    BY <2>1 DEF SequenceInv
  <2> QED
    BY <1>4, <2>2
<1>8. \A k \in Hashes \ {h} : k \notin unseen /\ Live(k) => seq'[k] # seq'[h]
  BY <1>5, <1>7
<1>9. ClashOnlyUnseen'
  <2> SUFFICES ASSUME NEW j \in Hashes, NEW k \in Hashes, j # k,
                      Live(j)', Live(k)', seq'[j] = seq'[k]
               PROVE  {j, k} \cap unseen' # {}
    BY DEF ClashOnlyUnseen, Live
  <2>1. CASE j = h
    BY <2>1, <1>2, <1>5, <1>8 DEF Live
  <2>2. CASE k = h
    BY <2>2, <1>2, <1>5, <1>8 DEF Live
  <2>3. CASE j # h /\ k # h
    BY <2>3, <1>2, <1>5 DEF SequenceInv, ClashOnlyUnseen, Live
  <2> QED
    BY <2>1, <2>2, <2>3
<1>10. \A v \in Workers : Pursuing(v)' => job'[v].hash \in Hashes /\ Live(job[v].hash)'
  BY <1>1, <1>2, <1>6 DEF Pursuing, Live
<1>11. \A k \in Hashes : pay'[k].state \in {"tes", "tec"} => seq'[k] < treasury'
  BY <1>2, <1>5 DEF SequenceInv
<1>12. \A k \in Hashes : pay'[k].state \in {"signed", "submitted"} =>
          k \in unseen' \/ \E v \in Workers : Pursuing(v)' /\ job'[v].hash = k
  BY <1>1, <1>2, <1>5, <1>6 DEF SequenceInv, Pursuing
<1> QED
  BY <1>9, <1>10, <1>11, <1>12 DEF SequenceInv

LEMMA SequenceSubmitted ==
    ASSUME TypeOK, LockInv, SequenceInv, NEW w \in Workers, Submit(w), UNCHANGED sequenceVars
    PROVE  SequenceInv'
<1>1. PICK h \in Hashes : h = job[w].hash
  BY SubmitEffect
<1>2. /\ \A v \in Workers \ {w} : job'[v] = job[v]
      /\ job[w].at = "submit" /\ job'[w].hash = h
      /\ \A k \in Hashes \ {h} : pay'[k] = pay[k]
      /\ \/ job'[w].at = "wait" /\ pay'[h].state = "submitted"
         \/ job'[w].at = "failed" /\ pay'[h].state = "void"
      /\ Live(h) /\ NoneSigned
  BY <1>1, SubmitEffect DEF SequenceInv, Pursuing
<1>3. \A v \in Workers \ {w} : ~Pursuing(v)' /\ ~Pursuing(v)
  BY <1>2 DEF LockInv, Signing, Pursuing
<1>4. \A v \in Workers : Pursuing(v)' => job'[v].hash \in Hashes /\ Live(job[v].hash)'
  BY <1>2, <1>3 DEF Pursuing, Live
<1>5. \A k \in Hashes : pay'[k].state \in {"tes", "tec"} => seq'[k] < treasury'
  BY <1>2 DEF SequenceInv, sequenceVars
<1>6. \A k \in Hashes : pay'[k].state \in {"signed", "submitted"} =>
          k \in unseen' \/ \E v \in Workers : Pursuing(v)' /\ job'[v].hash = k
  BY <1>1, <1>2, <1>3 DEF SequenceInv, sequenceVars, Pursuing
<1>7. ClashOnlyUnseen'
  BY <1>2 DEF SequenceInv, ClashOnlyUnseen, NoneSigned, Live, sequenceVars
<1> QED
  BY <1>4, <1>5, <1>6, <1>7 DEF SequenceInv

LEMMA SequenceClosed ==
    ASSUME ProvisioningTypeOK, SequenceInv, LedgerClosesInSequence
    PROVE  SequenceInv'
<1> USE DEF ProvisioningTypeOK
<1>1. PICK good \in SUBSET Hashes, bad \in SUBSET Hashes :
          /\ CloseLedger(good, bad) /\ InSequence(good \cup bad)
          /\ treasury' = treasury + Cardinality(good \cup bad)
  BY DEF LedgerClosesInSequence
<1>2. /\ treasury' \in Nat /\ treasury' >= treasury
      /\ \A h \in good \cup bad : seq[h] < treasury'
  BY <1>1, InSequenceNat
<1>3. UNCHANGED <<job, seq, unseen>>
  BY DEF LedgerClosesInSequence
<1>4. \A h \in Hashes :
         \/ pay'[h] = pay[h]
         \/ pay[h].state = "submitted" /\ pay'[h].state \in {"tes", "tec"}
  BY <1>1, CloseLedgerEffect
<1>5. \A h \in Hashes : h \notin good \cup bad => pay'[h] = pay[h]
  BY <1>1 DEF CloseLedger
<1>6. \A w \in Workers : Pursuing(w)' => job'[w].hash \in Hashes /\ Live(job[w].hash)'
  BY <1>3, <1>4 DEF SequenceInv, Pursuing, Live
<1>7. ASSUME NEW h \in Hashes, pay'[h].state \in {"tes", "tec"} PROVE seq'[h] < treasury'
  <2>1. CASE h \in good \cup bad
    BY <2>1, <1>2, <1>3
  <2>2. CASE h \notin good \cup bad
    <3>1. seq[h] < treasury /\ seq[h] \in Nat /\ treasury \in Nat
      BY <2>2, <1>5, <1>7 DEF SequenceInv
    <3> QED
      BY <3>1, <1>2, <1>3
  <2> QED
    BY <2>1, <2>2
<1>8. \A h \in Hashes : pay'[h].state \in {"signed", "submitted"} =>
         h \in unseen' \/ \E w \in Workers : Pursuing(w)' /\ job'[w].hash = h
  BY <1>3, <1>4 DEF SequenceInv, Pursuing
<1>9. ClashOnlyUnseen'
  BY <1>3, <1>4 DEF SequenceInv, ClashOnlyUnseen
<1> QED
  BY <1>6, <1>7, <1>8, <1>9 DEF SequenceInv

LEMMA SequenceStep ==
    ASSUME ProvisioningTypeOK, LockInv, SequenceInv, [ProvisionedNext]_provisionedVars
    PROVE  SequenceInv'
<1> USE DEF ProvisioningTypeOK
<1>0. ASSUME UNCHANGED <<job, pay, sequenceVars>> PROVE SequenceInv'
  BY <1>0, SequenceKept DEF sequenceVars, Pursuing, GoesOn
<1>1. ASSUME NEW w \in Workers, LookUpWallet(w) \/ FundAccount(w) \/ InsertWallet(w)
      PROVE  SequenceInv'
  BY <1>0, <1>1 DEF LookUpWallet, FundAccount, InsertWallet, vars, ledgerVars
<1>2. ASSUME NEW w \in Workers, FindWallet(w) \/ SetTrustLine(w) PROVE SequenceInv'
  <2>1. Provisioned(w) /\ UNCHANGED sequenceVars
    BY <1>2 DEF FindWallet, SetTrustLine
  <2>2. /\ ~Pursuing(w) /\ job'[w].at = "lock" /\ UNCHANGED pay
        /\ \A v \in Workers \ {w} : job'[v] = job[v]
    BY <2>1, JobToEffect DEF Provisioned, Pursuing, ledgerVars
  <2> QED
    BY <2>1, <2>2, SequenceApart
<1>3. ASSUME NEW w \in Workers,
             \/ LoseRace(w) \/ MissTrustLine(w)
             \/ /\ FailBeforeSigning(w) \/ FailForGood(w)
                /\ UNCHANGED <<walletVars, sequenceVars>>
      PROVE  SequenceInv'
  <2>1. /\ ~Pursuing(w) /\ UNCHANGED <<pay, sequenceVars>>
        /\ JobEnd(w) \/ JobTo(w, "retry")
    BY <1>3 DEF LoseRace, MissTrustLine, FailBeforeSigning, FailForGood, Crash, At,
                FailTransiently, FailUnsigned, Pursuing, ledgerVars
  <2>2. job'[w].at \notin {"submit", "wait"} /\ \A v \in Workers \ {w} : job'[v] = job[v]
    BY <2>1, JobEndEffect, JobToEffect
  <2> QED
    BY <2>1, <2>2, SequenceApart
<1>4. ASSUME NEW w \in Workers, Forget(w) PROVE SequenceInv'
  <2>1. /\ UNCHANGED <<pay, seq, treasury>> /\ unseen \subseteq unseen'
        /\ JobEnd(w) \/ JobTo(w, "unknown")
        /\ Pursuing(w) => job[w].hash \in unseen'
    BY <1>4 DEF Forget, Crash, LoseSight, ledgerVars, Pursuing
  <2>2. job'[w].at \notin {"submit", "wait"} /\ \A v \in Workers \ {w} : job'[v] = job[v]
    BY <2>1, JobEndEffect, JobToEffect
  <2>3. \A v \in Workers : GoesOn(v) \/ LetGo(v)
    BY <2>1, <2>2 DEF Pursuing, GoesOn, LetGo
  <2> QED
    BY <2>1, <2>3, SequenceKept
<1>5. CASE Untouched /\ UNCHANGED <<walletVars, desk, sequenceVars>>
  <2>1. CASE \E w \in Workers : Submit(w)
    BY <1>5, <2>1, SequenceSubmitted
  <2>2. CASE \A w \in Workers : ~Submit(w)
    <3>1. /\ UNCHANGED <<pay, seq, treasury, unseen>>
          /\ \A w \in Workers :
                \/ job'[w].at = job[w].at /\ job'[w].hash = job[w].hash
                \/ job[w].at = "lock" /\ job'[w].at = "sign"
                \/ Left(w) /\ ~Pursuing(w)
                \/ Left(w) /\ pay[job[w].hash].state \in {"tes", "tec"}
      BY <1>5, <2>2, UntouchedEffect DEF ledgerVars, sequenceVars
    <3>2. \A w \in Workers : GoesOn(w) \/ LetGo(w)
      BY <3>1 DEF Pursuing, GoesOn, LetGo, Left
    <3> QED
      BY <3>1, <3>2, SequenceKept
  <2> QED
    BY <2>1, <2>2
<1>6. CASE UNCHANGED provisionedVars
  BY <1>0, <1>6 DEF provisionedVars, vars, ledgerVars
<1> QED
  BY <1>1, <1>2, <1>3, <1>4, <1>5, <1>6, SequenceSigned, SequenceClosed
     DEF ProvisionedNext

-----------------------------------------------------------------------------
(* Theorems.                                                               *)

LEMMA ProvisionedStart == ProvisionedInit => ProvisioningTypeOK /\ WalletInv /\ SequenceInv
<1> SUFFICES ASSUME ProvisionedInit PROVE ProvisioningTypeOK /\ WalletInv /\ SequenceInv
  OBVIOUS
<1>1. /\ \A w \in Workers : job[w].at = "idle" /\ desk[w].at = "none"
      /\ \A h \in Hashes : pay[h].state = "unsigned"
      /\ wallet.trusted = FALSE
  BY DEF ProvisionedInit, Init, IdleJob, LedgerInit, Nothing
<1>2. TypeOK
  BY TypeInit DEF ProvisionedInit
<1>3. ProvisioningTypeOK
  BY <1>2 DEF ProvisionedInit, ProvisioningTypeOK, Desk, Nothing, MaybeAccount
<1>4. WalletInv
  BY <1>1 DEF WalletInv, DeskInv, PaidToTheWallet
<1>5. SequenceInv
  BY <1>1 DEF SequenceInv, Pursuing, ClashOnlyUnseen
<1> QED
  BY <1>3, <1>4, <1>5

LEMMA ProvisionedInvariant ==
    ProvisionedSpec => [](ProvisioningTypeOK /\ WalletInv /\ SequenceInv)
<1> DEFINE Inv == ProvisioningTypeOK /\ WalletInv /\ SequenceInv
<1>1. ProvisionedInit => Inv
  BY ProvisionedStart
<1>2. Inv /\ TypeOK' /\ LockInv /\ [ProvisionedNext]_provisionedVars => Inv'
  BY ProvisioningTypeStep, WalletStep, SequenceStep
<1>3. ProvisionedSpec => []TypeOK /\ []LockInv
  BY RefinesSettlement, TypeCorrect, LockInit, LockStep, PTL DEF Spec
<1> QED
  BY <1>1, <1>2, <1>3, PTL DEF ProvisionedSpec

\* The wallet, the jobs' progress on it and the sequence numbers keep their types, and
\* with them everything of Settlement (provision_wallet, send_from_treasury).
THEOREM ProvisioningTypeCorrect == ProvisionedSpec => []ProvisioningTypeOK
BY ProvisionedInvariant, PTL

\* Every payment went to the recipient's one wallet, through any race to create it.
THEOREM OneWallet == ProvisionedSpec => []PaidToTheWallet
<1>1. WalletInv => PaidToTheWallet
  BY DEF WalletInv
<1> QED
  BY <1>1, ProvisionedInvariant, PTL

\* The treasury lock keeps sequence numbers apart until a job loses sight of a payment.
THEOREM NoClashInSight == ProvisionedSpec => []ClashOnlyUnseen
<1>1. SequenceInv => ClashOnlyUnseen
  BY DEF SequenceInv
<1> QED
  BY <1>1, ProvisionedInvariant, PTL
=============================================================================
