------------------------------ MODULE Settlement ------------------------------
(***************************************************************************)
(* The life of a remittance: card cash-in, the settlement queue, the       *)
(* workers that pay the recipient from the treasury, and the admin         *)
(* requests that retry or reconcile a settlement.                          *)
(*                                                                         *)
(* A database transaction of the code is one action; everything between    *)
(* two of them (a message, an XRPL call, a Redis call) is an interleaving  *)
(* point.  Worker jobs and admin requests may die at any of these points.  *)
(***************************************************************************)
EXTENDS XrplLedger

CONSTANTS
    Workers,      \* RQ worker processes
    Admins,       \* concurrent admin requests
    NoHash,       \* SQL NULL in xrpl_tx_hash
    MaxAttempts,  \* settlement_worker.MAX_ATTEMPTS
    MaxMsgs,      \* bound: copies of one row's message that count
    MaxFaults,    \* bound: crashes, lost messages, Redis errors and AML flags
    SlowRpc       \* may the server's ledger advance between two queries of one admin request?

ASSUME WorkersAssumption  == {"free", "orphan"} \cap Workers = {}
ASSUME NoHashAssumption   == NoHash \notin Hashes
ASSUME AttemptsAssumption == MaxAttempts \in Nat \ {0}
ASSUME MsgsAssumption     == MaxMsgs \in Nat \ {0}
ASSUME FaultsAssumption   == MaxFaults \in Nat
ASSUME SlowRpcAssumption  == SlowRpc \in BOOLEAN

VARIABLES
    row,       \* the transactions table
    queue,     \* row |-> messages for it in Redis (ready or scheduled)
    lock,      \* the Redis treasury lock
    job,       \* worker |-> the job it runs
    session,   \* admin |-> the request it makes
    credited,  \* row |-> times its amount was added to the recipient's wallet
    faults     \* faults and other disturbances so far

vars == <<row, queue, lock, job, session, credited, faults, pay, validated, history>>

CashIn     == {"absent", "pending", "received", "failed"}
Settlements == {"not_queued", "queued", "processing", "completed", "failed"}

Attempt == [hash : Hashes, first : Nat, last : Nat]

\* old: no write to the row for STUCK_AFTER (10 minutes) or more.
TableRow ==
    [cashin : CashIn, status : Settlements, hash : Hashes \cup {NoHash}, first : Nat,
     last : Nat, attempts : Nat, archive : SUBSET Attempt, old : BOOLEAN]

JobStep == {"idle", "provision", "lock", "sign", "submit", "wait",
            "succeeded", "failed", "unknown", "retry", "requeue"}
Job == [at : JobStep, row : Rows \cup {NoRow}, hash : Hashes \cup {NoHash},
        first : Nat, attempts : Nat]

RequestStep == {"idle", "lookup", "latest", "range", "reset", "reconcile",
                "publish", "unpublish"}
\* The row as the request read it; fresh: updated_at has not moved since.
Request == [at : RequestStep, row : Rows \cup {NoRow}, from : Settlements,
            hash : Hashes \cup {NoHash}, first : Nat, last : Nat, fresh : BOOLEAN]

Free   == "free"     \* nobody holds the treasury lock
Orphan == "orphan"   \* a job that died holds it, until TREASURY_LOCK_TIMEOUT

TypeOK ==
    /\ LedgerTypeOK
    /\ row \in [Rows -> TableRow]
    /\ queue \in [Rows -> 0..MaxMsgs]
    /\ lock \in Workers \cup {Free, Orphan}
    /\ job \in [Workers -> Job]
    /\ session \in [Admins -> Request]
    /\ credited \in [Rows -> Nat]
    /\ faults \in 0..MaxFaults

IdleJob == [at |-> "idle", row |-> NoRow, hash |-> NoHash, first |-> 0, attempts |-> 0]
IdleRequest == [at |-> "idle", row |-> NoRow, from |-> "not_queued", hash |-> NoHash,
                first |-> 0, last |-> 0, fresh |-> FALSE]
NewRow == [cashin |-> "absent", status |-> "not_queued", hash |-> NoHash, first |-> 0,
           last |-> 0, attempts |-> 0, archive |-> {}, old |-> FALSE]

Init ==
    /\ LedgerInit
    /\ row = [t \in Rows |-> NewRow]
    /\ queue = [t \in Rows |-> 0]
    /\ lock = Free
    /\ job = [w \in Workers |-> IdleJob]
    /\ session = [a \in Admins |-> IdleRequest]
    /\ credited = [t \in Rows |-> 0]
    /\ faults = 0

-----------------------------------------------------------------------------
(* Building blocks.                                                        *)

\* One committed UPDATE of row t, which moves updated_at: no request that read the
\* row before will find it unchanged.
Write(t, new) == row' = [row EXCEPT ![t] = [new EXCEPT !.old = FALSE]]
Outdate(t) ==
    session' = [a \in Admins |-> IF session[a].row = t
                                 THEN [session[a] EXCEPT !.fresh = FALSE] ELSE session[a]]
\* The same, by request a itself, which goes on to step s.
OutdateAndGo(t, a, s) ==
    session' = [b \in Admins |->
                  IF b = a THEN [IdleRequest EXCEPT !.at = s, !.row = t]
                  ELSE IF session[b].row = t THEN [session[b] EXCEPT !.fresh = FALSE]
                  ELSE session[b]]
\* The same, by the request's last write.
OutdateAndEnd(t, a) ==
    session' = [b \in Admins |->
                  IF b = a THEN IdleRequest
                  ELSE IF session[b].row = t THEN [session[b] EXCEPT !.fresh = FALSE]
                  ELSE session[b]]

Goto(a, s)  == session' = [session EXCEPT ![a] = [@ EXCEPT !.at = s]]
End(a)      == session' = [session EXCEPT ![a] = IdleRequest]
JobTo(w, s) == job' = [job EXCEPT ![w] = [@ EXCEPT !.at = s]]
JobEnd(w)   == job' = [job EXCEPT ![w] = IdleJob]

\* A further copy of a message adds no behaviour beyond MaxMsgs of them.
Enqueued(t) == [queue EXCEPT ![t] = IF @ < MaxMsgs THEN @ + 1 ELSE @]

Fault == faults < MaxFaults /\ faults' = faults + 1

\* Mutant of Released: the lock is deleted by whoever leaves, its owner or not.
ReleasedByAnyone(w) == Free

\* The lock as a context manager leaves it when the block of worker w ends.
Released(w) == IF lock = w THEN Free ELSE lock

Owns(w, t) == job[w].row = t
NobodyOwns(t) == \A w \in Workers : ~Owns(w, t)

-----------------------------------------------------------------------------
(* Creation and cash-in.                                                   *)

\* create_remittance: its checks passed; the test card may be declined.
CreateRemittance(t) ==
    /\ row[t].cashin = "absent"
    /\ \E c \in {"pending", "failed"} : row' = [row EXCEPT ![t] = [@ EXCEPT !.cashin = c]]
    /\ UNCHANGED <<queue, lock, job, session, credited, faults, ledgerVars>>

\* mark_cashin_received: the row is durably queued before its message is published.
MarkCashinReceived(a, t) ==
    /\ session[a].at = "idle"
    /\ row[t].cashin = "pending"
    /\ Write(t, [row[t] EXCEPT !.cashin = "received", !.status = "queued"])
    /\ OutdateAndGo(t, a, "publish")
    /\ UNCHANGED <<queue, lock, job, credited, faults, ledgerVars>>

\* Mutant of MarkCashinFailed: the UPDATE is not conditional on pending.
MarkCashinFailedAnytime(t) ==
    /\ row[t].cashin # "absent"
    /\ Write(t, [row[t] EXCEPT !.cashin = "failed"])
    /\ Outdate(t)
    /\ UNCHANGED <<queue, lock, job, credited, faults, ledgerVars>>

\* mark_cashin_failed: an admin refuses the cash-in.
MarkCashinFailed(t) ==
    /\ row[t].cashin = "pending"
    /\ Write(t, [row[t] EXCEPT !.cashin = "failed"])
    /\ Outdate(t)
    /\ UNCHANGED <<queue, lock, job, credited, faults, ledgerVars>>

\* expire_stale_cashins: one UPDATE fails every pending row past its 24 hours.
ExpireStaleCashins(stale) ==
    /\ stale # {}
    /\ \A t \in stale : row[t].cashin = "pending"
    /\ row' = [t \in Rows |-> IF t \in stale
                              THEN [row[t] EXCEPT !.cashin = "failed", !.old = FALSE]
                              ELSE row[t]]
    /\ session' = [a \in Admins |-> IF session[a].row \in stale
                                    THEN [session[a] EXCEPT !.fresh = FALSE] ELSE session[a]]
    /\ UNCHANGED <<queue, lock, job, credited, faults, ledgerVars>>

\* set_aml_flag: only moves updated_at, under the feet of a retry in progress.
SetAmlFlag(t) ==
    /\ row[t].cashin # "absent"
    /\ Fault
    /\ Write(t, row[t])
    /\ Outdate(t)
    /\ UNCHANGED <<queue, lock, job, credited, ledgerVars>>

\* Mutant of GrowOld: STUCK_AFTER is shorter than a job may live.
GrowOldTooSoon(t) ==
    /\ row[t].status = "processing"
    /\ ~row[t].old
    /\ row' = [row EXCEPT ![t] = [@ EXCEPT !.old = TRUE]]
    /\ UNCHANGED <<queue, lock, job, session, credited, faults, ledgerVars>>

\* Ten minutes pass without a write.  A job dies after JOB_TIMEOUT (5 minutes), so no
\* live job still owns the row.
GrowOld(t) ==
    /\ row[t].status = "processing"
    /\ ~row[t].old
    /\ NobodyOwns(t)
    /\ row' = [row EXCEPT ![t] = [@ EXCEPT !.old = TRUE]]
    /\ UNCHANGED <<queue, lock, job, session, credited, faults, ledgerVars>>

-----------------------------------------------------------------------------
(* The worker's job: settlement_worker.process_settlement.                 *)

Claimable(t) ==
    /\ row[t].status = "queued"
    /\ row[t].cashin = "received"
    /\ row[t].hash = NoHash

Claim(w, t) ==
    /\ job[w].at = "idle"
    /\ queue[t] > 0
    /\ queue' = [queue EXCEPT ![t] = @ - 1]
    /\ Claimable(t)
    /\ Write(t, [row[t] EXCEPT !.status = "processing", !.attempts = @ + 1])
    /\ Outdate(t)
    /\ job' = [job EXCEPT ![w] = [at |-> "provision", row |-> t, hash |-> NoHash, first |-> 0,
                                  attempts |-> row[t].attempts + 1]]
    /\ UNCHANGED <<lock, credited, faults, ledgerVars>>

\* A duplicate or late message matches no row and is dropped.
Skip(w, t) ==
    /\ job[w].at = "idle"
    /\ queue[t] > 0
    /\ ~Claimable(t)
    /\ queue' = [queue EXCEPT ![t] = @ - 1]
    /\ UNCHANGED <<row, lock, job, session, credited, faults, ledgerVars>>

\* The recipient has a trust-lined wallet.
Provisioned(w) ==
    /\ job[w].at = "provision"
    /\ JobTo(w, "lock")
    /\ UNCHANGED <<row, queue, lock, session, credited, faults, ledgerVars>>

\* Mutant of AcquireLock: the block is entered whether or not the lock was taken.
AcquireNoLock(w) ==
    /\ job[w].at = "lock"
    /\ lock' = w
    /\ job' = [job EXCEPT ![w] = [@ EXCEPT !.at = "sign", !.first = validated]]
    /\ UNCHANGED <<row, queue, session, credited, faults, ledgerVars>>

\* treasury_lock, then send_from_treasury reads the validated ledger before signing.
AcquireLock(w) ==
    /\ job[w].at = "lock"
    /\ lock = Free
    /\ lock' = w
    /\ job' = [job EXCEPT ![w] = [@ EXCEPT !.at = "sign", !.first = validated]]
    /\ UNCHANGED <<row, queue, session, credited, faults, ledgerVars>>

\* autofill_and_sign, then remember_signed: the ORM writes the hash and its ledger
\* range by primary key, whatever the row's status, before anything is submitted.
Sign(w, h) ==
    /\ job[w].at = "sign"
    /\ validated + Window < MaxLedger      \* bound: its window closes in the behaviour
    /\ SignPayment(h, job[w].row)
    /\ Write(job[w].row, [row[job[w].row] EXCEPT
                !.hash = h, !.first = job[w].first, !.last = validated + Window])
    /\ Outdate(job[w].row)
    /\ job' = [job EXCEPT ![w] = [@ EXCEPT !.at = "submit", !.hash = h]]
    /\ UNCHANGED <<queue, lock, credited, faults>>

\* submit_and_wait sends the blob; the server may reject it as malformed (tem*).
Submit(w) ==
    /\ job[w].at = "submit"
    /\ \/ SetState(job[w].hash, "submitted") /\ JobTo(w, "wait") /\ UNCHANGED lock
       \/ SetState(job[w].hash, "void") /\ JobTo(w, "failed") /\ lock' = Released(w)
    /\ UNCHANGED <<row, queue, session, credited, faults>>

\* The worker sees its payment in a validated ledger.
Observe(w) ==
    /\ job[w].at = "wait"
    /\ \/ pay[job[w].hash].state = "tes" /\ JobTo(w, "succeeded")
       \/ pay[job[w].hash].state = "tec" /\ JobTo(w, "failed")
    /\ lock' = Released(w)
    /\ UNCHANGED <<row, queue, session, credited, faults, ledgerVars>>

\* Any error or timeout once signed: the outcome is unknown, sent or not.
LoseSight(w) ==
    /\ job[w].at \in {"submit", "wait"}
    /\ JobTo(w, "unknown")
    /\ lock' = Released(w)
    /\ UNCHANGED <<row, queue, session, credited, faults, ledgerVars>>

\* Any error before signing: the faucet, the trust line, the lock's timeout, autofill.
FailTransiently(w) ==
    /\ job[w].at \in {"provision", "lock", "sign"}
    /\ JobTo(w, "retry")
    /\ lock' = Released(w)
    /\ UNCHANGED <<row, queue, session, credited, faults, ledgerVars>>

\* The writes that end a job change the row only while it is still processing.
IfProcessing(t, new, c) ==
    IF row[t].status = "processing"
    THEN Write(t, new) /\ Outdate(t) /\ credited' = [credited EXCEPT ![t] = @ + c]
    ELSE UNCHANGED <<row, session, credited>>

\* complete_settlement: the status and the wallet credit commit together.
CompleteSettlement(w) ==
    /\ job[w].at = "succeeded"
    /\ IfProcessing(job[w].row,
            [row[job[w].row] EXCEPT !.status = "completed", !.hash = job[w].hash], 1)
    /\ JobEnd(w)
    /\ UNCHANGED <<queue, lock, faults, ledgerVars>>

\* fail_settlement with the hash: a final failure, or an outcome nobody saw.
FailSigned(w) ==
    /\ job[w].at \in {"failed", "unknown"}
    /\ IfProcessing(job[w].row,
            [row[job[w].row] EXCEPT !.status = "failed", !.hash = job[w].hash], 0)
    /\ JobEnd(w)
    /\ UNCHANGED <<queue, lock, faults, ledgerVars>>

\* fail_settlement without one: no recipient, an unusable amount, or no attempt left.
FailUnsigned(w) ==
    /\ \/ job[w].at \in {"provision", "sign"}
       \/ job[w].at = "retry" /\ job[w].attempts >= MaxAttempts
    /\ IfProcessing(job[w].row, [row[job[w].row] EXCEPT !.status = "failed"], 0)
    /\ lock' = Released(w)
    /\ JobEnd(w)
    /\ UNCHANGED <<queue, faults, ledgerVars>>

\* _retry_or_fail hands the row back, commits, and only then schedules the message.
HandBack(w) ==
    /\ job[w].at = "retry"
    /\ job[w].attempts < MaxAttempts
    /\ IfProcessing(job[w].row, [row[job[w].row] EXCEPT !.status = "queued"], 0)
    /\ IF row[job[w].row].status = "processing"
       THEN job' = [job EXCEPT ![w] = [IdleJob EXCEPT !.at = "requeue", !.row = job[w].row]]
       ELSE JobEnd(w)
    /\ UNCHANGED <<queue, lock, faults, ledgerVars>>

Requeue(w) ==
    /\ job[w].at = "requeue"
    /\ queue' = Enqueued(job[w].row)
    /\ JobEnd(w)
    /\ UNCHANGED <<row, lock, session, credited, faults, ledgerVars>>

\* The process dies, RQ kills it at JOB_TIMEOUT, or the database fails under it.
Crash(w) ==
    /\ job[w].at # "idle"
    /\ Fault
    /\ JobEnd(w)
    /\ lock' = IF lock = w THEN Orphan ELSE lock
    /\ UNCHANGED <<row, queue, session, credited, ledgerVars>>

LockExpires ==
    /\ lock = Orphan
    /\ lock' = Free
    /\ UNCHANGED <<row, queue, job, session, credited, faults, ledgerVars>>

LoseMessage(t) ==
    /\ queue[t] > 0
    /\ Fault
    /\ queue' = [queue EXCEPT ![t] = @ - 1]
    /\ UNCHANGED <<row, lock, job, session, credited, ledgerVars>>

-----------------------------------------------------------------------------
(* The admin's retry: routers/admin.settlement_retry.                      *)

\* The request as it is once the row has been read.
ReadRow(a, t, s) ==
    session' = [session EXCEPT ![a] =
        [at |-> s, row |-> t, from |-> row[t].status, hash |-> row[t].hash,
         first |-> row[t].first, last |-> row[t].last, fresh |-> TRUE]]

\* requeue_stuck: a row read as queued gets another message.
StartRequeue(a, t) ==
    /\ session[a].at = "idle"
    /\ row[t].status = "queued"
    /\ session' = [session EXCEPT ![a] = [IdleRequest EXCEPT !.at = "publish", !.row = t]]
    /\ UNCHANGED <<row, queue, lock, job, credited, faults, ledgerVars>>

IsStuck(t) == row[t].status = "processing" /\ row[t].old

\* Mutant of StartRetry: a stuck row is re-sent for its age alone.
StartRetryOnAge(a, t) ==
    /\ session[a].at = "idle"
    /\ row[t].status = "failed" \/ IsStuck(t)
    /\ row[t].cashin = "received"
    /\ ReadRow(a, t, IF row[t].hash = NoHash \/ IsStuck(t) THEN "reset" ELSE "lookup")
    /\ UNCHANGED <<row, queue, lock, job, credited, faults, ledgerVars>>

\* Mutant of StartRetry: a row left processing by a dead worker is not retryable.
StartRetryFailedOnly(a, t) ==
    /\ session[a].at = "idle"
    /\ row[t].status = "failed"
    /\ row[t].cashin = "received"
    /\ ReadRow(a, t, IF row[t].hash = NoHash THEN "reset" ELSE "lookup")
    /\ UNCHANGED <<row, queue, lock, job, credited, faults, ledgerVars>>

\* retry_settlement: a signed attempt is looked up on the ledger first.
StartRetry(a, t) ==
    /\ session[a].at = "idle"
    /\ row[t].status = "failed" \/ IsStuck(t)
    /\ row[t].cashin = "received"
    /\ ReadRow(a, t, IF row[t].hash = NoHash THEN "reset" ELSE "lookup")
    /\ UNCHANGED <<row, queue, lock, job, credited, faults, ledgerVars>>

LookUp(a) ==
    /\ session[a].at = "lookup"
    /\ \/ SeesTes(session[a].hash) /\ Goto(a, "reconcile")
       \/ SeesTec(session[a].hash) /\ Goto(a, "reset")
       \/ ~Sees(session[a].hash) /\ Goto(a, "latest")
    /\ UNCHANGED <<row, queue, lock, job, credited, faults, ledgerVars>>

\* _refuse_unless_provably_dead, first half: the validity window has passed ...
CheckLatest(a) ==
    /\ session[a].at = "latest"
    /\ IF validated <= session[a].last THEN End(a) ELSE Goto(a, "range")
    /\ UNCHANGED <<row, queue, lock, job, credited, faults, ledgerVars>>

\* Mutant of CheckRange: the server's history is not asked for.
CheckRangeNever(a) ==
    /\ session[a].at = "range"
    /\ Goto(a, "reset")
    /\ UNCHANGED <<row, queue, lock, job, credited, faults, ledgerVars>>

\* ... second half: and the server holds every ledger of it.
CheckRange(a) ==
    /\ session[a].at = "range"
    /\ IF Unbroken(session[a].first, session[a].last) THEN Goto(a, "reset") ELSE End(a)
    /\ UNCHANGED <<row, queue, lock, job, credited, faults, ledgerVars>>

\* Mutants of ArchivedAttempts: the old hash is dropped, or kept without its range.
ArchivedAttemptsDropped(a) == row[session[a].row].archive
ArchivedAttemptsBare(a) ==
    LET s == session[a] IN
    IF s.hash = NoHash THEN row[s.row].archive
    ELSE row[s.row].archive \cup {[hash |-> s.hash]}

\* _archived_attempts: the history with the current attempt retired into it.
ArchivedAttempts(a) ==
    LET s == session[a] IN
    IF s.hash = NoHash THEN row[s.row].archive
    ELSE row[s.row].archive \cup {[hash |-> s.hash, first |-> s.first, last |-> s.last]}

\* Mutant of Reset: the hash of the old attempt stays in the row.
ResetKeepingHash(a) ==
    LET t == session[a].row IN
    /\ session[a].at = "reset"
    /\ IF row[t].status = session[a].from /\ session[a].fresh
       THEN /\ Write(t, [row[t] EXCEPT
                   !.status = "queued", !.attempts = 0, !.archive = ArchivedAttempts(a)])
            /\ OutdateAndGo(t, a, "publish")
       ELSE UNCHANGED row /\ End(a)
    /\ UNCHANGED <<queue, lock, job, credited, faults, ledgerVars>>

\* Mutant of Reset: guarded on the status alone, not on updated_at.
ResetStaleRead(a) ==
    LET t == session[a].row IN
    /\ session[a].at = "reset"
    /\ IF row[t].status = session[a].from
       THEN /\ Write(t, [row[t] EXCEPT
                   !.status = "queued", !.attempts = 0, !.hash = NoHash, !.first = 0,
                   !.last = 0, !.archive = ArchivedAttempts(a)])
            /\ OutdateAndGo(t, a, "publish")
       ELSE UNCHANGED row /\ End(a)
    /\ UNCHANGED <<queue, lock, job, credited, faults, ledgerVars>>

\* The row is queued afresh and the old attempt archived, unless the row has moved.
Reset(a) ==
    LET t == session[a].row IN
    /\ session[a].at = "reset"
    /\ IF row[t].status = session[a].from /\ session[a].fresh
       THEN /\ Write(t, [row[t] EXCEPT
                   !.status = "queued", !.attempts = 0, !.hash = NoHash, !.first = 0,
                   !.last = 0, !.archive = ArchivedAttempts(a)])
            /\ OutdateAndGo(t, a, "publish")
       ELSE UNCHANGED row /\ End(a)
    /\ UNCHANGED <<queue, lock, job, credited, faults, ledgerVars>>

\* Mutant of Reconcile: the completion does not look at the row's status.
ReconcileAnyStatus(a) ==
    LET t == session[a].row IN
    /\ session[a].at = "reconcile"
    /\ Write(t, [row[t] EXCEPT !.status = "completed", !.hash = session[a].hash])
    /\ OutdateAndEnd(t, a)
    /\ credited' = [credited EXCEPT ![t] = @ + 1]
    /\ UNCHANGED <<queue, lock, job, faults, ledgerVars>>

\* complete_settlement from the status that was read: the payment had succeeded.
Reconcile(a) ==
    LET t == session[a].row IN
    /\ session[a].at = "reconcile"
    /\ IF row[t].status = session[a].from
       THEN /\ Write(t, [row[t] EXCEPT !.status = "completed", !.hash = session[a].hash])
            /\ OutdateAndEnd(t, a)
            /\ credited' = [credited EXCEPT ![t] = @ + 1]
       ELSE UNCHANGED <<row, credited>> /\ End(a)
    /\ UNCHANGED <<queue, lock, job, faults, ledgerVars>>

Publish(a) ==
    /\ session[a].at = "publish"
    /\ queue' = Enqueued(session[a].row)
    /\ End(a)
    /\ UNCHANGED <<row, lock, job, credited, faults, ledgerVars>>

\* Redis raises, whether or not it took the job.
PublishRaises(a) ==
    /\ session[a].at = "publish"
    /\ Fault
    /\ queue' \in {queue, Enqueued(session[a].row)}
    /\ Goto(a, "unpublish")
    /\ UNCHANGED <<row, lock, job, credited, ledgerVars>>

\* Mutant of Unpublish: the row is failed whoever has it by now.
UnpublishAnyStatus(a) ==
    /\ session[a].at = "unpublish"
    /\ Write(session[a].row, [row[session[a].row] EXCEPT !.status = "failed"])
    /\ OutdateAndEnd(session[a].row, a)
    /\ UNCHANGED <<queue, lock, job, credited, faults, ledgerVars>>

\* _publish then fails the row, but only from queued: a worker may have it by now.
Unpublish(a) ==
    LET t == session[a].row IN
    /\ session[a].at = "unpublish"
    /\ IF row[t].status = "queued"
       THEN Write(t, [row[t] EXCEPT !.status = "failed"]) /\ OutdateAndEnd(t, a)
       ELSE UNCHANGED row /\ End(a)
    /\ UNCHANGED <<queue, lock, job, credited, faults, ledgerVars>>

\* The web process dies, or a ledger query or the database raises.
Abort(a) ==
    /\ session[a].at # "idle"
    /\ Fault
    /\ End(a)
    /\ UNCHANGED <<row, queue, lock, job, credited, ledgerVars>>

-----------------------------------------------------------------------------
(* The ledger's own steps.  Without SlowRpc the server's ledger stands     *)
(* still from a request's look-up to its last query.                       *)

Querying == \E a \in Admins : session[a].at \in {"latest", "range"}

LedgerCloses ==
    /\ SlowRpc \/ ~Querying
    /\ \E good, bad \in SUBSET Hashes : CloseLedger(good, bad)
    /\ UNCHANGED <<row, queue, lock, job, session, credited, faults>>

ServerBackfills ==
    /\ SlowRpc \/ ~Querying
    /\ Backfill
    /\ UNCHANGED <<row, queue, lock, job, session, credited, faults>>

Deliver(t) == \E w \in Workers : Claim(w, t) \/ Skip(w, t)

JobSteps(w) ==
    \/ Provisioned(w) \/ AcquireLock(w) \/ \E h \in Hashes : Sign(w, h)
    \/ Submit(w) \/ Observe(w) \/ LoseSight(w) \/ FailTransiently(w)
    \/ CompleteSettlement(w) \/ FailSigned(w) \/ FailUnsigned(w)
    \/ HandBack(w) \/ Requeue(w)

RequestSteps(a) ==
    \/ LookUp(a) \/ CheckLatest(a) \/ CheckRange(a) \/ Reset(a) \/ Reconcile(a)
    \/ Publish(a) \/ PublishRaises(a) \/ Unpublish(a)

Next ==
    \/ \E t \in Rows : \/ CreateRemittance(t) \/ MarkCashinFailed(t) \/ SetAmlFlag(t)
                       \/ GrowOld(t) \/ LoseMessage(t) \/ Deliver(t)
    \/ \E stale \in SUBSET Rows : ExpireStaleCashins(stale)
    \/ \E w \in Workers : JobSteps(w) \/ Crash(w)
    \/ \E a \in Admins, t \in Rows :
          MarkCashinReceived(a, t) \/ StartRequeue(a, t) \/ StartRetry(a, t)
    \/ \E a \in Admins : RequestSteps(a) \/ Abort(a)
    \/ LockExpires
    \/ LedgerCloses
    \/ ServerBackfills

Spec == Init /\ [][Next]_vars

\* What keeps running by itself: RQ serves its queue in order, a job or a request
\* that has begun goes on unless it dies, locks expire and ledgers close.
Machinery ==
    /\ \A t \in Rows : SF_vars(Deliver(t))
    /\ \A w \in Workers : WF_vars(JobSteps(w))
    /\ \A a \in Admins : WF_vars(RequestSteps(a))
    /\ WF_vars(LockExpires)
    /\ SF_vars(LedgerCloses)

FairSpec == Spec /\ Machinery

\* An admin who works the settlement monitor: no listed row is passed over for ever.
DiligentSpec ==
    /\ FairSpec
    /\ SF_vars(ServerBackfills)
    /\ \A t \in Rows : /\ WF_vars(GrowOld(t))
                       /\ SF_vars(\E a \in Admins : StartRequeue(a, t))
                       /\ SF_vars(\E a \in Admins : IsStuck(t) /\ StartRetry(a, t))

-----------------------------------------------------------------------------
(* Properties.                                                             *)

LandedFor(t) == {h \in Hashes : pay[h].row = t /\ Landed(h)}

\* However jobs die, messages repeat and admins retry, at most one payment of a
\* remittance ever moves funds (retry_settlement: "re-sending on the second would pay
\* the recipient twice").
NoDoublePayment == \A t \in Rows : \A h, k \in LandedFor(t) : h = k

\* The wallet credit goes with the status: a remittance is credited once, and exactly
\* when it is completed, by whichever of the worker and the reconciliations comes first
\* (complete_settlement), even if it was paid twice on the ledger.
CreditFollowsStatus ==
    \A t \in Rows : credited[t] = IF row[t].status = "completed" THEN 1 ELSE 0

\* The wallet credit is the ledger's payment: a remittance is completed exactly when
\* its amount was credited, once, and the hash it shows is its own validated payment
\* (complete_settlement, from the worker or from a reconcile).
CreditedOnce ==
    /\ CreditFollowsStatus
    /\ \A t \in Rows : row[t].status = "completed" => row[t].hash \in LandedFor(t)

\* Every payment that was ever signed can still be investigated: its row shows its
\* hash, live or archived, with the ledger range it could land in, and no payment is
\* in a ledger outside that range (remember_signed, _archived_attempts).
Traceable ==
    \A h \in Hashes : pay[h].state # "unsigned" =>
        LET r == row[pay[h].row] IN
        /\ \/ r.hash = h /\ r.last = pay[h].last /\ (pay[h].ledger > 0 => r.first <= pay[h].ledger)
           \/ \E e \in r.archive : /\ e.hash = h /\ e.last = pay[h].last
                                   /\ pay[h].ledger > 0 => e.first <= pay[h].ledger
        /\ pay[h].ledger <= pay[h].last

\* An attempt is retired only when it can never move funds any more
\* (_refuse_unless_provably_dead: "the sole gate on re-sending").
RetiredAreDead ==
    \A t \in Rows : \A e \in row[t].archive : Dead(e.hash)

\* Two jobs never sign for the treasury at once, through crashes and lock expiry
\* (queue_service.treasury_lock).
OneSigner ==
    \A v, w \in Workers :
        job[v].at \in {"sign", "submit", "wait"} /\ job[w].at \in {"sign", "submit", "wait"}
            => v = w

\* A row that waits in the queue can be claimed when its message comes: nothing
\* queued carries a hash ("No queued row should ever carry a hash", claim), and no job
\* that still may sign believes it owns the row.
QueuedIsClaimable ==
    \A t \in Rows : row[t].status = "queued" =>
        /\ Claimable(t)
        /\ \A w \in Workers : Owns(w, t) => job[w].at = "requeue"

\* Nothing is ever signed for a remittance whose money did not come in, and a refused
\* cash-in never reaches the queue (expiry racing a confirmation, FR-CI-03).
CashBeforePayment ==
    /\ \A h \in Hashes : pay[h].state # "unsigned" => row[pay[h].row].cashin = "received"
    /\ \A t \in Rows : row[t].status # "not_queued" => row[t].cashin = "received"

\* The hash a row shows is replaced only by archiving it in the same write
\* (_archived_attempts: "the record moves rather than being destroyed").
HashIsKept ==
    [][\A t \in Rows :
          row[t].hash # NoHash /\ row'[t].hash # row[t].hash =>
              \E e \in row'[t].archive : e.hash = row[t].hash]_vars

\* No step, however late its actor, takes a row back: a completed row never changes
\* status, a decided cash-in stays decided, and an attempt stays in the archive.
ForwardOnly ==
    [][\A t \in Rows :
          /\ row[t].status = "completed" => row'[t].status = "completed"
          /\ row[t].cashin \in {"received", "failed"} => row'[t].cashin = row[t].cashin
          /\ row[t].archive \subseteq row'[t].archive]_vars

\* Every confirmed remittance is completed or shown as failed in the end: by itself
\* when nothing fails (FairSpec), and with an admin's help after crashes, lost
\* messages and Redis errors (DiligentSpec): no row is left out of everyone's reach.
Resolves ==
    \A t \in Rows : row[t].cashin = "received" ~> row[t].status \in {"completed", "failed"}

-----------------------------------------------------------------------------
(* What the recipient and the sender are promised.                         *)

Promise == INSTANCE RemittanceSpec WITH
    Transfers <- Rows, Payments <- Hashes,
    cash <- [t \in Rows |-> row[t].cashin],
    paid <- [t \in Rows |-> LandedFor(t)],
    credit <- credited

\* The whole machinery of jobs, messages, retries and reconciliations implements the
\* simple promise: funded once, then paid once, then credited once.
ImplementsPromise == Promise!Spec

=============================================================================
