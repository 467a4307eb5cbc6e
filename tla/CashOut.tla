-------------------------------- MODULE CashOut --------------------------------
(***************************************************************************)
(* The life of a cash-out: a recipient's request, an admin's approval that *)
(* reserves the tokens, the queue, the workers that burn them on the       *)
(* ledger, the sweep that re-publishes lost messages, and the admin's      *)
(* reconciliation of a burn whose outcome nobody saw.                      *)
(*                                                                         *)
(* A database transaction of the code is one action; everything between    *)
(* two of them is an interleaving point.  Rows of XrplLedger are cash-outs *)
(* here, and its payments are burns.                                       *)
(***************************************************************************)
EXTENDS XrplLedger

CONSTANTS
    Workers,       \* RQ worker processes
    Admins,        \* concurrent admin requests
    NoHash,        \* SQL NULL in xrpl_burn_tx_hash
    MaxAttempts,   \* cashout_worker.MAX_ATTEMPTS
    MaxMsgs,       \* bound: copies of one row's message that count
    MaxFaults,     \* bound: crashes, lost messages and Redis errors
    SlowRpc,       \* may the server's ledger advance between two queries of one reconcile?
    LateRedisError \* may a publish fail after its message, or the sweep's, is in the queue?

ASSUME NoHashAssumption    == NoHash \notin Hashes
ASSUME AttemptsAssumption  == MaxAttempts \in Nat \ {0}
ASSUME MsgsAssumption      == MaxMsgs \in Nat \ {0}
ASSUME FaultsAssumption    == MaxFaults \in Nat
ASSUME SwitchesAssumption  == SlowRpc \in BOOLEAN /\ LateRedisError \in BOOLEAN

VARIABLES
    req,       \* the cashout_requests table
    taken,     \* row |-> times its amount was debited from the wallet
    returned,  \* row |-> times its amount was added back
    payouts,   \* row |-> simulated fiat payouts written
    queue,     \* row |-> messages for it in Redis (ready or scheduled)
    job,       \* worker |-> the burn it works on
    session,   \* admin |-> the request it makes
    faults

money == <<taken, returned, payouts>>
vars  == <<req, money, queue, job, session, faults, pay, validated, history>>

Statuses == {"absent", "requested", "approved", "completed", "failed"}

\* claim: burn_started_at is NULL, recent, or STUCK_AFTER (10 minutes) old.
TableRow == [status : Statuses, claim : {"none", "live", "stale"}, hash : Hashes \cup {NoHash},
             first : Nat, last : Nat, attempts : Nat]

JobStep == {"idle", "begin", "sign", "submit", "wait", "succeeded", "failed", "unknown",
            "retry", "requeue"}
Job == [at : JobStep, row : Rows \cup {NoRow}, hash : Hashes \cup {NoHash}, first : Nat,
        attempts : Nat]

RequestStep == {"idle", "publish", "unpublish", "lookup", "latest", "range", "complete", "restore"}
Request == [at : RequestStep, row : Rows \cup {NoRow}, hash : Hashes \cup {NoHash},
            first : Nat, last : Nat]

TypeOK ==
    /\ LedgerTypeOK
    /\ req \in [Rows -> TableRow]
    /\ taken \in [Rows -> Nat] /\ returned \in [Rows -> Nat] /\ payouts \in [Rows -> Nat]
    /\ queue \in [Rows -> 0..MaxMsgs]
    /\ job \in [Workers -> Job]
    /\ session \in [Admins -> Request]
    /\ faults \in 0..MaxFaults

IdleJob == [at |-> "idle", row |-> NoRow, hash |-> NoHash, first |-> 0, attempts |-> 0]
IdleRequest == [at |-> "idle", row |-> NoRow, hash |-> NoHash, first |-> 0, last |-> 0]
NewRow == [status |-> "absent", claim |-> "none", hash |-> NoHash, first |-> 0, last |-> 0,
           attempts |-> 0]
Zero == [r \in Rows |-> 0]

Init ==
    /\ LedgerInit
    /\ req = [r \in Rows |-> NewRow]
    /\ taken = Zero /\ returned = Zero /\ payouts = Zero
    /\ queue = Zero
    /\ job = [w \in Workers |-> IdleJob]
    /\ session = [a \in Admins |-> IdleRequest]
    /\ faults = 0

-----------------------------------------------------------------------------
(* Building blocks.                                                        *)

Goto(a, s)  == session' = [session EXCEPT ![a] = [@ EXCEPT !.at = s]]
End(a)      == session' = [session EXCEPT ![a] = IdleRequest]
JobTo(w, s) == job' = [job EXCEPT ![w] = [@ EXCEPT !.at = s]]
JobEnd(w)   == job' = [job EXCEPT ![w] = IdleJob]
SetStatus(r, s) == req' = [req EXCEPT ![r] = [@ EXCEPT !.status = s]]
Bump(f, r)  == [f EXCEPT ![r] = @ + 1]

\* A further copy of a message adds no behaviour beyond MaxMsgs of them.
Enqueued(r) == [queue EXCEPT ![r] = IF @ < MaxMsgs THEN @ + 1 ELSE @]

Fault == faults < MaxFaults /\ faults' = faults + 1

NobodyOwns(r) == \A w \in Workers : job[w].row # r

\* Mutant of FailAndRestore: neither the transition nor the restore looks at the status.
RestoreTwice(r, h) ==
    /\ req' = [req EXCEPT ![r] = [@ EXCEPT !.status = "failed", !.hash = h]]
    /\ returned' = Bump(returned, r)
    /\ UNCHANGED <<taken, payouts>>

\* fail_and_restore: the restore commits with the transition approved -> failed.
FailAndRestore(r, h) ==
    IF req[r].status = "approved"
    THEN /\ req' = [req EXCEPT ![r] = [@ EXCEPT !.status = "failed", !.hash = h]]
         /\ returned' = Bump(returned, r)
         /\ UNCHANGED <<taken, payouts>>
    ELSE UNCHANGED <<req, money>>

\* complete_burn: the simulated payout commits with the transition approved -> completed.
CompleteBurn(r, h) ==
    IF req[r].status = "approved"
    THEN /\ req' = [req EXCEPT ![r] = [@ EXCEPT !.status = "completed", !.hash = h]]
         /\ payouts' = Bump(payouts, r)
         /\ UNCHANGED <<taken, returned>>
    ELSE UNCHANGED <<req, money>>

-----------------------------------------------------------------------------
(* The recipient's request and the admin's decision.                       *)

CreateRequest(r) ==
    /\ req[r].status = "absent"
    /\ SetStatus(r, "requested")
    /\ UNCHANGED <<money, queue, job, session, faults, ledgerVars>>

\* reject: no debit has happened, none is reversed.
Reject(r) ==
    /\ req[r].status = "requested"
    /\ SetStatus(r, "failed")
    /\ UNCHANGED <<money, queue, job, session, faults, ledgerVars>>

\* approve: the debit commits with the transition, then the burn is published.
Approve(a, r) ==
    /\ session[a].at = "idle"
    /\ req[r].status = "requested"
    /\ SetStatus(r, "approved")
    /\ taken' = Bump(taken, r)
    /\ session' = [session EXCEPT ![a] = [IdleRequest EXCEPT !.at = "publish", !.row = r]]
    /\ UNCHANGED <<returned, payouts, queue, job, faults, ledgerVars>>

Publish(a) ==
    /\ session[a].at = "publish"
    /\ queue' = Enqueued(session[a].row)
    /\ End(a)
    /\ UNCHANGED <<req, money, job, faults, ledgerVars>>

\* Redis raises; with LateRedisError it may have taken the message.
PublishRaises(a) ==
    /\ session[a].at = "publish"
    /\ Fault
    /\ \/ queue' = queue
       \/ LateRedisError /\ queue' = Enqueued(session[a].row)
    /\ Goto(a, "unpublish")
    /\ UNCHANGED <<req, money, job, ledgerVars>>

\* _publish then restores the reserve, whoever has claimed the row by now.
Unpublish(a) ==
    /\ session[a].at = "unpublish"
    /\ FailAndRestore(session[a].row, req[session[a].row].hash)
    /\ End(a)
    /\ UNCHANGED <<queue, job, faults, ledgerVars>>

\* A publish in progress for r.  Without LateRedisError it is over within PUBLISH_GRACE.
Publishing(r) == \E a \in Admins : session[a].row = r /\ session[a].at \in {"publish", "unpublish"}

\* Mutant of Sweep: only rows that were never claimed are re-published.
SweepUnclaimed(r) ==
    /\ req[r].status = "approved" /\ req[r].hash = NoHash
    /\ req[r].claim = "none"
    /\ LateRedisError \/ ~Publishing(r)
    /\ queue' = Enqueued(r)
    /\ UNCHANGED <<req, money, job, session, faults, ledgerVars>>

\* sweep_unpublished, one row of it: approved, unsigned and without a live claim.
Sweep(r) ==
    /\ req[r].status = "approved" /\ req[r].hash = NoHash
    /\ req[r].claim \in {"none", "stale"}
    /\ LateRedisError \/ ~Publishing(r)
    /\ queue' = Enqueued(r)
    /\ UNCHANGED <<req, money, job, session, faults, ledgerVars>>

\* STUCK_AFTER (10 minutes) passes.  A job dies after JOB_TIMEOUT (5 minutes), so no
\* live job still holds the claim.
GrowStale(r) ==
    /\ req[r].claim = "live"
    /\ NobodyOwns(r)
    /\ req' = [req EXCEPT ![r] = [@ EXCEPT !.claim = "stale"]]
    /\ UNCHANGED <<money, queue, job, session, faults, ledgerVars>>

-----------------------------------------------------------------------------
(* The worker's job: cashout_worker.process_burn.                          *)

\* Mutants of Claimable: without its guard on the claim, and on the hash.
ClaimableWhileClaimed(r) == req[r].status = "approved" /\ req[r].hash = NoHash
ClaimableWhenSigned(r)   == req[r].status = "approved" /\ req[r].claim # "live"

Claimable(r) ==
    /\ req[r].status = "approved"
    /\ req[r].hash = NoHash
    /\ req[r].claim # "live"

Claim(w, r) ==
    /\ job[w].at = "idle"
    /\ queue[r] > 0
    /\ Claimable(r)
    /\ queue' = [queue EXCEPT ![r] = @ - 1]
    /\ req' = [req EXCEPT ![r] = [@ EXCEPT !.claim = "live", !.attempts = req[r].attempts + 1]]
    /\ job' = [job EXCEPT ![w] = [at |-> "begin", row |-> r, hash |-> NoHash, first |-> 0,
                                  attempts |-> req[r].attempts + 1]]
    /\ UNCHANGED <<money, session, faults, ledgerVars>>

\* A duplicate or late message matches no row and is dropped.
Skip(w, r) ==
    /\ job[w].at = "idle"
    /\ queue[r] > 0
    /\ ~Claimable(r)
    /\ queue' = [queue EXCEPT ![r] = @ - 1]
    /\ UNCHANGED <<req, money, job, session, faults, ledgerVars>>

\* burn_to_issuer reads the validated ledger before signing.
ReadLedger(w) ==
    /\ job[w].at = "begin"
    /\ job' = [job EXCEPT ![w] = [@ EXCEPT !.at = "sign", !.first = validated]]
    /\ UNCHANGED <<req, money, queue, session, faults, ledgerVars>>

\* autofill_and_sign, then remember_signed: the ORM writes the hash and its ledger
\* range by primary key, whatever the row's status, before anything is submitted.
Sign(w, h) ==
    /\ job[w].at = "sign"
    /\ validated + Window < MaxLedger      \* bound: its window closes in the behaviour
    /\ SignPayment(h, job[w].row)
    /\ req' = [req EXCEPT ![job[w].row] =
                 [@ EXCEPT !.hash = h, !.first = job[w].first, !.last = validated + Window]]
    /\ job' = [job EXCEPT ![w] = [@ EXCEPT !.at = "submit", !.hash = h]]
    /\ UNCHANGED <<money, queue, session, faults>>

\* submit_and_wait sends the blob; the server may reject it as malformed (tem*).
Submit(w) ==
    /\ job[w].at = "submit"
    /\ \/ SetState(job[w].hash, "submitted") /\ JobTo(w, "wait")
       \/ SetState(job[w].hash, "void") /\ JobTo(w, "failed")
    /\ UNCHANGED <<req, money, queue, session, faults>>

\* Mutant of Observe: a validated failure is taken for a success.
ObserveAnyCode(w) ==
    /\ job[w].at = "wait"
    /\ pay[job[w].hash].state \in {"tes", "tec"}
    /\ JobTo(w, "succeeded")
    /\ UNCHANGED <<req, money, queue, session, faults, ledgerVars>>

Observe(w) ==
    /\ job[w].at = "wait"
    /\ \/ pay[job[w].hash].state = "tes" /\ JobTo(w, "succeeded")
       \/ pay[job[w].hash].state = "tec" /\ JobTo(w, "failed")
    /\ UNCHANGED <<req, money, queue, session, faults, ledgerVars>>

\* Mutant of LoseSight: an error after signing counts as a failure.
LoseSightAndFail(w) ==
    /\ job[w].at \in {"submit", "wait"}
    /\ JobTo(w, "failed")
    /\ UNCHANGED <<req, money, queue, session, faults, ledgerVars>>

\* Any error or timeout once signed: the outcome is unknown, sent or not.
LoseSight(w) ==
    /\ job[w].at \in {"submit", "wait"}
    /\ JobTo(w, "unknown")
    /\ UNCHANGED <<req, money, queue, session, faults, ledgerVars>>

\* Any error before signing.
FailTransiently(w) ==
    /\ job[w].at \in {"begin", "sign"}
    /\ JobTo(w, "retry")
    /\ UNCHANGED <<req, money, queue, session, faults, ledgerVars>>

Complete(w) ==
    /\ job[w].at = "succeeded"
    /\ CompleteBurn(job[w].row, job[w].hash)
    /\ JobEnd(w)
    /\ UNCHANGED <<queue, session, faults, ledgerVars>>

\* The ledger says the tokens did not move.
Restore(w) ==
    /\ job[w].at = "failed"
    /\ FailAndRestore(job[w].row, job[w].hash)
    /\ JobEnd(w)
    /\ UNCHANGED <<queue, session, faults, ledgerVars>>

\* Mutant of HoldUnknown: an unknown outcome becomes a status of its own.
HoldUnknownAsStatus(w) ==
    /\ job[w].at = "unknown"
    /\ SetStatus(job[w].row, "unknown")
    /\ JobEnd(w)
    /\ UNCHANGED <<money, queue, session, faults, ledgerVars>>

\* hold_unknown: the row stays approved and debited for an admin to reconcile.
HoldUnknown(w) ==
    /\ job[w].at = "unknown"
    /\ JobEnd(w)
    /\ UNCHANGED <<req, money, queue, session, faults, ledgerVars>>

\* Nothing was signed: an unusable amount, or no attempt left.
GiveUp(w) ==
    /\ \/ job[w].at = "sign"
       \/ job[w].at = "retry" /\ job[w].attempts >= MaxAttempts
    /\ FailAndRestore(job[w].row, req[job[w].row].hash)
    /\ JobEnd(w)
    /\ UNCHANGED <<queue, session, faults, ledgerVars>>

\* _retry_or_fail: release_claim commits before the delayed message is scheduled.
ReleaseClaim(w) ==
    /\ job[w].at = "retry"
    /\ job[w].attempts < MaxAttempts
    /\ req' = [req EXCEPT ![job[w].row] = [@ EXCEPT !.claim = "none"]]
    /\ JobTo(w, "requeue")
    /\ UNCHANGED <<money, queue, session, faults, ledgerVars>>

Requeue(w) ==
    /\ job[w].at = "requeue"
    /\ queue' = Enqueued(job[w].row)
    /\ JobEnd(w)
    /\ UNCHANGED <<req, money, session, faults, ledgerVars>>

\* The process dies, RQ kills it at JOB_TIMEOUT, or the database fails under it.
Crash(w) ==
    /\ job[w].at # "idle"
    /\ Fault
    /\ JobEnd(w)
    /\ UNCHANGED <<req, money, queue, session, ledgerVars>>

LoseMessage(r) ==
    /\ queue[r] > 0
    /\ Fault
    /\ queue' = [queue EXCEPT ![r] = @ - 1]
    /\ UNCHANGED <<req, money, job, session, ledgerVars>>

-----------------------------------------------------------------------------
(* The admin's reconciliation.                                             *)

StartReconcile(a, r) ==
    /\ session[a].at = "idle"
    /\ req[r].status = "approved"
    /\ req[r].hash # NoHash
    /\ session' = [session EXCEPT ![a] = [at |-> "lookup", row |-> r, hash |-> req[r].hash,
                                          first |-> req[r].first, last |-> req[r].last]]
    /\ UNCHANGED <<req, money, queue, job, faults, ledgerVars>>

LookUp(a) ==
    /\ session[a].at = "lookup"
    /\ \/ SeesTes(session[a].hash) /\ Goto(a, "complete")
       \/ SeesTec(session[a].hash) /\ Goto(a, "restore")
       \/ ~Sees(session[a].hash) /\ Goto(a, "latest")
    /\ UNCHANGED <<req, money, queue, job, faults, ledgerVars>>

CheckLatest(a) ==
    /\ session[a].at = "latest"
    /\ IF validated <= session[a].last THEN End(a) ELSE Goto(a, "range")
    /\ UNCHANGED <<req, money, queue, job, faults, ledgerVars>>

\* Mutant of CheckRange: the server's history is not asked for.
CheckRangeNever(a) ==
    /\ session[a].at = "range"
    /\ Goto(a, "restore")
    /\ UNCHANGED <<req, money, queue, job, faults, ledgerVars>>

CheckRange(a) ==
    /\ session[a].at = "range"
    /\ IF Unbroken(session[a].first, session[a].last) THEN Goto(a, "restore") ELSE End(a)
    /\ UNCHANGED <<req, money, queue, job, faults, ledgerVars>>

\* The burn is on the ledger: complete_burn, or a no-op if the worker was first.
CompleteReconciled(a) ==
    /\ session[a].at = "complete"
    /\ CompleteBurn(session[a].row, session[a].hash)
    /\ End(a)
    /\ UNCHANGED <<queue, job, faults, ledgerVars>>

\* The burn failed or can never be included: fail_and_restore, or a no-op.
RestoreReconciled(a) ==
    /\ session[a].at = "restore"
    /\ FailAndRestore(session[a].row, session[a].hash)
    /\ End(a)
    /\ UNCHANGED <<queue, job, faults, ledgerVars>>

\* The web process dies, or a ledger query or the database raises.
Abort(a) ==
    /\ session[a].at # "idle"
    /\ Fault
    /\ End(a)
    /\ UNCHANGED <<req, money, queue, job, ledgerVars>>

-----------------------------------------------------------------------------
(* The ledger's own steps.  Without SlowRpc the server's ledger stands     *)
(* still from a reconciliation's look-up to its last query.                *)

Querying == \E a \in Admins : session[a].at \in {"latest", "range"}

LedgerCloses ==
    /\ SlowRpc \/ ~Querying
    /\ \E good, bad \in SUBSET Hashes : CloseLedger(good, bad)
    /\ UNCHANGED <<req, money, queue, job, session, faults>>

ServerBackfills ==
    /\ SlowRpc \/ ~Querying
    /\ Backfill
    /\ UNCHANGED <<req, money, queue, job, session, faults>>

Deliver(r) == \E w \in Workers : Claim(w, r) \/ Skip(w, r)

JobSteps(w) ==
    \/ ReadLedger(w) \/ \E h \in Hashes : Sign(w, h)
    \/ Submit(w) \/ Observe(w) \/ LoseSight(w) \/ FailTransiently(w)
    \/ Complete(w) \/ Restore(w) \/ HoldUnknown(w) \/ GiveUp(w)
    \/ ReleaseClaim(w) \/ Requeue(w)

RequestSteps(a) ==
    \/ Publish(a) \/ PublishRaises(a) \/ Unpublish(a)
    \/ LookUp(a) \/ CheckLatest(a) \/ CheckRange(a)
    \/ CompleteReconciled(a) \/ RestoreReconciled(a)

Next ==
    \/ \E r \in Rows : \/ CreateRequest(r) \/ Reject(r) \/ Sweep(r) \/ GrowStale(r)
                       \/ LoseMessage(r) \/ Deliver(r)
    \/ \E w \in Workers : JobSteps(w) \/ Crash(w)
    \/ \E a \in Admins, r \in Rows : Approve(a, r) \/ StartReconcile(a, r)
    \/ \E a \in Admins : RequestSteps(a) \/ Abort(a)
    \/ LedgerCloses
    \/ ServerBackfills

Spec == Init /\ [][Next]_vars

\* RQ serves its queue, a job or a request that has begun goes on unless it dies, the
\* sweep runs every two minutes, ledgers close and the server catches up; and an
\* admin comes back to every held row (list_open keeps it on the approval page).
DiligentSpec ==
    /\ Spec
    /\ \A r \in Rows : /\ SF_vars(Deliver(r))
                       /\ SF_vars(Sweep(r))
                       /\ WF_vars(GrowStale(r))
                       /\ SF_vars(\E a \in Admins : StartReconcile(a, r))
    /\ \A w \in Workers : WF_vars(JobSteps(w))
    /\ \A a \in Admins : WF_vars(RequestSteps(a))
    /\ SF_vars(LedgerCloses)
    /\ SF_vars(ServerBackfills)

-----------------------------------------------------------------------------
(* Properties.                                                             *)

SignedFor(r) == {h \in Hashes : pay[h].row = r /\ pay[h].state # "unsigned"}
LandedFor(r) == {h \in SignedFor(r) : Landed(h)}

\* Money moves exactly as often as the status says: debited once on approval, added
\* back once on approved -> failed, paid out once on completion, whoever races whom
\* (approve, fail_and_restore "once", complete_burn "once").
MoneyFollowsStatus ==
    \A r \in Rows :
        /\ taken[r] = 1 <=> req[r].status \in {"approved", "completed"} \/ returned[r] = 1
        /\ returned[r] = 1 => req[r].status = "failed"
        /\ payouts[r] = 1 <=> req[r].status = "completed"
        /\ taken[r] <= 1 /\ returned[r] <= taken[r] /\ payouts[r] <= 1

\* Tokens are added back only when they provably did not, and can never, leave the
\* wallet (fail_and_restore: "Call this only when the tokens provably did NOT leave").
RestoredOnlyIfDead == \A r \in Rows : returned[r] > 0 => \A h \in SignedFor(r) : Dead(h)

\* A worker that signs is the row's only signer for ever: crashes, stale claims, sweeps
\* and repeated messages never lead to a second burn transaction (process_burn:
\* "Nothing that has been signed is ever resubmitted").
OneBurn == \A r \in Rows : \A h, k \in SignedFor(r) : h = k

\* Fiat is paid out only against tokens that a validated ledger destroyed.
PaidOnlyIfBurned == \A r \in Rows : req[r].status = "completed" => req[r].hash \in LandedFor(r)

\* The hash a row shows, its ledger range, and the row's decided status are final.
Frozen ==
    [][\A r \in Rows :
          /\ req[r].hash # NoHash =>
                <<req'[r].hash, req'[r].first, req'[r].last>>
                    = <<req[r].hash, req[r].first, req[r].last>>
          /\ req[r].status \in {"completed", "failed"} => req'[r].status = req[r].status]_vars

\* No reserve is held for ever: every approved cash-out is completed or failed in the
\* end, through crashes, lost messages and Redis errors (sweep_unpublished, reconcile).
ReserveResolves == \A r \in Rows : req[r].status = "approved" ~> req[r].status \in {"completed", "failed"}

\* What the recipient is promised.
Stage(r) == CASE req[r].status = "approved"  -> "reserved"
              [] req[r].status = "completed" -> "paid"
              [] req[r].status = "failed"    -> IF taken[r] = 0 THEN "refused" ELSE "returned"
              [] OTHER -> "open"

Promise == INSTANCE CashOutSpec WITH
    Requests <- Rows,
    stage <- [r \in Rows |-> Stage(r)],
    burnt <- {r \in Rows : LandedFor(r) # {}}

\* All of it implements the simple promise: reserved, then burnt and paid out, or
\* returned and never burnt.
ImplementsPromise == Promise!Spec
=============================================================================
