----------------------------- MODULE CashOutProofs -----------------------------
(***************************************************************************)
(* The inductive invariant of CashOut, for every number of rows, workers,  *)
(* admin requests, hashes, ledgers and faults; the safety properties that  *)
(* follow from it; and that CashOut implements CashOutSpec.                *)
(***************************************************************************)
EXTENDS CashOut, TLAPS

-----------------------------------------------------------------------------
(* The building blocks, field by field.                                    *)

LEMMA JobToEffect ==
    ASSUME TypeOK, NEW w \in Workers, NEW s \in JobStep, JobTo(w, s)
    PROVE  /\ job' \in [Workers -> Job]
           /\ \A v \in Workers \ {w} : job'[v] = job[v]
           /\ job'[w].at = s /\ job'[w].row = job[w].row
           /\ job'[w].hash = job[w].hash /\ job'[w].first = job[w].first
BY DEF JobTo, TypeOK, Job

LEMMA JobEndEffect ==
    ASSUME TypeOK, NEW w \in Workers, JobEnd(w)
    PROVE  /\ job' \in [Workers -> Job]
           /\ \A v \in Workers \ {w} : job'[v] = job[v]
           /\ job'[w].at = "idle" /\ job'[w].row = NoRow /\ job'[w].hash = NoHash
BY DEF JobEnd, IdleJob, TypeOK, Job, JobStep

LEMMA GotoEffect ==
    ASSUME TypeOK, NEW a \in Admins, NEW s \in RequestStep, Goto(a, s)
    PROVE  /\ session' \in [Admins -> Request]
           /\ \A b \in Admins \ {a} : session'[b] = session[b]
           /\ session'[a].at = s /\ session'[a].row = session[a].row
           /\ session'[a].hash = session[a].hash
           /\ session'[a].first = session[a].first /\ session'[a].last = session[a].last
BY DEF Goto, TypeOK, Request

LEMMA EndEffect ==
    ASSUME TypeOK, NEW a \in Admins, End(a)
    PROVE  /\ session' \in [Admins -> Request]
           /\ \A b \in Admins \ {a} : session'[b] = session[b]
           /\ session'[a].at = "idle" /\ session'[a].row = NoRow
BY DEF End, IdleRequest, TypeOK, Request, RequestStep

\* One UPDATE of row r.
LEMMA RowEffect ==
    ASSUME TypeOK, NEW r \in Rows, NEW x \in TableRow, req' = [req EXCEPT ![r] = x]
    PROVE  /\ req' \in [Rows -> TableRow]
           /\ req'[r] = x /\ \A u \in Rows \ {r} : req'[u] = req[u]
BY DEF TypeOK

LEMMA BumpEffect ==
    ASSUME NEW f \in [Rows -> Nat], NEW r \in Rows
    PROVE  /\ Bump(f, r) \in [Rows -> Nat]
           /\ Bump(f, r)[r] = f[r] + 1 /\ \A u \in Rows \ {r} : Bump(f, r)[u] = f[u]
<1>1. f[r] + 1 \in Nat
  OBVIOUS
<1> QED
  BY <1>1 DEF Bump

LEMMA EnqueuedEffect ==
    ASSUME TypeOK, NEW r
    PROVE  /\ Enqueued(r) \in [Rows -> 0..MaxMsgs]
           /\ \A u \in Rows \ {r} : Enqueued(r)[u] = queue[u]
<1> DEFINE n == IF queue[r] < MaxMsgs THEN queue[r] + 1 ELSE queue[r]
<1>1. r \in Rows => n \in 0..MaxMsgs
  BY MsgsAssumption DEF TypeOK
<1>2. Enqueued(r) = [queue EXCEPT ![r] = n]
  BY DEF Enqueued
<1> HIDE DEF n
<1> QED
  BY <1>1, <1>2 DEF TypeOK

\* A message leaves the queue.
LEMMA DequeuedEffect ==
    ASSUME TypeOK, NEW r \in Rows, queue[r] > 0, queue' = [queue EXCEPT ![r] = @ - 1]
    PROVE  /\ queue' \in [Rows -> 0..MaxMsgs]
           /\ \A u \in Rows \ {r} : queue'[u] = queue[u]
<1>1. queue[r] - 1 \in 0..MaxMsgs
  BY MsgsAssumption DEF TypeOK
<1> QED
  BY <1>1 DEF TypeOK

LEMMA FaultEffect == TypeOK /\ Fault => faults' \in 0..MaxFaults
BY FaultsAssumption DEF TypeOK, Fault

\* What a failed or completed burn does to its row.
LEMMA FailAndRestoreEffect ==
    ASSUME TypeOK, NEW r \in Rows, NEW h \in Hashes \cup {NoHash}, FailAndRestore(r, h)
    PROVE  /\ req' \in [Rows -> TableRow] /\ taken' = taken /\ payouts' = payouts
           /\ returned' \in [Rows -> Nat]
           /\ \A u \in Rows \ {r} : req'[u] = req[u] /\ returned'[u] = returned[u]
           /\ \/ req[r].status # "approved" /\ req' = req /\ returned' = returned
              \/ /\ req[r].status = "approved" /\ req'[r].status = "failed"
                 /\ req'[r].hash = h /\ req'[r].first = req[r].first
                 /\ req'[r].last = req[r].last /\ req'[r].claim = req[r].claim
                 /\ returned'[r] = returned[r] + 1
<1>1. CASE req[r].status = "approved"
  <2> DEFINE x == [req[r] EXCEPT !.status = "failed", !.hash = h]
  <2>1. req[r] \in TableRow
    BY DEF TypeOK
  <2>2. /\ x \in TableRow /\ x.status = "failed" /\ x.hash = h /\ x.first = req[r].first
        /\ x.last = req[r].last /\ x.claim = req[r].claim
    BY <2>1 DEF TableRow, Statuses
  <2>3. req' = [req EXCEPT ![r] = x] /\ returned' = Bump(returned, r)
    BY <1>1 DEF FailAndRestore
  <2> HIDE DEF x
  <2>4. /\ req' \in [Rows -> TableRow]
        /\ req'[r] = x /\ \A u \in Rows \ {r} : req'[u] = req[u]
    BY <2>2, <2>3, RowEffect
  <2>5. /\ returned' \in [Rows -> Nat] /\ returned'[r] = returned[r] + 1
        /\ \A u \in Rows \ {r} : returned'[u] = returned[u]
    BY <2>3, BumpEffect DEF TypeOK
  <2> QED
    BY <1>1, <2>2, <2>4, <2>5 DEF FailAndRestore
<1>2. CASE req[r].status # "approved"
  BY <1>2 DEF FailAndRestore, money, TypeOK
<1> QED
  BY <1>1, <1>2

LEMMA CompleteBurnEffect ==
    ASSUME TypeOK, NEW r \in Rows, NEW h \in Hashes \cup {NoHash}, CompleteBurn(r, h)
    PROVE  /\ req' \in [Rows -> TableRow] /\ taken' = taken /\ returned' = returned
           /\ payouts' \in [Rows -> Nat]
           /\ \A u \in Rows \ {r} : req'[u] = req[u] /\ payouts'[u] = payouts[u]
           /\ \/ req[r].status # "approved" /\ req' = req /\ payouts' = payouts
              \/ /\ req[r].status = "approved" /\ req'[r].status = "completed"
                 /\ req'[r].hash = h /\ req'[r].first = req[r].first
                 /\ req'[r].last = req[r].last /\ req'[r].claim = req[r].claim
                 /\ payouts'[r] = payouts[r] + 1
<1>1. CASE req[r].status = "approved"
  <2> DEFINE x == [req[r] EXCEPT !.status = "completed", !.hash = h]
  <2>1. req[r] \in TableRow
    BY DEF TypeOK
  <2>2. /\ x \in TableRow /\ x.status = "completed" /\ x.hash = h /\ x.first = req[r].first
        /\ x.last = req[r].last /\ x.claim = req[r].claim
    BY <2>1 DEF TableRow, Statuses
  <2>3. req' = [req EXCEPT ![r] = x] /\ payouts' = Bump(payouts, r)
    BY <1>1 DEF CompleteBurn
  <2> HIDE DEF x
  <2>4. /\ req' \in [Rows -> TableRow]
        /\ req'[r] = x /\ \A u \in Rows \ {r} : req'[u] = req[u]
    BY <2>2, <2>3, RowEffect
  <2>5. /\ payouts' \in [Rows -> Nat] /\ payouts'[r] = payouts[r] + 1
        /\ \A u \in Rows \ {r} : payouts'[u] = payouts[u]
    BY <2>3, BumpEffect DEF TypeOK
  <2> QED
    BY <1>1, <2>2, <2>4, <2>5 DEF CompleteBurn
<1>2. CASE req[r].status # "approved"
  BY <1>2 DEF CompleteBurn, money, TypeOK
<1> QED
  BY <1>1, <1>2

LEMMA SetStatusEffect ==
    ASSUME TypeOK, NEW r \in Rows, NEW s \in Statuses, SetStatus(r, s)
    PROVE  /\ req' \in [Rows -> TableRow]
           /\ \A u \in Rows \ {r} : req'[u] = req[u]
           /\ req'[r].status = s /\ req'[r].hash = req[r].hash /\ req'[r].claim = req[r].claim
           /\ req'[r].first = req[r].first /\ req'[r].last = req[r].last
<1> DEFINE x == [req[r] EXCEPT !.status = s]
<1>1. req[r] \in TableRow
  BY DEF TypeOK
<1>2. /\ x \in TableRow /\ x.status = s /\ x.hash = req[r].hash /\ x.claim = req[r].claim
      /\ x.first = req[r].first /\ x.last = req[r].last
  BY <1>1 DEF TableRow
<1>3. req' = [req EXCEPT ![r] = x]
  BY DEF SetStatus
<1> HIDE DEF x
<1> QED
  BY <1>2, <1>3, RowEffect

LEMMA SetClaimEffect ==
    ASSUME TypeOK, NEW r \in Rows, NEW c \in {"none", "stale"},
           req' = [req EXCEPT ![r] = [@ EXCEPT !.claim = c]]
    PROVE  /\ req' \in [Rows -> TableRow]
           /\ \A u \in Rows \ {r} : req'[u] = req[u]
           /\ req'[r].claim = c /\ req'[r].hash = req[r].hash /\ req'[r].status = req[r].status
           /\ req'[r].first = req[r].first /\ req'[r].last = req[r].last
<1> DEFINE x == [req[r] EXCEPT !.claim = c]
<1>1. req[r] \in TableRow
  BY DEF TypeOK
<1>2. /\ x \in TableRow /\ x.claim = c /\ x.hash = req[r].hash /\ x.status = req[r].status
      /\ x.first = req[r].first /\ x.last = req[r].last
  BY <1>1 DEF TableRow
<1>3. req' = [req EXCEPT ![r] = x]
  OBVIOUS
<1> HIDE DEF x
<1> QED
  BY <1>2, <1>3, RowEffect

-----------------------------------------------------------------------------
(* Type correctness.                                                       *)

\* A worker or a request that is busy is busy with a row.
Named ==
    /\ \A w \in Workers : job[w].at = "idle" <=> job[w].row = NoRow
    /\ \A a \in Admins : session[a].at = "idle" <=> session[a].row = NoRow

LEMMA TypeInit == Init => TypeOK /\ Named
BY FaultsAssumption, MsgsAssumption
   DEF Init, TypeOK, Named, Zero, LedgerInit, LedgerTypeOK, Payment, PayState, TableRow, Statuses,
       Job, JobStep, Request, RequestStep, NewRow, IdleJob, IdleRequest

LEMMA JobRow ==
    ASSUME TypeOK, Named, NEW w \in Workers, job[w].at # "idle"
    PROVE  job[w].row \in Rows
BY DEF TypeOK, Named, Job

LEMMA SessionRow ==
    ASSUME TypeOK, Named, NEW a \in Admins, session[a].at # "idle"
    PROVE  session[a].row \in Rows
BY DEF TypeOK, Named, Request

\* A step of one worker, and of one request, that keeps its row or ends.
LEMMA JobNamed ==
    ASSUME TypeOK, Named, NEW w \in Workers, session' = session,
           job' \in [Workers -> Job], \A v \in Workers \ {w} : job'[v] = job[v],
           job'[w].at = "idle" <=> job'[w].row = NoRow
    PROVE  Named'
BY DEF Named

LEMMA SessionNamed ==
    ASSUME TypeOK, Named, NEW a \in Admins, job' = job,
           session' \in [Admins -> Request], \A b \in Admins \ {a} : session'[b] = session[b],
           session'[a].at = "idle" <=> session'[a].row = NoRow
    PROVE  Named'
BY DEF Named

LEMMA JobToNamed ==
    ASSUME TypeOK, Named, NEW w \in Workers, NEW s \in JobStep \ {"idle"}, JobTo(w, s),
           job[w].at # "idle", session' = session
    PROVE  job' \in [Workers -> Job] /\ Named'
<1>1. job[w].row # NoRow
  BY DEF Named
<1> QED
  BY <1>1, JobToEffect, JobNamed

LEMMA JobEndNamed ==
    ASSUME TypeOK, Named, NEW w \in Workers, JobEnd(w), session' = session
    PROVE  job' \in [Workers -> Job] /\ Named'
BY JobEndEffect, JobNamed

LEMMA GotoNamed ==
    ASSUME TypeOK, Named, NEW a \in Admins, NEW s \in RequestStep \ {"idle"}, Goto(a, s),
           session[a].at # "idle", job' = job
    PROVE  session' \in [Admins -> Request] /\ Named'
<1>1. session[a].row # NoRow
  BY DEF Named
<1> QED
  BY <1>1, GotoEffect, SessionNamed

LEMMA EndNamed ==
    ASSUME TypeOK, Named, NEW a \in Admins, End(a), job' = job
    PROVE  session' \in [Admins -> Request] /\ Named'
BY EndEffect, SessionNamed

\* What a claim writes.
LEMMA ClaimEffect ==
    ASSUME TypeOK, NEW w \in Workers, NEW r \in Rows, Claim(w, r)
    PROVE  /\ job' \in [Workers -> Job]
           /\ \A v \in Workers \ {w} : job'[v] = job[v]
           /\ job'[w].at = "begin" /\ job'[w].row = r /\ job'[w].hash = NoHash
           /\ req' \in [Rows -> TableRow]
           /\ \A u \in Rows \ {r} : req'[u] = req[u]
           /\ req'[r].status = req[r].status /\ req'[r].hash = req[r].hash
           /\ req'[r].first = req[r].first /\ req'[r].last = req[r].last
           /\ req'[r].claim = "live"
<1> DEFINE j == [at |-> "begin", row |-> r, hash |-> NoHash, first |-> 0,
                 attempts |-> req[r].attempts + 1]
<1> DEFINE x == [req[r] EXCEPT !.claim = "live", !.attempts = req[r].attempts + 1]
<1>1. req[r] \in TableRow /\ req[r].attempts + 1 \in Nat
  BY DEF TypeOK, TableRow
<1>2. j \in Job /\ j.at = "begin" /\ j.row = r /\ j.hash = NoHash
  BY <1>1 DEF Job, JobStep
<1>3. /\ x \in TableRow /\ x.status = req[r].status /\ x.hash = req[r].hash
      /\ x.first = req[r].first /\ x.last = req[r].last /\ x.claim = "live"
  BY <1>1 DEF TableRow
<1>4. job' = [job EXCEPT ![w] = j] /\ req' = [req EXCEPT ![r] = x]
  BY DEF Claim
<1> HIDE DEF j, x
<1>5. req' \in [Rows -> TableRow] /\ req'[r] = x /\ \A u \in Rows \ {r} : req'[u] = req[u]
  BY <1>3, <1>4, RowEffect
<1> QED
  BY <1>2, <1>3, <1>4, <1>5 DEF TypeOK

\* What reading the ledger writes.
LEMMA ReadLedgerEffect ==
    ASSUME TypeOK, NEW w \in Workers, ReadLedger(w)
    PROVE  /\ job' \in [Workers -> Job]
           /\ \A v \in Workers \ {w} : job'[v] = job[v]
           /\ job'[w].at = "sign" /\ job'[w].row = job[w].row
           /\ job'[w].hash = job[w].hash /\ job'[w].first = validated
<1> DEFINE j == [job[w] EXCEPT !.at = "sign", !.first = validated]
<1>1. /\ j \in Job /\ j.at = "sign" /\ j.row = job[w].row
      /\ j.hash = job[w].hash /\ j.first = validated
  BY DEF TypeOK, LedgerTypeOK, Job, JobStep
<1>2. job' = [job EXCEPT ![w] = j]
  BY DEF ReadLedger
<1> HIDE DEF j
<1> QED
  BY <1>1, <1>2 DEF TypeOK

\* What signing writes.
LEMMA SignEffect ==
    ASSUME TypeOK, Named, NEW w \in Workers, NEW h \in Hashes, Sign(w, h)
    PROVE  /\ job[w].row \in Rows
           /\ job' \in [Workers -> Job]
           /\ \A v \in Workers \ {w} : job'[v] = job[v]
           /\ job'[w].at = "submit" /\ job'[w].row = job[w].row /\ job'[w].hash = h
           /\ req' \in [Rows -> TableRow]
           /\ \A u \in Rows \ {job[w].row} : req'[u] = req[u]
           /\ req'[job[w].row].status = req[job[w].row].status
           /\ req'[job[w].row].claim = req[job[w].row].claim
           /\ req'[job[w].row].hash = h /\ req'[job[w].row].first = job[w].first
           /\ req'[job[w].row].last = validated + Window
           /\ pay' \in [Hashes -> Payment]
           /\ \A k \in Hashes \ {h} : pay'[k] = pay[k]
           /\ pay[h].state = "unsigned"
           /\ pay'[h].row = job[w].row /\ pay'[h].state = "signed"
           /\ pay'[h].last = validated + Window /\ pay'[h].ledger = 0
           /\ validated' = validated /\ history' = history
<1> DEFINE r == job[w].row
<1> DEFINE j == [job[w] EXCEPT !.at = "submit", !.hash = h]
<1> DEFINE x == [req[r] EXCEPT !.hash = h, !.first = job[w].first, !.last = validated + Window]
<1> DEFINE p == [row |-> r, state |-> "signed", last |-> validated + Window, ledger |-> 0]
<1>1. r \in Rows /\ job[w] \in Job /\ job[w].at = "sign"
  BY JobRow DEF Sign, TypeOK
<1>2. req[r] \in TableRow /\ job[w].first \in Nat /\ validated + Window \in Nat
  BY <1>1, WindowAssumption DEF TypeOK, LedgerTypeOK, Job
<1>3. j \in Job /\ j.at = "submit" /\ j.row = r /\ j.hash = h
  BY <1>1 DEF Job, JobStep
<1>4. /\ x \in TableRow /\ x.status = req[r].status /\ x.claim = req[r].claim /\ x.hash = h
      /\ x.first = job[w].first /\ x.last = validated + Window
  BY <1>2 DEF TableRow
<1>5. p \in Payment /\ p.row = r /\ p.state = "signed" /\ p.last = validated + Window /\ p.ledger = 0
  BY <1>1, <1>2 DEF Payment, PayState
<1>6. /\ job' = [job EXCEPT ![w] = j] /\ req' = [req EXCEPT ![r] = x]
      /\ pay' = [pay EXCEPT ![h] = p] /\ pay[h].state = "unsigned"
      /\ validated' = validated /\ history' = history
  BY DEF Sign, SignPayment
<1> HIDE DEF j, x, p
<1>7. req' \in [Rows -> TableRow] /\ req'[r] = x /\ \A u \in Rows \ {r} : req'[u] = req[u]
  BY <1>1, <1>4, <1>6, RowEffect
<1>8. job' \in [Workers -> Job] /\ job'[w] = j /\ \A v \in Workers \ {w} : job'[v] = job[v]
  BY <1>3, <1>6 DEF TypeOK
<1>9. pay' \in [Hashes -> Payment] /\ pay'[h] = p /\ \A k \in Hashes \ {h} : pay'[k] = pay[k]
  BY <1>5, <1>6 DEF TypeOK, LedgerTypeOK
<1> QED
  BY <1>1, <1>3, <1>4, <1>5, <1>6, <1>7, <1>8, <1>9

\* What submitting writes, when the worker has something to submit.
LEMMA SetStateEffect ==
    ASSUME TypeOK, NEW h, NEW s \in PayState, SetState(h, s)
    PROVE  /\ pay' \in [Hashes -> Payment]
           /\ \A k \in Hashes \ {h} : pay'[k] = pay[k]
           /\ h \in Hashes => /\ pay'[h].state = s /\ pay'[h].row = pay[h].row
                              /\ pay'[h].last = pay[h].last /\ pay'[h].ledger = pay[h].ledger
           /\ validated' = validated /\ history' = history
<1>1. \A k \in Hashes : /\ [pay[k] EXCEPT !.state = s] \in Payment
                        /\ [pay[k] EXCEPT !.state = s].state = s
                        /\ [pay[k] EXCEPT !.state = s].row = pay[k].row
                        /\ [pay[k] EXCEPT !.state = s].last = pay[k].last
                        /\ [pay[k] EXCEPT !.state = s].ledger = pay[k].ledger
  BY DEF TypeOK, LedgerTypeOK, Payment
<1>2. /\ pay' = [pay EXCEPT ![h] = [pay[h] EXCEPT !.state = s]]
      /\ validated' = validated /\ history' = history
  BY DEF SetState
<1>3. CASE h \in Hashes
  BY <1>1, <1>2, <1>3 DEF TypeOK, LedgerTypeOK
<1>4. CASE h \notin Hashes
  BY <1>2, <1>4 DEF TypeOK, LedgerTypeOK
<1> QED
  BY <1>3, <1>4

\* What a ledger writes when it closes.
LEMMA CloseLedgerEffect ==
    ASSUME TypeOK, NEW good \in SUBSET Hashes, NEW bad \in SUBSET Hashes, CloseLedger(good, bad)
    PROVE  /\ pay' \in [Hashes -> Payment] /\ validated' \in Nat /\ history' \in SUBSET Nat
           /\ validated' = validated + 1
           /\ \A h \in Hashes :
                 \/ pay'[h] = pay[h]
                 \/ /\ pay[h].state = "submitted" /\ pay'[h].state \in {"tes", "tec"}
                    /\ pay'[h].row = pay[h].row /\ pay'[h].last = pay[h].last
                    /\ pay'[h].ledger = validated + 1 /\ validated + 1 <= pay[h].last
<1>1. validated + 1 \in Nat /\ validated' = validated + 1
  <2>1. validated \in Nat
    BY DEF TypeOK, LedgerTypeOK
  <2>2. validated' = validated + 1
    BY DEF CloseLedger
  <2> QED
    BY <2>1, <2>2
<1>2. history' \in SUBSET Nat
  BY <1>1 DEF CloseLedger, TypeOK, LedgerTypeOK
<1>3. ASSUME NEW p \in Payment, NEW s \in PayState
      PROVE  /\ [p EXCEPT !.state = s, !.ledger = validated + 1] \in Payment
             /\ [p EXCEPT !.state = s, !.ledger = validated + 1].state = s
             /\ [p EXCEPT !.state = s, !.ledger = validated + 1].row = p.row
             /\ [p EXCEPT !.state = s, !.ledger = validated + 1].last = p.last
             /\ [p EXCEPT !.state = s, !.ledger = validated + 1].ledger = validated + 1
  BY <1>1 DEF Payment
<1>4. ASSUME NEW h \in Hashes
      PROVE  /\ pay'[h] \in Payment
             /\ \/ pay'[h] = pay[h]
                \/ /\ pay[h].state = "submitted" /\ pay'[h].state \in {"tes", "tec"}
                   /\ pay'[h].row = pay[h].row /\ pay'[h].last = pay[h].last
                   /\ pay'[h].ledger = validated + 1 /\ validated + 1 <= pay[h].last
  <2>1. pay[h] \in Payment
    BY DEF TypeOK, LedgerTypeOK
  <2>2. CASE h \in good
    BY <1>3, <2>1, <2>2 DEF CloseLedger, Includable, PayState
  <2>3. CASE h \in bad /\ h \notin good
    BY <1>3, <2>1, <2>3 DEF CloseLedger, Includable, PayState
  <2>4. CASE h \notin good \cup bad
    BY <2>1, <2>4 DEF CloseLedger
  <2> QED
    BY <2>2, <2>3, <2>4
<1>5. pay' \in [Hashes -> Payment]
  BY <1>4 DEF CloseLedger
<1> QED
  BY <1>1, <1>2, <1>4, <1>5

\* Approving debits once and starts to publish.
LEMMA ApproveEffect ==
    ASSUME TypeOK, NEW a \in Admins, NEW r \in Rows, Approve(a, r)
    PROVE  /\ session' \in [Admins -> Request]
           /\ \A b \in Admins \ {a} : session'[b] = session[b]
           /\ session'[a].at = "publish" /\ session'[a].row = r
           /\ taken' \in [Rows -> Nat]
           /\ taken'[r] = taken[r] + 1 /\ \A u \in Rows \ {r} : taken'[u] = taken[u]
<1> DEFINE s == [IdleRequest EXCEPT !.at = "publish", !.row = r]
<1>1. s \in Request /\ s.at = "publish" /\ s.row = r
  BY DEF IdleRequest, Request, RequestStep
<1>2. session' = [session EXCEPT ![a] = s] /\ taken' = Bump(taken, r)
  BY DEF Approve
<1> HIDE DEF s
<1> QED
  BY <1>1, <1>2, BumpEffect DEF TypeOK

\* A reconciliation reads the row it will decide.
LEMMA StartReconcileEffect ==
    ASSUME TypeOK, NEW a \in Admins, NEW r \in Rows, StartReconcile(a, r)
    PROVE  /\ session' \in [Admins -> Request]
           /\ \A b \in Admins \ {a} : session'[b] = session[b]
           /\ session'[a].at = "lookup" /\ session'[a].row = r
           /\ session'[a].hash = req[r].hash
           /\ session'[a].first = req[r].first /\ session'[a].last = req[r].last
<1> DEFINE s == [at |-> "lookup", row |-> r, hash |-> req[r].hash, first |-> req[r].first,
                 last |-> req[r].last]
<1>0. req[r] \in TableRow
  BY DEF TypeOK
<1>1. /\ s \in Request /\ s.at = "lookup" /\ s.row = r /\ s.hash = req[r].hash
      /\ s.first = req[r].first /\ s.last = req[r].last
  BY <1>0 DEF Request, RequestStep, TableRow
<1>2. session' = [session EXCEPT ![a] = s]
  BY DEF StartReconcile
<1> HIDE DEF s
<1> QED
  BY <1>1, <1>2 DEF TypeOK

LEMMA TypeStep == TypeOK /\ Named /\ [Next]_vars => TypeOK' /\ Named'
<1> SUFFICES ASSUME TypeOK, Named, [Next]_vars PROVE TypeOK' /\ Named'
  OBVIOUS
<1> USE DEF ledgerVars, money
<1>a. ASSUME NEW r \in Rows, CreateRequest(r) PROVE TypeOK' /\ Named'
  <2>1. req' \in [Rows -> TableRow]
    BY <1>a, SetStatusEffect DEF CreateRequest, Statuses
  <2> QED
    BY <1>a, <2>1 DEF CreateRequest, TypeOK, LedgerTypeOK, Named
<1>b. ASSUME NEW r \in Rows, Reject(r) PROVE TypeOK' /\ Named'
  <2>1. req' \in [Rows -> TableRow]
    BY <1>b, SetStatusEffect DEF Reject, Statuses
  <2> QED
    BY <1>b, <2>1 DEF Reject, TypeOK, LedgerTypeOK, Named
<1>c. ASSUME NEW r \in Rows, Sweep(r) PROVE TypeOK' /\ Named'
  <2>1. queue' \in [Rows -> 0..MaxMsgs]
    BY <1>c, EnqueuedEffect DEF Sweep
  <2> QED
    BY <1>c, <2>1 DEF Sweep, TypeOK, LedgerTypeOK, Named
<1>d. ASSUME NEW r \in Rows, GrowStale(r) PROVE TypeOK' /\ Named'
  <2>1. req' \in [Rows -> TableRow]
    BY <1>d, SetClaimEffect DEF GrowStale
  <2> QED
    BY <1>d, <2>1 DEF GrowStale, TypeOK, LedgerTypeOK, Named
<1>e. ASSUME NEW r \in Rows, LoseMessage(r) PROVE TypeOK' /\ Named'
  <2>1. queue' \in [Rows -> 0..MaxMsgs]
    BY <1>e, DequeuedEffect DEF LoseMessage
  <2>2. faults' \in 0..MaxFaults
    BY <1>e, FaultEffect, <2>1 DEF LoseMessage
  <2> QED
    BY <1>e, <2>1, <2>2 DEF LoseMessage, TypeOK, LedgerTypeOK, Named
<1>f. ASSUME NEW w \in Workers, NEW r \in Rows, Claim(w, r) PROVE TypeOK' /\ Named'
  <2>1. job' \in [Workers -> Job] /\ Named' /\ req' \in [Rows -> TableRow]
    BY <1>f, ClaimEffect, JobNamed, NoRowAssumption DEF Claim
  <2>2. queue' \in [Rows -> 0..MaxMsgs]
    BY <1>f, DequeuedEffect, <2>1 DEF Claim
  <2> QED
    BY <1>f, <2>1, <2>2 DEF Claim, TypeOK, LedgerTypeOK, Named
<1>g. ASSUME NEW w \in Workers, NEW r \in Rows, Skip(w, r) PROVE TypeOK' /\ Named'
  <2>1. queue' \in [Rows -> 0..MaxMsgs]
    BY <1>g, DequeuedEffect DEF Skip
  <2> QED
    BY <1>g, <2>1 DEF Skip, TypeOK, LedgerTypeOK, Named
<1>h. ASSUME NEW w \in Workers, ReadLedger(w) PROVE TypeOK' /\ Named'
  <2>1. job' \in [Workers -> Job] /\ Named'
    BY <1>h, ReadLedgerEffect, JobNamed DEF ReadLedger, Named
  <2> QED
    BY <1>h, <2>1 DEF ReadLedger, TypeOK, LedgerTypeOK, Named
<1>i. ASSUME NEW w \in Workers, NEW h \in Hashes, Sign(w, h) PROVE TypeOK' /\ Named'
  <2>1. UNCHANGED <<money, queue, session, faults>>
    BY <1>i DEF Sign
  <2>2. /\ job' \in [Workers -> Job] /\ req' \in [Rows -> TableRow] /\ pay' \in [Hashes -> Payment]
        /\ validated' = validated /\ history' = history
    BY <1>i, SignEffect
  <2>3. Named'
    BY <1>i, <2>1, <2>2, SignEffect, JobNamed, NoRowAssumption
  <2> QED
    BY <2>1, <2>2, <2>3 DEF TypeOK, LedgerTypeOK, Named
<1>j. ASSUME NEW w \in Workers, Submit(w) PROVE TypeOK' /\ Named'
  <2>1. job' \in [Workers -> Job] /\ Named'
    BY <1>j, JobToNamed DEF Submit, JobStep
  <2>2. pay' \in [Hashes -> Payment] /\ validated' = validated /\ history' = history
    BY <1>j, SetStateEffect DEF Submit, PayState
  <2> QED
    BY <1>j, <2>1, <2>2 DEF Submit, TypeOK, LedgerTypeOK
<1>k. ASSUME NEW w \in Workers, Observe(w) PROVE TypeOK' /\ Named'
  <2>1. job' \in [Workers -> Job] /\ Named'
    BY <1>k, JobToNamed DEF Observe, JobStep
  <2> QED
    BY <1>k, <2>1 DEF Observe, TypeOK, LedgerTypeOK, Named
<1>l. ASSUME NEW w \in Workers, LoseSight(w) PROVE TypeOK' /\ Named'
  <2>1. job' \in [Workers -> Job] /\ Named'
    BY <1>l, JobToNamed DEF LoseSight, JobStep
  <2> QED
    BY <1>l, <2>1 DEF LoseSight, TypeOK, LedgerTypeOK, Named
<1>m. ASSUME NEW w \in Workers, FailTransiently(w) PROVE TypeOK' /\ Named'
  <2>1. job' \in [Workers -> Job] /\ Named'
    BY <1>m, JobToNamed DEF FailTransiently, JobStep
  <2> QED
    BY <1>m, <2>1 DEF FailTransiently, TypeOK, LedgerTypeOK, Named
<1>n. ASSUME NEW w \in Workers, Complete(w) PROVE TypeOK' /\ Named'
  <2>1. job[w].row \in Rows
    BY <1>n, JobRow DEF Complete
  <2>2. job[w].hash \in Hashes \cup {NoHash}
    BY <1>n, <2>1 DEF TypeOK, Job
  <2>3. job' \in [Workers -> Job] /\ Named'
    BY <1>n, JobEndNamed, <2>1, <2>2 DEF Complete
  <2>4. /\ req' \in [Rows -> TableRow] /\ taken' \in [Rows -> Nat]
        /\ returned' \in [Rows -> Nat] /\ payouts' \in [Rows -> Nat]
    BY <1>n, CompleteBurnEffect, <2>1, <2>2, <2>3 DEF Complete, TypeOK
  <2> QED
    BY <1>n, <2>1, <2>2, <2>3, <2>4 DEF Complete, TypeOK, LedgerTypeOK, Named
<1>o. ASSUME NEW w \in Workers, Restore(w) PROVE TypeOK' /\ Named'
  <2>1. job[w].row \in Rows
    BY <1>o, JobRow DEF Restore
  <2>2. job[w].hash \in Hashes \cup {NoHash}
    BY <1>o, <2>1 DEF TypeOK, Job
  <2>3. job' \in [Workers -> Job] /\ Named'
    BY <1>o, JobEndNamed, <2>1, <2>2 DEF Restore
  <2>4. /\ req' \in [Rows -> TableRow] /\ taken' \in [Rows -> Nat]
        /\ returned' \in [Rows -> Nat] /\ payouts' \in [Rows -> Nat]
    BY <1>o, FailAndRestoreEffect, <2>1, <2>2, <2>3 DEF Restore, TypeOK
  <2> QED
    BY <1>o, <2>1, <2>2, <2>3, <2>4 DEF Restore, TypeOK, LedgerTypeOK, Named
<1>p. ASSUME NEW w \in Workers, HoldUnknown(w) PROVE TypeOK' /\ Named'
  <2>1. job' \in [Workers -> Job] /\ Named'
    BY <1>p, JobEndNamed DEF HoldUnknown
  <2> QED
    BY <1>p, <2>1 DEF HoldUnknown, TypeOK, LedgerTypeOK, Named
<1>q. ASSUME NEW w \in Workers, GiveUp(w) PROVE TypeOK' /\ Named'
  <2>1. job[w].row \in Rows
    BY <1>q, JobRow DEF GiveUp
  <2>2. req[job[w].row].hash \in Hashes \cup {NoHash}
    BY <1>q, <2>1 DEF TypeOK, TableRow
  <2>3. job' \in [Workers -> Job] /\ Named'
    BY <1>q, JobEndNamed, <2>1, <2>2 DEF GiveUp
  <2>4. /\ req' \in [Rows -> TableRow] /\ taken' \in [Rows -> Nat]
        /\ returned' \in [Rows -> Nat] /\ payouts' \in [Rows -> Nat]
    BY <1>q, FailAndRestoreEffect, <2>1, <2>2, <2>3 DEF GiveUp, TypeOK
  <2> QED
    BY <1>q, <2>1, <2>2, <2>3, <2>4 DEF GiveUp, TypeOK, LedgerTypeOK, Named
<1>s. ASSUME NEW w \in Workers, ReleaseClaim(w) PROVE TypeOK' /\ Named'
  <2>1. job[w].row \in Rows
    BY <1>s, JobRow DEF ReleaseClaim
  <2>2. job' \in [Workers -> Job] /\ Named'
    BY <1>s, JobToNamed, <2>1 DEF ReleaseClaim, JobStep
  <2>3. req' \in [Rows -> TableRow]
    BY <1>s, SetClaimEffect, <2>1, <2>2 DEF ReleaseClaim
  <2> QED
    BY <1>s, <2>1, <2>2, <2>3 DEF ReleaseClaim, TypeOK, LedgerTypeOK, Named
<1>t. ASSUME NEW w \in Workers, Requeue(w) PROVE TypeOK' /\ Named'
  <2>1. job' \in [Workers -> Job] /\ Named'
    BY <1>t, JobEndNamed DEF Requeue
  <2>2. queue' \in [Rows -> 0..MaxMsgs]
    BY <1>t, EnqueuedEffect, <2>1 DEF Requeue
  <2> QED
    BY <1>t, <2>1, <2>2 DEF Requeue, TypeOK, LedgerTypeOK, Named
<1>u. ASSUME NEW w \in Workers, Crash(w) PROVE TypeOK' /\ Named'
  <2>1. job' \in [Workers -> Job] /\ Named'
    BY <1>u, JobEndNamed DEF Crash
  <2>2. faults' \in 0..MaxFaults
    BY <1>u, FaultEffect, <2>1 DEF Crash
  <2> QED
    BY <1>u, <2>1, <2>2 DEF Crash, TypeOK, LedgerTypeOK, Named
<1>v. ASSUME NEW a \in Admins, NEW r \in Rows, Approve(a, r) PROVE TypeOK' /\ Named'
  <2>1. req' \in [Rows -> TableRow]
    BY <1>v, SetStatusEffect DEF Approve, Statuses
  <2>2. session' \in [Admins -> Request] /\ Named' /\ taken' \in [Rows -> Nat]
    <3>1. job' = job
      BY <1>v DEF Approve
    <3> QED
      BY <1>v, <3>1, ApproveEffect, SessionNamed, NoRowAssumption
  <2> QED
    BY <1>v, <2>1, <2>2 DEF Approve, TypeOK, LedgerTypeOK, Named
<1>w. ASSUME NEW a \in Admins, Publish(a) PROVE TypeOK' /\ Named'
  <2>1. session' \in [Admins -> Request] /\ Named'
    BY <1>w, EndNamed DEF Publish
  <2>2. queue' \in [Rows -> 0..MaxMsgs]
    BY <1>w, EnqueuedEffect, <2>1 DEF Publish
  <2> QED
    BY <1>w, <2>1, <2>2 DEF Publish, TypeOK, LedgerTypeOK, Named
<1>x. ASSUME NEW a \in Admins, PublishRaises(a) PROVE TypeOK' /\ Named'
  <2>1. session' \in [Admins -> Request] /\ Named'
    BY <1>x, GotoNamed DEF PublishRaises, RequestStep
  <2>2. faults' \in 0..MaxFaults
    BY <1>x, FaultEffect, <2>1 DEF PublishRaises
  <2>3. queue' \in [Rows -> 0..MaxMsgs]
    BY <1>x, EnqueuedEffect, <2>1, <2>2 DEF PublishRaises, TypeOK
  <2> QED
    BY <1>x, <2>1, <2>2, <2>3 DEF PublishRaises, TypeOK, LedgerTypeOK, Named
<1>y. ASSUME NEW a \in Admins, Unpublish(a) PROVE TypeOK' /\ Named'
  <2>1. session[a].row \in Rows
    BY <1>y, SessionRow DEF Unpublish
  <2>2. req[session[a].row].hash \in Hashes \cup {NoHash}
    BY <1>y, <2>1 DEF TypeOK, TableRow
  <2>3. session' \in [Admins -> Request] /\ Named'
    BY <1>y, EndNamed, <2>1, <2>2 DEF Unpublish
  <2>4. /\ req' \in [Rows -> TableRow] /\ taken' \in [Rows -> Nat]
        /\ returned' \in [Rows -> Nat] /\ payouts' \in [Rows -> Nat]
    BY <1>y, FailAndRestoreEffect, <2>1, <2>2, <2>3 DEF Unpublish, TypeOK
  <2> QED
    BY <1>y, <2>1, <2>2, <2>3, <2>4 DEF Unpublish, TypeOK, LedgerTypeOK, Named
<1>z. ASSUME NEW a \in Admins, NEW r \in Rows, StartReconcile(a, r) PROVE TypeOK' /\ Named'
  <2>1. session' \in [Admins -> Request] /\ Named'
    BY <1>z, StartReconcileEffect, SessionNamed, NoRowAssumption DEF StartReconcile
  <2> QED
    BY <1>z, <2>1 DEF StartReconcile, TypeOK, LedgerTypeOK, Named
<1>aa. ASSUME NEW a \in Admins, LookUp(a) PROVE TypeOK' /\ Named'
  <2>1. session' \in [Admins -> Request] /\ Named'
    BY <1>aa, GotoNamed DEF LookUp, RequestStep
  <2> QED
    BY <1>aa, <2>1 DEF LookUp, TypeOK, LedgerTypeOK, Named
<1>bb. ASSUME NEW a \in Admins, CheckLatest(a) PROVE TypeOK' /\ Named'
  <2>1. session' \in [Admins -> Request] /\ Named'
    BY <1>bb, GotoNamed, EndNamed DEF CheckLatest, RequestStep
  <2> QED
    BY <1>bb, <2>1 DEF CheckLatest, TypeOK, LedgerTypeOK, Named
<1>cc. ASSUME NEW a \in Admins, CheckRange(a) PROVE TypeOK' /\ Named'
  <2>1. session' \in [Admins -> Request] /\ Named'
    BY <1>cc, GotoNamed, EndNamed DEF CheckRange, RequestStep
  <2> QED
    BY <1>cc, <2>1 DEF CheckRange, TypeOK, LedgerTypeOK, Named
<1>dd. ASSUME NEW a \in Admins, CompleteReconciled(a) PROVE TypeOK' /\ Named'
  <2>1. session[a].row \in Rows
    BY <1>dd, SessionRow DEF CompleteReconciled
  <2>2. session[a].hash \in Hashes \cup {NoHash}
    BY <1>dd, <2>1 DEF TypeOK, Request
  <2>3. session' \in [Admins -> Request] /\ Named'
    BY <1>dd, EndNamed, <2>1, <2>2 DEF CompleteReconciled
  <2>4. /\ req' \in [Rows -> TableRow] /\ taken' \in [Rows -> Nat]
        /\ returned' \in [Rows -> Nat] /\ payouts' \in [Rows -> Nat]
    BY <1>dd, CompleteBurnEffect, <2>1, <2>2, <2>3 DEF CompleteReconciled, TypeOK
  <2> QED
    BY <1>dd, <2>1, <2>2, <2>3, <2>4 DEF CompleteReconciled, TypeOK, LedgerTypeOK, Named
<1>ee. ASSUME NEW a \in Admins, RestoreReconciled(a) PROVE TypeOK' /\ Named'
  <2>1. session[a].row \in Rows
    BY <1>ee, SessionRow DEF RestoreReconciled
  <2>2. session[a].hash \in Hashes \cup {NoHash}
    BY <1>ee, <2>1 DEF TypeOK, Request
  <2>3. session' \in [Admins -> Request] /\ Named'
    BY <1>ee, EndNamed, <2>1, <2>2 DEF RestoreReconciled
  <2>4. /\ req' \in [Rows -> TableRow] /\ taken' \in [Rows -> Nat]
        /\ returned' \in [Rows -> Nat] /\ payouts' \in [Rows -> Nat]
    BY <1>ee, FailAndRestoreEffect, <2>1, <2>2, <2>3 DEF RestoreReconciled, TypeOK
  <2> QED
    BY <1>ee, <2>1, <2>2, <2>3, <2>4 DEF RestoreReconciled, TypeOK, LedgerTypeOK, Named
<1>ff. ASSUME NEW a \in Admins, Abort(a) PROVE TypeOK' /\ Named'
  <2>1. session' \in [Admins -> Request] /\ Named'
    BY <1>ff, EndNamed DEF Abort
  <2>2. faults' \in 0..MaxFaults
    BY <1>ff, FaultEffect, <2>1 DEF Abort
  <2> QED
    BY <1>ff, <2>1, <2>2 DEF Abort, TypeOK, LedgerTypeOK, Named
<1>gg. ASSUME LedgerCloses PROVE TypeOK' /\ Named'
  <2>1. PICK good \in SUBSET Hashes, bad \in SUBSET Hashes : CloseLedger(good, bad)
    BY <1>gg DEF LedgerCloses
  <2>2. pay' \in [Hashes -> Payment] /\ validated' \in Nat /\ history' \in SUBSET Nat
    BY <2>1, CloseLedgerEffect
  <2> QED
    BY <1>gg, <2>2 DEF LedgerCloses, TypeOK, LedgerTypeOK, Named
<1>hh. ASSUME ServerBackfills PROVE TypeOK' /\ Named'
  BY <1>hh DEF ServerBackfills, Backfill, TypeOK, LedgerTypeOK, Named
<1>ii. CASE UNCHANGED vars
  BY <1>ii DEF vars, TypeOK, LedgerTypeOK, Named
<1> QED
  BY <1>a, <1>b, <1>c, <1>d, <1>e, <1>f, <1>g, <1>h, <1>i, <1>j, <1>k, <1>l,
     <1>m, <1>n, <1>o, <1>p, <1>q, <1>s, <1>t, <1>u, <1>v, <1>w, <1>x, <1>y,
     <1>z, <1>aa, <1>bb, <1>cc, <1>dd, <1>ee, <1>ff, <1>gg, <1>hh, <1>ii
     DEF Next, Deliver, JobSteps, RequestSteps

\* Every variable of the cash-out keeps its type, for any number of rows and workers.
THEOREM TypeCorrect == Spec => []TypeOK
BY TypeInit, TypeStep, PTL DEF Spec

-----------------------------------------------------------------------------
(* The inductive invariant.  It holds of every instance; the part of it    *)
(* that says a restored burn is dead does so if the server's ledger stands *)
(* still while a reconciliation asks it and Redis raises only when it took *)
(* nothing.                                                                *)

Assured == ~SlowRpc /\ ~LateRedisError

Early(s) == s \in {"absent", "requested"}

Working(j)  == j.at \notin {"idle", "requeue"}
Pending(j)  == j.at \in {"begin", "sign", "retry"}
Pursuing(j) == j.at \in {"submit", "wait", "succeeded", "failed", "unknown"}

\* What a worker believes of its row and of the transaction it signed.
JobOK(j) ==
    /\ ~Pursuing(j) => j.hash = NoHash
    /\ Pending(j) => /\ req[j.row].hash = NoHash
                     /\ req[j.row].claim = "live"
                     /\ ~Early(req[j.row].status)
                     /\ Assured => req[j.row].status = "approved"
    /\ j.at = "sign" => j.first <= validated
    /\ Pursuing(j) => j.hash # NoHash /\ req[j.row].hash = j.hash
    /\ j.at = "submit" => pay[j.hash].state = "signed"
    /\ j.at = "wait" => pay[j.hash].state \in {"submitted", "tes", "tec"}
    /\ j.at = "succeeded" => pay[j.hash].state = "tes"
    /\ j.at = "failed" => pay[j.hash].state \in {"void", "tec"}

JobInv == \A w \in Workers : JobOK(job[w])

\* A claim, once signed for or not, has one worker.
OwnerInv == \A v, w \in Workers :
    Working(job[v]) /\ Working(job[w]) /\ job[v].row = job[w].row => v = w

\* The payment h of row r, and the range of ledgers it can be in.
RangeOf(h, r, first, last) ==
    /\ pay[h].row = r
    /\ pay[h].state # "unsigned"
    /\ pay[h].last = last
    /\ first <= validated
    /\ pay[h].ledger > 0 => first <= pay[h].ledger

\* How often money has moved for a row of each status.
MoneyOK(s, t, b, p) ==
    /\ s \in {"absent", "requested"} => t = 0 /\ b = 0 /\ p = 0
    /\ s = "approved" => t = 1 /\ b = 0 /\ p = 0
    /\ s = "completed" => t = 1 /\ b = 0 /\ p = 1
    /\ s = "failed" => t \in {0, 1} /\ b = t /\ p = 0

RowOK(r) ==
    /\ MoneyOK(req[r].status, taken[r], returned[r], payouts[r])
    /\ req[r].hash # NoHash =>
         /\ RangeOf(req[r].hash, r, req[r].first, req[r].last)
         /\ req[r].status \in {"approved", "completed", "failed"}
         /\ Assured /\ req[r].status = "failed" => Dead(req[r].hash)
    /\ req[r].status = "completed" => req[r].hash # NoHash /\ Landed(req[r].hash)

RowInv == \A r \in Rows : RowOK(r)

\* Neither queued, claimed nor signed for, and nobody works on it.
Untouched(r) == req[r].hash = NoHash /\ req[r].claim = "none" /\ queue[r] = 0 /\ NobodyOwns(r)

EarlyInv == \A r \in Rows : Early(req[r].status) => Untouched(r)

\* A signed burn is the one its row shows, and lies where the ledger can hold it.
PayOK(h) ==
    /\ pay[h].state # "unsigned" => pay[h].row \in Rows /\ req[pay[h].row].hash = h
    /\ pay[h].state \in {"tes", "tec"} <=> pay[h].ledger > 0
    /\ pay[h].ledger <= pay[h].last
    /\ pay[h].ledger <= validated

PayInv == \A h \in Hashes : PayOK(h)

Announcing(s) == s.at \in {"publish", "unpublish"}
Deciding(s)   == s.at \in {"lookup", "latest", "range", "complete", "restore"}

\* What an admin's request has found out, and still holds.
RequestOK(s) ==
    /\ Announcing(s) => /\ ~Early(req[s.row].status)
                        /\ Assured => Untouched(s.row) /\ req[s.row].status = "approved"
    /\ Deciding(s) => /\ s.hash # NoHash /\ req[s.row].hash = s.hash
                      /\ req[s.row].first = s.first /\ req[s.row].last = s.last
    /\ Assured /\ s.at \in {"latest", "range"} => ~Sees(s.hash)
    /\ s.at = "range" => s.last < validated
    /\ s.at = "complete" => Landed(s.hash)
    /\ Assured /\ s.at = "restore" => Dead(s.hash)

SessionInv ==
    /\ \A a \in Admins : RequestOK(session[a])
    /\ \A a, b \in Admins :
          Announcing(session[a]) /\ Announcing(session[b]) /\ session[a].row = session[b].row => a = b

Core == JobInv /\ OwnerInv /\ RowInv /\ EarlyInv /\ PayInv /\ SessionInv

Inductive == TypeOK /\ Named /\ Core

-----------------------------------------------------------------------------
(* A step touches some workers, requests and rows.  What it leaves alone   *)
(* keeps the invariant if the step fits around it.                         *)

Within(ws, ads, rs) ==
    /\ \A w \in Workers \ ws : job'[w] = job[w]
    /\ \A a \in Admins \ ads : session'[a] = session[a]
    /\ \A r \in Rows \ rs : /\ req'[r] = req[r] /\ queue'[r] = queue[r]
                            /\ taken'[r] = taken[r] /\ returned'[r] = returned[r]
                            /\ payouts'[r] = payouts[r]

\* What a worker that has not signed yet can see happen to its row.
ClaimKept(r) ==
    /\ req'[r].hash = req[r].hash /\ req'[r].claim = req[r].claim
    /\ Assured => req'[r].status = req[r].status

\* The touched workers are right, own their rows alone, and leave the claims of others.
JobsFit(ws, rs) ==
    /\ \A w \in ws : JobOK(job[w])'
    /\ \A w \in ws : job'[w].row \in {NoRow, job[w].row} \cup rs
    /\ \A w \in ws, v \in Workers :
          Working(job[w])' /\ Working(job[v])' /\ job'[w].row = job'[v].row => w = v
    /\ \A v \in Workers \ ws : Pending(job[v]) => job[v].row \notin rs \/ ClaimKept(job[v].row)

RowsFit(rs) ==
    \A r \in rs :
        /\ RowOK(r)'
        /\ req[r].hash # NoHash =>
              req'[r].hash = req[r].hash /\ req'[r].first = req[r].first /\ req'[r].last = req[r].last
        /\ Early(req'[r].status) => Early(req[r].status) /\ Untouched(r)'

RequestsFit(ads, rs) ==
    /\ \A a \in ads : RequestOK(session[a])'
    /\ \A a \in ads, b \in Admins :
          Announcing(session[a])' /\ Announcing(session[b])' /\ session'[a].row = session'[b].row
             => a = b
    /\ \A b \in Admins \ ads : Assured /\ Announcing(session[b]) => session[b].row \notin rs

\* What can become of a payment in one step.
Evolves(h) ==
    /\ pay[h].state # "unsigned" =>
          pay'[h].state # "unsigned" /\ pay'[h].row = pay[h].row /\ pay'[h].last = pay[h].last
    /\ Landed(h) => Landed(h)'
    /\ Dead(h) => Dead(h)'
    /\ pay'[h].ledger = pay[h].ledger \/ pay'[h].ledger = validated + 1

\* An included payment has a ledger, within its range.
Placed(h) ==
    /\ pay[h].state \in {"tes", "tec"} <=> pay[h].ledger > 0
    /\ pay[h].ledger <= pay[h].last
    /\ pay[h].ledger <= validated

\* A new burn is shown by its row.
Shown(h) ==
    pay[h].state = "unsigned" /\ pay'[h].state # "unsigned" =>
        pay'[h].row \in Rows /\ req'[pay'[h].row].hash = h

\* What a worker that pursues h can see happen to it.
Awaited(h) ==
    \/ pay'[h].state = pay[h].state
    \/ pay[h].state = "submitted" /\ pay'[h].state \in {"tes", "tec"}

PaymentsFit(ws, ads) ==
    /\ validated' >= validated
    /\ \A h \in Hashes : Evolves(h) /\ Placed(h)' /\ Shown(h)
    /\ \A v \in Workers \ ws : Pursuing(job[v]) => Awaited(job[v].hash)
    /\ \A b \in Admins \ ads, h \in Hashes :
          Assured /\ session[b].at \in {"latest", "range"} /\ session[b].hash = h /\ ~Sees(h)
             => ~Sees(h)'

Fits(ws, ads, rs) ==
    Within(ws, ads, rs) /\ JobsFit(ws, rs) /\ RowsFit(rs) /\ RequestsFit(ads, rs) /\ PaymentsFit(ws, ads)

\* The hash, and its range, that a row shows are never overwritten.
LEMMA RowFrozen ==
    ASSUME NEW ws, NEW ads, NEW rs, Fits(ws, ads, rs), NEW r \in Rows, req[r].hash # NoHash
    PROVE  req'[r].hash = req[r].hash /\ req'[r].first = req[r].first /\ req'[r].last = req[r].last
<1>1. CASE r \in rs
  BY <1>1 DEF Fits, RowsFit
<1>2. CASE r \notin rs
  BY <1>2 DEF Fits, Within
<1> QED
  BY <1>1, <1>2

\* A row that has been decided about does not become early again.
LEMMA LateForGood ==
    ASSUME NEW ws, NEW ads, NEW rs, Fits(ws, ads, rs), NEW r \in Rows, ~Early(req[r].status)
    PROVE  ~Early(req'[r].status)
<1>1. CASE r \in rs
  BY <1>1 DEF Fits, RowsFit
<1>2. CASE r \notin rs
  BY <1>2 DEF Fits, Within
<1> QED
  BY <1>1, <1>2

LEMMA KeepJobs ==
    ASSUME Inductive, TypeOK', Named', NEW ws \in SUBSET Workers, NEW ads \in SUBSET Admins,
           NEW rs \in SUBSET Rows, Fits(ws, ads, rs)
    PROVE  JobInv' /\ OwnerInv'
<1>1. ASSUME NEW v \in Workers \ ws PROVE JobOK(job[v])'
  <2>1. job'[v] = job[v] /\ job[v] \in Job /\ JobOK(job[v])
    BY DEF Inductive, Core, JobInv, TypeOK, Fits, Within
  <2>2. job[v].at # "idle" => job[v].row \in Rows
    BY JobRow DEF Inductive
  <2>3. validated' >= validated /\ validated \in Nat /\ validated' \in Nat /\ job[v].first \in Nat
    BY <2>1 DEF Fits, PaymentsFit, Inductive, TypeOK, LedgerTypeOK, Job
  <2>4. ASSUME Pending(job[v])
        PROVE  /\ req'[job[v].row].hash = NoHash /\ req'[job[v].row].claim = "live"
               /\ ~Early(req'[job[v].row].status)
               /\ Assured => req'[job[v].row].status = "approved"
    <3>1. job[v].row \in Rows
      BY <2>2, <2>4 DEF Pending
    <3>2. /\ req[job[v].row].hash = NoHash /\ req[job[v].row].claim = "live"
          /\ ~Early(req[job[v].row].status)
          /\ Assured => req[job[v].row].status = "approved"
      BY <2>1, <2>4 DEF JobOK
    <3>3. ClaimKept(job[v].row)
      BY <2>4, <3>1 DEF Fits, Within, JobsFit, ClaimKept
    <3>4. ~Early(req'[job[v].row].status)
      BY <3>1, <3>2, LateForGood
    <3> QED
      BY <3>2, <3>3, <3>4 DEF ClaimKept
  <2>5. ASSUME Pursuing(job[v])
        PROVE  /\ req'[job[v].row].hash = job[v].hash
               /\ \/ pay'[job[v].hash].state = pay[job[v].hash].state
                  \/ /\ pay[job[v].hash].state = "submitted"
                     /\ pay'[job[v].hash].state \in {"tes", "tec"}
    <3>1. job[v].row \in Rows /\ req[job[v].row].hash = job[v].hash /\ job[v].hash # NoHash
      BY <2>1, <2>2, <2>5 DEF Pursuing, JobOK
    <3>2. req'[job[v].row].hash = req[job[v].row].hash
      BY <3>1, RowFrozen
    <3> QED
      BY <2>5, <3>1, <3>2 DEF Fits, PaymentsFit, Awaited
  <2> QED
    BY <2>1, <2>3, <2>4, <2>5 DEF JobOK, Pending, Pursuing, Early, Assured
<1>2. JobInv'
  BY <1>1 DEF JobInv, Fits, JobsFit
<1>3. ASSUME NEW v \in Workers, NEW w \in Workers,
             Working(job[v])', Working(job[w])', job'[v].row = job'[w].row
      PROVE  v = w
  <2>1. CASE v \in ws \/ w \in ws
    BY <1>3, <2>1 DEF Fits, JobsFit
  <2>2. CASE v \notin ws /\ w \notin ws
    BY <1>3, <2>2 DEF Fits, Within, Inductive, Core, OwnerInv, Working
  <2> QED
    BY <2>1, <2>2
<1>4. OwnerInv'
  BY <1>3 DEF OwnerInv
<1> QED
  BY <1>2, <1>4

LEMMA KeepRows ==
    ASSUME Inductive, TypeOK', NEW ws \in SUBSET Workers, NEW ads \in SUBSET Admins,
           NEW rs \in SUBSET Rows, Fits(ws, ads, rs)
    PROVE  RowInv'
<1>1. ASSUME NEW r \in Rows \ rs PROVE RowOK(r)'
  <2>1. /\ req'[r] = req[r] /\ taken'[r] = taken[r] /\ returned'[r] = returned[r]
        /\ payouts'[r] = payouts[r] /\ RowOK(r) /\ req[r] \in TableRow
    BY DEF Fits, Within, Inductive, Core, RowInv, TypeOK
  <2>2. ASSUME NEW h, h = req[r].hash, h # NoHash
        PROVE  /\ RangeOf(h, r, req[r].first, req[r].last) => RangeOf(h, r, req[r].first, req[r].last)'
               /\ Dead(h) => Dead(h)'
               /\ Landed(h) => Landed(h)'
    <3>1. h \in Hashes /\ req[r].first \in Nat
      BY <2>1, <2>2 DEF TableRow
    <3>2. Evolves(h) /\ validated' >= validated
      BY <3>1 DEF Fits, PaymentsFit
    <3>3. validated \in Nat /\ validated' \in Nat /\ pay[h].ledger \in Nat /\ pay'[h].ledger \in Nat
      BY <3>1 DEF Inductive, TypeOK, LedgerTypeOK, Payment
    <3> QED
      BY <2>1, <3>1, <3>2, <3>3 DEF Evolves, RangeOf
  <2> QED
    BY <2>1, <2>2 DEF RowOK
<1> QED
  BY <1>1 DEF RowInv, Fits, RowsFit

LEMMA UntouchedKept ==
    ASSUME Inductive, TypeOK', NEW ws \in SUBSET Workers, NEW ads \in SUBSET Admins,
           NEW rs \in SUBSET Rows, Fits(ws, ads, rs), NEW r \in Rows \ rs, Untouched(r)
    PROVE  Untouched(r)'
<1>1. req'[r] = req[r] /\ queue'[r] = queue[r]
  BY DEF Fits, Within
<1>2. ASSUME NEW w \in Workers PROVE job'[w].row # r
  <2>1. job[w].row # r
    BY DEF Untouched, NobodyOwns
  <2> QED
    BY <2>1, NoRowAssumption DEF Fits, Within, JobsFit
<1> QED
  BY <1>1, <1>2 DEF Untouched, NobodyOwns

LEMMA KeepEarly ==
    ASSUME Inductive, TypeOK', NEW ws \in SUBSET Workers, NEW ads \in SUBSET Admins,
           NEW rs \in SUBSET Rows, Fits(ws, ads, rs)
    PROVE  EarlyInv'
<1>1. ASSUME NEW r \in Rows \ rs, Early(req'[r].status) PROVE Untouched(r)'
  <2>1. Early(req[r].status)
    BY <1>1 DEF Fits, Within
  <2> QED
    BY <2>1, UntouchedKept DEF Inductive, Core, EarlyInv
<1> QED
  BY <1>1 DEF EarlyInv, Fits, RowsFit, Early

LEMMA KeepPay ==
    ASSUME Inductive, TypeOK', NEW ws \in SUBSET Workers, NEW ads \in SUBSET Admins,
           NEW rs \in SUBSET Rows, Fits(ws, ads, rs)
    PROVE  PayInv'
<1>1. ASSUME NEW h \in Hashes, pay'[h].state # "unsigned"
      PROVE  pay'[h].row \in Rows /\ req'[pay'[h].row].hash = h
  <2>1. CASE pay[h].state = "unsigned"
    BY <1>1, <2>1 DEF Fits, PaymentsFit, Shown
  <2>2. CASE pay[h].state # "unsigned"
    <3>1. pay[h].row \in Rows /\ req[pay[h].row].hash = h /\ h # NoHash
      BY <2>2, NoHashAssumption DEF Inductive, Core, PayInv, PayOK
    <3>2. pay'[h].row = pay[h].row
      BY <2>2 DEF Fits, PaymentsFit, Evolves
    <3> QED
      BY <3>1, <3>2, RowFrozen
  <2> QED
    BY <2>1, <2>2
<1> QED
  BY <1>1 DEF PayInv, PayOK, Fits, PaymentsFit, Placed

LEMMA KeepSessions ==
    ASSUME Inductive, TypeOK', NEW ws \in SUBSET Workers, NEW ads \in SUBSET Admins,
           NEW rs \in SUBSET Rows, Fits(ws, ads, rs)
    PROVE  SessionInv'
<1>1. ASSUME NEW b \in Admins \ ads PROVE RequestOK(session[b])'
  <2>1. session'[b] = session[b] /\ session[b] \in Request /\ RequestOK(session[b])
    BY DEF Fits, Within, Inductive, Core, SessionInv, TypeOK
  <2>2. session[b].at # "idle" => session[b].row \in Rows
    BY SessionRow DEF Inductive
  <2>3. validated' >= validated /\ validated \in Nat /\ validated' \in Nat /\ session[b].last \in Nat
    BY <2>1 DEF Fits, PaymentsFit, Inductive, TypeOK, LedgerTypeOK, Request
  <2>4. ASSUME Announcing(session[b]), Assured
        PROVE  Untouched(session[b].row)' /\ req'[session[b].row].status = "approved"
    <3>1. session[b].row \in Rows \ rs
      BY <2>2, <2>4 DEF Announcing, Fits, RequestsFit
    <3>2. PICK r \in Rows \ rs : r = session[b].row
      BY <3>1
    <3>3. Untouched(r) /\ req[r].status = "approved" /\ req'[r] = req[r]
      BY <2>1, <2>4, <3>2 DEF RequestOK, Fits, Within
    <3>4. Untouched(r)'
      BY <3>3, UntouchedKept
    <3> QED
      BY <2>1, <3>2, <3>3, <3>4 DEF Untouched, NobodyOwns
  <2>5. ASSUME Deciding(session[b])
        PROVE  /\ req'[session[b].row].hash = session[b].hash
               /\ req'[session[b].row].first = session[b].first
               /\ req'[session[b].row].last = session[b].last
               /\ Evolves(session[b].hash)
    <3>1. /\ session[b].row \in Rows /\ session[b].hash # NoHash
          /\ req[session[b].row].hash = session[b].hash
          /\ req[session[b].row].first = session[b].first
          /\ req[session[b].row].last = session[b].last
      BY <2>1, <2>2, <2>5 DEF RequestOK, Deciding
    <3>2. session[b].hash \in Hashes
      BY <2>1, <3>1 DEF Request
    <3> QED
      BY <3>1, <3>2, RowFrozen DEF Fits, PaymentsFit
  <2>7. PICK s : s = session[b]
    OBVIOUS
  <2>6. Assured /\ s.at \in {"latest", "range"} => ~Sees(s.hash)'
    <3>1. PICK h : h = s.hash
      OBVIOUS
    <3>2. Assured /\ s.at \in {"latest", "range"} => h \in Hashes /\ ~Sees(h)
      BY <2>1, <2>7, <3>1 DEF RequestOK, Deciding, Request
    <3>3. Assured /\ s.at \in {"latest", "range"} => ~Sees(h)'
      BY <2>7, <3>1, <3>2 DEF Fits, PaymentsFit
    <3> QED
      BY <3>1, <3>3
  <2>8. session'[b] = s
    BY <2>1, <2>7
  <2>9. RequestOK(s)'
    <3>1. Assured /\ Announcing(s) => Untouched(s.row)' /\ req'[s.row].status = "approved"
      BY <2>4, <2>7, <2>8, <2>1 DEF Untouched, NobodyOwns
    <3>3. Announcing(s) => ~Early(req'[s.row].status)
      BY <2>1, <2>2, <2>7, LateForGood DEF RequestOK, Announcing
    <3>2. Deciding(s) => /\ s.hash # NoHash /\ req'[s.row].hash = s.hash
                         /\ req'[s.row].first = s.first /\ req'[s.row].last = s.last
      BY <2>1, <2>5, <2>7 DEF RequestOK
    <3>4. s.at = "range" => s.last < validated'
      BY <2>1, <2>3, <2>7 DEF RequestOK
    <3>5. s.at = "complete" => Landed(s.hash)'
      BY <2>1, <2>5, <2>7 DEF RequestOK, Deciding, Evolves, Landed
    <3>6. Assured /\ s.at = "restore" => Dead(s.hash)'
      BY <2>1, <2>5, <2>7, <2>8 DEF RequestOK, Deciding, Evolves, Dead
    <3> QED
      BY <2>6, <3>1, <3>2, <3>3, <3>4, <3>5, <3>6
      DEF RequestOK, Announcing, Deciding, Early, Assured
  <2> QED
    BY <2>8, <2>9
    DEF RequestOK, Announcing, Deciding, Untouched, NobodyOwns, Sees, Landed, Dead, Early, Assured
<1>2. \A a \in Admins : RequestOK(session[a])'
  BY <1>1 DEF Fits, RequestsFit
<1>3. ASSUME NEW a \in Admins, NEW b \in Admins,
             Announcing(session[a])', Announcing(session[b])', session'[a].row = session'[b].row
      PROVE  a = b
  <2>1. CASE a \in ads \/ b \in ads
    BY <1>3, <2>1 DEF Fits, RequestsFit
  <2>2. CASE a \notin ads /\ b \notin ads
    BY <1>3, <2>2 DEF Fits, Within, Inductive, Core, SessionInv, Announcing
  <2> QED
    BY <2>1, <2>2
<1> QED
  BY <1>2, <1>3 DEF SessionInv

LEMMA FitsKeeps ==
    ASSUME Inductive, TypeOK', Named', NEW ws \in SUBSET Workers, NEW ads \in SUBSET Admins,
           NEW rs \in SUBSET Rows, Fits(ws, ads, rs)
    PROVE  Core'
BY KeepJobs, KeepRows, KeepEarly, KeepPay, KeepSessions DEF Core

-----------------------------------------------------------------------------
(* The shapes of a step.                                                   *)

LEMMA StillPayments ==
    ASSUME Inductive, TypeOK', UNCHANGED ledgerVars, NEW ws, NEW ads
    PROVE  PaymentsFit(ws, ads)
<1>1. pay' = pay /\ validated' = validated /\ history' = history
  BY DEF ledgerVars
<1>2. \A h \in Hashes : Evolves(h)
  BY <1>1 DEF Evolves, Landed, Dead
<1>3. \A h \in Hashes : PayOK(h)
  BY DEF Inductive, Core, PayInv
<1>4. validated' >= validated
  BY <1>1 DEF Inductive, TypeOK, LedgerTypeOK
<1>5. \A h : ~Sees(h) => ~Sees(h)'
  BY <1>1 DEF Sees
<1>6. \A h \in Hashes : Placed(h)' /\ Shown(h)
  BY <1>1, <1>3 DEF PayOK, Placed, Shown
<1>7. \A h : Awaited(h)
  BY <1>1 DEF Awaited
<1> QED
  BY <1>2, <1>4, <1>5, <1>6, <1>7 DEF PaymentsFit

\* Whoever is announced is untouched, and whoever is signed for is not pending.
LEMMA NotAnnounced ==
    ASSUME Assured, Inductive, NEW r \in Rows, ~Untouched(r),
           NEW b \in Admins, Announcing(session[b])
    PROVE  session[b].row # r
BY DEF Inductive, Core, SessionInv, RequestOK

LEMMA NotPending ==
    ASSUME Inductive, NEW r \in Rows, req[r].hash # NoHash, NEW v \in Workers, Pending(job[v])
    PROVE  job[v].row # r
BY DEF Inductive, Core, JobInv, JobOK

LEMMA Owned ==
    ASSUME Inductive, NEW w \in Workers, job[w].at # "idle"
    PROVE  job[w].row \in Rows /\ ~Untouched(job[w].row)
BY JobRow DEF Inductive, Untouched, NobodyOwns

LEMMA JobOnly ==
    ASSUME Inductive, TypeOK', Named', NEW w \in Workers,
           UNCHANGED <<req, money, queue, session, ledgerVars>>,
           \A v \in Workers \ {w} : job'[v] = job[v],
           JobOK(job[w])', job'[w].row \in {NoRow, job[w].row},
           Working(job[w])' => Working(job[w]) /\ job'[w].row = job[w].row
    PROVE  Core'
<1>1. Within({w}, {}, {})
  BY DEF Within, money
<1>2. RowsFit({}) /\ RequestsFit({}, {})
  BY DEF RowsFit, RequestsFit
<1>3. JobsFit({w}, {})
  <2>1. ASSUME NEW v \in Workers, Working(job[w])', Working(job[v])', job'[w].row = job'[v].row
        PROVE  w = v
    BY <2>1 DEF Inductive, Core, OwnerInv, Working
  <2> QED
    BY <2>1 DEF JobsFit
<1>4. PaymentsFit({w}, {})
  BY StillPayments
<1> QED
  BY <1>1, <1>2, <1>3, <1>4, FitsKeeps DEF Fits

LEMMA SessionOnly ==
    ASSUME Inductive, TypeOK', Named', NEW a \in Admins,
           UNCHANGED <<req, money, queue, job, ledgerVars>>,
           \A b \in Admins \ {a} : session'[b] = session[b],
           RequestOK(session[a])',
           Announcing(session[a])' => Announcing(session[a]) /\ session'[a].row = session[a].row
    PROVE  Core'
<1>1. Within({}, {a}, {})
  BY DEF Within, money
<1>2. RowsFit({}) /\ JobsFit({}, {})
  BY DEF RowsFit, JobsFit
<1>3. RequestsFit({a}, {})
  <2>1. ASSUME NEW b \in Admins, Announcing(session[a])', Announcing(session[b])',
               session'[a].row = session'[b].row
        PROVE  a = b
    BY <2>1 DEF Inductive, Core, SessionInv, Announcing
  <2> QED
    BY <2>1 DEF RequestsFit
<1>4. PaymentsFit({}, {a})
  BY StillPayments
<1> QED
  BY <1>1, <1>2, <1>3, <1>4, FitsKeeps DEF Fits

\* One row, and at most the worker, or the request, that handles it.
LEMMA RowStep ==
    ASSUME Inductive, TypeOK', Named', NEW r \in Rows,
           NEW ws \in SUBSET Workers, NEW ads \in SUBSET Admins,
           UNCHANGED ledgerVars,
           \A u \in Rows \ {r} : /\ req'[u] = req[u] /\ queue'[u] = queue[u]
                                 /\ taken'[u] = taken[u] /\ returned'[u] = returned[u]
                                 /\ payouts'[u] = payouts[u],
           \A w \in Workers \ ws : job'[w] = job[w],
           \A a \in Admins \ ads : session'[a] = session[a],
           JobsFit(ws, {r}), RowsFit({r}), RequestsFit(ads, {r})
    PROVE  Core'
<1>1. Within(ws, ads, {r})
  BY DEF Within
<1>2. PaymentsFit(ws, ads)
  BY StillPayments
<1> QED
  BY <1>1, <1>2, FitsKeeps DEF Fits

\* A worker, or a request, that is done.
LEMMA IdleFits ==
    ASSUME Inductive, TypeOK', NEW w \in Workers, JobEnd(w), NEW r \in Rows,
           \A v \in Workers \ {w} : Pending(job[v]) => job[v].row # r \/ req'[r] = req[r]
    PROVE  JobsFit({w}, {r})
<1>1. /\ job'[w].at = "idle" /\ job'[w].row = NoRow /\ job'[w].hash = NoHash
  BY JobEndEffect DEF Inductive
<1> QED
  BY <1>1 DEF JobsFit, ClaimKept, JobOK, Working, Pending, Pursuing

LEMMA EndFits ==
    ASSUME Inductive, TypeOK', NEW a \in Admins, End(a), NEW r \in Rows,
           \A b \in Admins \ {a} : Assured /\ Announcing(session[b]) => session[b].row # r
    PROVE  RequestsFit({a}, {r})
<1>1. session'[a].at = "idle"
  BY EndEffect DEF Inductive
<1> QED
  BY <1>1 DEF RequestsFit, RequestOK, Announcing, Deciding

\* A row that is restored or completed, or was decided before.
LEMMA FailFits ==
    ASSUME Inductive, TypeOK', NEW r \in Rows, NEW h, h = req[r].hash, FailAndRestore(r, h),
           Assured /\ h # NoHash => Dead(h), queue' = queue, UNCHANGED ledgerVars,
           ~Early(req[r].status)
    PROVE  /\ RowsFit({r})
           /\ \A u \in Rows \ {r} : /\ req'[u] = req[u] /\ queue'[u] = queue[u]
                                    /\ taken'[u] = taken[u] /\ returned'[u] = returned[u]
                                    /\ payouts'[u] = payouts[u]
<1>1. h \in Hashes \cup {NoHash} /\ RowOK(r) /\ TypeOK /\ req[r] \in TableRow
  BY DEF Inductive, TypeOK, TableRow, Core, RowInv
<1>2. /\ req' \in [Rows -> TableRow] /\ taken' = taken /\ payouts' = payouts
      /\ \A u \in Rows \ {r} : req'[u] = req[u] /\ returned'[u] = returned[u]
      /\ \/ req[r].status # "approved" /\ req' = req /\ returned' = returned
         \/ /\ req[r].status = "approved" /\ req'[r].status = "failed"
            /\ req'[r].hash = h /\ req'[r].first = req[r].first
            /\ req'[r].last = req[r].last /\ req'[r].claim = req[r].claim
            /\ returned'[r] = returned[r] + 1
  BY <1>1, FailAndRestoreEffect
<1>3. pay' = pay /\ validated' = validated
  BY DEF ledgerVars
<1>4. RowOK(r)'
  <2>1. CASE req[r].status # "approved"
    BY <1>1, <1>2, <1>3, <2>1 DEF RowOK, RangeOf, Dead, Landed
  <2>2. CASE req[r].status = "approved"
    <3>1. MoneyOK(req[r].status, taken[r], returned[r], payouts[r])'
      BY <1>1, <1>2, <2>2 DEF RowOK, MoneyOK
    <3> QED
      BY <1>1, <1>2, <1>3, <2>2, <3>1 DEF RowOK, RangeOf, Dead, Landed
  <2> QED
    BY <2>1, <2>2
<1>5. ~Early(req'[r].status)
  BY <1>2 DEF Early
<1> QED
  BY <1>2, <1>4, <1>5 DEF RowsFit

LEMMA CompleteFits ==
    ASSUME Inductive, TypeOK', NEW r \in Rows, NEW h, h = req[r].hash, CompleteBurn(r, h),
           h # NoHash, Landed(h), queue' = queue, UNCHANGED ledgerVars
    PROVE  /\ RowsFit({r})
           /\ \A u \in Rows \ {r} : /\ req'[u] = req[u] /\ queue'[u] = queue[u]
                                    /\ taken'[u] = taken[u] /\ returned'[u] = returned[u]
                                    /\ payouts'[u] = payouts[u]
<1>1. h \in Hashes \cup {NoHash} /\ RowOK(r) /\ TypeOK /\ req[r] \in TableRow
  BY DEF Inductive, TypeOK, TableRow, Core, RowInv
<1>2. /\ req' \in [Rows -> TableRow] /\ taken' = taken /\ returned' = returned
      /\ \A u \in Rows \ {r} : req'[u] = req[u] /\ payouts'[u] = payouts[u]
      /\ \/ req[r].status # "approved" /\ req' = req /\ payouts' = payouts
         \/ /\ req[r].status = "approved" /\ req'[r].status = "completed"
            /\ req'[r].hash = h /\ req'[r].first = req[r].first
            /\ req'[r].last = req[r].last /\ req'[r].claim = req[r].claim
            /\ payouts'[r] = payouts[r] + 1
  BY <1>1, CompleteBurnEffect
<1>3. pay' = pay /\ validated' = validated
  BY DEF ledgerVars
<1>4. RowOK(r)'
  <2>1. CASE req[r].status # "approved"
    BY <1>1, <1>2, <1>3, <2>1 DEF RowOK, RangeOf, Dead, Landed
  <2>2. CASE req[r].status = "approved"
    <3>1. MoneyOK(req[r].status, taken[r], returned[r], payouts[r])'
      BY <1>1, <1>2, <2>2 DEF RowOK, MoneyOK
    <3> QED
      BY <1>1, <1>2, <1>3, <2>2, <3>1 DEF RowOK, RangeOf, Dead, Landed
  <2> QED
    BY <2>1, <2>2
<1>5. ~Early(req'[r].status)
  BY <1>1, <1>2 DEF Early, RowOK
<1> QED
  BY <1>2, <1>4, <1>5 DEF RowsFit

-----------------------------------------------------------------------------
(* The worker's steps that write nothing but its own job.                  *)

LEMMA Facts ==
    ASSUME Inductive
    PROVE  /\ TypeOK /\ Named
           /\ \A w \in Workers : job[w] \in Job /\ JobOK(job[w])
           /\ \A a \in Admins : session[a] \in Request /\ RequestOK(session[a])
           /\ \A r \in Rows : req[r] \in TableRow /\ RowOK(r)
           /\ \A h \in Hashes : pay[h] \in Payment /\ PayOK(h)
           /\ validated \in Nat
BY DEF Inductive, TypeOK, LedgerTypeOK, Core, JobInv, SessionInv, RowInv, PayInv

LEMMA ReadLedgerStep ==
    ASSUME Inductive, TypeOK', Named', NEW w \in Workers, ReadLedger(w)
    PROVE  Core'
<1>1. /\ \A v \in Workers \ {w} : job'[v] = job[v]
      /\ job'[w].at = "sign" /\ job'[w].row = job[w].row
      /\ job'[w].hash = job[w].hash /\ job'[w].first = validated
  BY Facts, ReadLedgerEffect
<1>2. /\ job[w].at = "begin" /\ UNCHANGED <<req, money, queue, session, ledgerVars>>
      /\ validated' = validated /\ validated \in Nat
  BY Facts DEF ReadLedger, ledgerVars
<1>3. JobOK(job[w])'
  BY <1>1, <1>2, Facts DEF JobOK, Pending, Pursuing
<1> QED
  BY <1>1, <1>2, <1>3, JobOnly DEF Working

\* A worker that learns the outcome of its transaction, or stops knowing it.
LEMMA AwaitStep ==
    ASSUME Inductive, TypeOK', Named', NEW w \in Workers, Observe(w) \/ LoseSight(w)
    PROVE  Core'
<1>1. PICK s \in {"succeeded", "failed", "unknown"} :
         /\ JobTo(w, s) /\ job[w].at \in {"submit", "wait"}
         /\ s = "succeeded" => pay[job[w].hash].state = "tes"
         /\ s = "failed" => pay[job[w].hash].state = "tec"
         /\ UNCHANGED <<req, money, queue, session, ledgerVars>>
  BY DEF Observe, LoseSight
<1>2. /\ \A v \in Workers \ {w} : job'[v] = job[v]
      /\ job'[w].at = s /\ job'[w].row = job[w].row /\ job'[w].hash = job[w].hash
  BY <1>1, Facts, JobToEffect DEF JobStep
<1>3. JobOK(job[w])'
  BY <1>1, <1>2, Facts DEF JobOK, Pending, Pursuing, ledgerVars
<1> QED
  BY <1>1, <1>2, <1>3, JobOnly DEF Working

LEMMA FailTransientlyStep ==
    ASSUME Inductive, TypeOK', Named', NEW w \in Workers, FailTransiently(w)
    PROVE  Core'
<1>1. /\ JobTo(w, "retry") /\ job[w].at \in {"begin", "sign"}
      /\ UNCHANGED <<req, money, queue, session, ledgerVars>>
  BY DEF FailTransiently
<1>2. /\ \A v \in Workers \ {w} : job'[v] = job[v]
      /\ job'[w].at = "retry" /\ job'[w].row = job[w].row /\ job'[w].hash = job[w].hash
  BY <1>1, Facts, JobToEffect DEF JobStep
<1>3. JobOK(job[w])'
  BY <1>1, <1>2, Facts DEF JobOK, Pending, Pursuing, ledgerVars
<1> QED
  BY <1>1, <1>2, <1>3, JobOnly DEF Working

\* A worker that stops, by intent or not, and writes nothing.
LEMMA StopStep ==
    ASSUME Inductive, TypeOK', Named', NEW w \in Workers, HoldUnknown(w) \/ Crash(w)
    PROVE  Core'
<1>1. JobEnd(w) /\ UNCHANGED <<req, money, queue, session, ledgerVars>>
  BY DEF HoldUnknown, Crash
<1>2. /\ \A v \in Workers \ {w} : job'[v] = job[v]
      /\ job'[w].at = "idle" /\ job'[w].row = NoRow /\ job'[w].hash = NoHash
  BY <1>1, Facts, JobEndEffect
<1>3. JobOK(job[w])'
  BY <1>2 DEF JobOK, Pending, Pursuing
<1> QED
  BY <1>1, <1>2, <1>3, JobOnly DEF Working

-----------------------------------------------------------------------------
(* The requests' steps that write nothing but the request's own state.     *)

LEMMA AbortStep ==
    ASSUME Inductive, TypeOK', Named', NEW a \in Admins, End(a),
           UNCHANGED <<req, money, queue, job, ledgerVars>>
    PROVE  Core'
<1>1. /\ \A b \in Admins \ {a} : session'[b] = session[b]
      /\ session'[a].at = "idle"
  BY Facts, EndEffect
<1>2. RequestOK(session[a])'
  BY <1>1 DEF RequestOK, Announcing, Deciding
<1> QED
  BY <1>1, <1>2, SessionOnly DEF Announcing

LEMMA StartReconcileStep ==
    ASSUME Inductive, TypeOK', Named', NEW a \in Admins, NEW r \in Rows, StartReconcile(a, r)
    PROVE  Core'
<1>1. /\ \A b \in Admins \ {a} : session'[b] = session[b]
      /\ session'[a].at = "lookup" /\ session'[a].row = r
      /\ session'[a].hash = req[r].hash
      /\ session'[a].first = req[r].first /\ session'[a].last = req[r].last
  BY Facts, StartReconcileEffect
<1>2. /\ req[r].hash # NoHash /\ req' = req
      /\ UNCHANGED <<req, money, queue, job, ledgerVars>>
  BY DEF StartReconcile
<1>3. RequestOK(session[a])'
  BY <1>1, <1>2 DEF RequestOK, Announcing, Deciding
<1> QED
  BY <1>1, <1>2, <1>3, SessionOnly DEF Announcing

\* A reconciliation that goes on to its next question, or to its decision.
LEMMA GoOn ==
    ASSUME Inductive, TypeOK', Named', NEW a \in Admins,
           NEW s \in {"latest", "range", "complete", "restore"}, Goto(a, s),
           session[a].at \in {"lookup", "latest", "range"},
           UNCHANGED <<req, money, queue, job, ledgerVars>>,
           Assured /\ s \in {"latest", "range"} => ~Sees(session[a].hash),
           s = "range" => session[a].last < validated,
           s = "complete" => Landed(session[a].hash),
           Assured /\ s = "restore" => Dead(session[a].hash)
    PROVE  Core'
<1>1. /\ \A b \in Admins \ {a} : session'[b] = session[b]
      /\ session'[a].at = s /\ session'[a].row = session[a].row
      /\ session'[a].hash = session[a].hash
      /\ session'[a].first = session[a].first /\ session'[a].last = session[a].last
  BY Facts, GotoEffect DEF RequestStep
<1>2. /\ session[a].hash # NoHash /\ req[session[a].row].hash = session[a].hash
      /\ req[session[a].row].first = session[a].first
      /\ req[session[a].row].last = session[a].last
  BY Facts DEF RequestOK, Deciding
<1>3. pay' = pay /\ validated' = validated /\ history' = history /\ req' = req
  BY DEF ledgerVars
<1>4. RequestOK(session[a])'
  BY <1>1, <1>2, <1>3 DEF RequestOK, Announcing, Deciding, Sees, Landed, Dead, Assured
<1> QED
  BY <1>1, <1>4, SessionOnly DEF Announcing

LEMMA LookUpStep ==
    ASSUME Inductive, TypeOK', Named', NEW a \in Admins, LookUp(a)
    PROVE  Core'
<1>1. session[a].at = "lookup" /\ UNCHANGED <<req, money, queue, job, ledgerVars>>
  BY DEF LookUp
<1>2. CASE SeesTes(session[a].hash) /\ Goto(a, "complete")
  BY <1>1, <1>2, GoOn DEF SeesTes, Sees, Landed
<1>3. CASE SeesTec(session[a].hash) /\ Goto(a, "restore")
  BY <1>1, <1>3, GoOn DEF SeesTec, Sees, Dead
<1>4. CASE ~Sees(session[a].hash) /\ Goto(a, "latest")
  BY <1>1, <1>4, GoOn
<1> QED
  BY <1>2, <1>3, <1>4 DEF LookUp

LEMMA CheckLatestStep ==
    ASSUME Inductive, TypeOK', Named', NEW a \in Admins, CheckLatest(a)
    PROVE  Core'
<1>1. session[a].at = "latest" /\ UNCHANGED <<req, money, queue, job, ledgerVars>>
  BY DEF CheckLatest
<1>2. CASE validated <= session[a].last
  BY <1>1, <1>2, AbortStep DEF CheckLatest
<1>3. CASE ~(validated <= session[a].last)
  <2>1. session[a].last < validated
    BY <1>3, Facts DEF Request
  <2>2. Assured => ~Sees(session[a].hash)
    BY <1>1, Facts DEF RequestOK
  <2> QED
    BY <1>1, <1>3, <2>1, <2>2, GoOn DEF CheckLatest
<1> QED
  BY <1>2, <1>3

\* A burn the server never saw, in a range it holds and that is over, is dead.
LEMMA ProvablyDead ==
    ASSUME Assured, Inductive, NEW a \in Admins, session[a].at = "range",
           Unbroken(session[a].first, session[a].last)
    PROVE  Dead(session[a].hash)
<1> DEFINE h == session[a].hash
<1>1. /\ h # NoHash /\ req[session[a].row].hash = h
      /\ req[session[a].row].first = session[a].first /\ req[session[a].row].last = session[a].last
      /\ ~Sees(h) /\ session[a].last < validated /\ session[a] \in Request
  BY Facts DEF RequestOK, Deciding
<1>2. session[a].row \in Rows /\ h \in Hashes
  BY <1>1, Facts, SessionRow DEF Request
<1>3. /\ RangeOf(h, session[a].row, session[a].first, session[a].last)
      /\ PayOK(h) /\ pay[h] \in Payment /\ validated \in Nat
      /\ session[a].first \in Nat /\ session[a].last \in Nat
  BY <1>1, <1>2, Facts DEF RowOK, Request
<1>4. /\ pay[h].state \in PayState /\ pay[h].state # "unsigned" /\ pay[h].last = session[a].last
      /\ pay[h].ledger \in Nat /\ pay[h].ledger <= pay[h].last
      /\ pay[h].ledger > 0 => session[a].first <= pay[h].ledger
      /\ pay[h].state \in {"tes", "tec"} => pay[h].ledger > 0
  BY <1>3 DEF RangeOf, PayOK, Payment
<1>5. pay[h].state \notin {"tes", "tec"}
  <2>1. SUFFICES ASSUME pay[h].state \in {"tes", "tec"} PROVE FALSE
    OBVIOUS
  <2>2. pay[h].ledger \in session[a].first..session[a].last
    BY <1>3, <1>4, <2>1
  <2> QED
    BY <1>1, <2>1, <2>2 DEF Unbroken, Sees
<1>6. pay[h].last <= validated
  BY <1>1, <1>3, <1>4
<1> QED
  BY <1>4, <1>5, <1>6 DEF Dead, PayState

LEMMA CheckRangeStep ==
    ASSUME Inductive, TypeOK', Named', NEW a \in Admins, CheckRange(a)
    PROVE  Core'
<1>1. session[a].at = "range" /\ UNCHANGED <<req, money, queue, job, ledgerVars>>
  BY DEF CheckRange
<1>2. CASE Unbroken(session[a].first, session[a].last)
  BY <1>1, <1>2, ProvablyDead, GoOn DEF CheckRange
<1>3. CASE ~Unbroken(session[a].first, session[a].last)
  BY <1>1, <1>3, AbortStep DEF CheckRange
<1> QED
  BY <1>2, <1>3

-----------------------------------------------------------------------------
(* The steps of a row that no worker and no request takes.                 *)

\* The queue of an approved, or queued, row that nobody is announcing.
LEMMA QueueStep ==
    ASSUME Inductive, TypeOK', Named', NEW r \in Rows,
           UNCHANGED <<req, money, job, session, ledgerVars>>,
           \A u \in Rows \ {r} : queue'[u] = queue[u],
           ~Early(req[r].status),
           \A a \in Admins : Assured /\ Announcing(session[a]) => session[a].row # r
    PROVE  Core'
<1>1. /\ req' = req /\ job' = job /\ session' = session
      /\ taken' = taken /\ returned' = returned /\ payouts' = payouts
      /\ pay' = pay /\ validated' = validated
  BY DEF money, ledgerVars
<1>2. RowOK(r)'
  BY <1>1, Facts DEF RowOK, RangeOf, Dead, Landed
<1>3. RowsFit({r}) /\ JobsFit({}, {r}) /\ RequestsFit({}, {r})
  BY <1>1, <1>2 DEF RowsFit, JobsFit, ClaimKept, RequestsFit
<1> QED
  BY <1>1, <1>3, RowStep

LEMMA Queued ==
    ASSUME Inductive, NEW r \in Rows, queue[r] > 0
    PROVE  /\ ~Early(req[r].status)
           /\ \A a \in Admins : Assured /\ Announcing(session[a]) => session[a].row # r
<1>1. ~Untouched(r)
  BY Facts DEF Untouched, TypeOK
<1> QED
  BY <1>1, NotAnnounced DEF Inductive, Core, EarlyInv

LEMMA SweepStep ==
    ASSUME Inductive, TypeOK', Named', NEW r \in Rows, Sweep(r)
    PROVE  Core'
<1>1. /\ req[r].status = "approved" /\ queue' = Enqueued(r)
      /\ Assured => ~Publishing(r)
      /\ UNCHANGED <<req, money, job, session, ledgerVars>>
  BY DEF Sweep, Assured
<1>2. \A u \in Rows \ {r} : queue'[u] = queue[u]
  BY <1>1, Facts, EnqueuedEffect
<1> QED
  BY <1>1, <1>2, QueueStep DEF Publishing, Announcing, Early

LEMMA DropStep ==
    ASSUME Inductive, TypeOK', Named', NEW r \in Rows, queue[r] > 0,
           queue' = [queue EXCEPT ![r] = @ - 1],
           UNCHANGED <<req, money, job, session, ledgerVars>>
    PROVE  Core'
<1>1. \A u \in Rows \ {r} : queue'[u] = queue[u]
  BY Facts, DequeuedEffect
<1> QED
  BY <1>1, Queued, QueueStep

\* A request is made, and it is rejected.
LEMMA RequestedStep ==
    ASSUME Inductive, TypeOK', Named', NEW r \in Rows, CreateRequest(r) \/ Reject(r)
    PROVE  Core'
<1>1. PICK s \in {"requested", "failed"} : SetStatus(r, s)
  BY DEF CreateRequest, Reject
<1>2. /\ Early(req[r].status)
      /\ UNCHANGED <<money, queue, job, session, ledgerVars>>
  BY DEF CreateRequest, Reject, Early
<1>3. /\ \A u \in Rows \ {r} : req'[u] = req[u]
      /\ req'[r].status = s /\ req'[r].hash = req[r].hash /\ req'[r].claim = req[r].claim
      /\ req'[r].first = req[r].first /\ req'[r].last = req[r].last
  BY <1>1, Facts, SetStatusEffect DEF Statuses
<1>4. /\ job' = job /\ session' = session /\ queue' = queue
      /\ taken' = taken /\ returned' = returned /\ payouts' = payouts
  BY <1>2 DEF money
<1>5. Untouched(r)
  BY <1>2 DEF Inductive, Core, EarlyInv
<1>6. Untouched(r)'
  BY <1>3, <1>4, <1>5 DEF Untouched, NobodyOwns
<1>7. RowOK(r)'
  <2>1. MoneyOK(req[r].status, taken[r], returned[r], payouts[r])'
    BY <1>2, <1>3, <1>4, Facts DEF RowOK, MoneyOK, Early
  <2>2. req'[r].hash = NoHash
    BY <1>3, <1>5 DEF Untouched
  <2> QED
    BY <1>3, <2>1, <2>2 DEF RowOK
<1>8. RowsFit({r})
  BY <1>2, <1>3, <1>6, <1>7 DEF RowsFit
<1>9. JobsFit({}, {r})
  BY <1>5 DEF JobsFit, Untouched, NobodyOwns
<1>10. RequestsFit({}, {r})
  <2>1. \A a \in Admins : Announcing(session[a]) => ~Early(req[session[a].row].status)
    BY Facts DEF RequestOK
  <2> QED
    BY <1>2, <2>1 DEF RequestsFit
<1> QED
  BY <1>2, <1>3, <1>4, <1>8, <1>9, <1>10, RowStep

\* A row whose claim alone changes, by whoever may.
LEMMA ClaimFits ==
    ASSUME Inductive, TypeOK', NEW r \in Rows, ~Early(req[r].status), UNCHANGED <<money, ledgerVars>>,
           req'[r].status = req[r].status, req'[r].hash = req[r].hash,
           req'[r].first = req[r].first, req'[r].last = req[r].last
    PROVE  RowsFit({r})
<1>1. /\ taken' = taken /\ returned' = returned /\ payouts' = payouts
      /\ pay' = pay /\ validated' = validated
  BY DEF money, ledgerVars
<1>2. RowOK(r)'
  BY <1>1, Facts DEF RowOK, RangeOf, Dead, Landed
<1> QED
  BY <1>2 DEF RowsFit

LEMMA GrowStaleStep ==
    ASSUME Inductive, TypeOK', Named', NEW r \in Rows, GrowStale(r)
    PROVE  Core'
<1>1. /\ req[r].claim = "live" /\ NobodyOwns(r)
      /\ req' = [req EXCEPT ![r] = [@ EXCEPT !.claim = "stale"]]
      /\ UNCHANGED <<money, queue, job, session, ledgerVars>>
  BY DEF GrowStale
<1>2. /\ \A u \in Rows \ {r} : req'[u] = req[u]
      /\ req'[r].hash = req[r].hash /\ req'[r].status = req[r].status
      /\ req'[r].first = req[r].first /\ req'[r].last = req[r].last
  BY <1>1, Facts, SetClaimEffect
<1>3. ~Untouched(r) /\ ~Early(req[r].status)
  BY <1>1 DEF Untouched, Inductive, Core, EarlyInv
<1>4. RowsFit({r})
  BY <1>1, <1>2, <1>3, ClaimFits
<1>5. JobsFit({}, {r}) /\ RequestsFit({}, {r})
  BY <1>1, <1>3, NotAnnounced DEF JobsFit, RequestsFit, NobodyOwns
<1> QED
  BY <1>1, <1>2, <1>4, <1>5, RowStep DEF money

-----------------------------------------------------------------------------
(* The worker's steps that write its row or the queue.                     *)

LEMMA ClaimStep ==
    ASSUME Inductive, TypeOK', Named', NEW w \in Workers, NEW r \in Rows, Claim(w, r)
    PROVE  Core'
<1>1. /\ job[w].at = "idle" /\ queue[r] > 0
      /\ req[r].status = "approved" /\ req[r].hash = NoHash /\ req[r].claim # "live"
      /\ queue' = [queue EXCEPT ![r] = @ - 1]
      /\ UNCHANGED <<money, session, ledgerVars>>
  BY DEF Claim, Claimable
<1>2. /\ \A v \in Workers \ {w} : job'[v] = job[v]
      /\ job'[w].at = "begin" /\ job'[w].row = r /\ job'[w].hash = NoHash
      /\ \A u \in Rows \ {r} : req'[u] = req[u]
      /\ req'[r].status = req[r].status /\ req'[r].hash = req[r].hash
      /\ req'[r].first = req[r].first /\ req'[r].last = req[r].last
      /\ req'[r].claim = "live"
  BY Facts, ClaimEffect
<1>3. \A u \in Rows \ {r} : queue'[u] = queue[u]
  BY <1>1, Facts, DequeuedEffect
<1>4. /\ ~Early(req[r].status)
      /\ \A a \in Admins : Assured /\ Announcing(session[a]) => session[a].row # r
  BY <1>1, Queued
<1>5. RowsFit({r})
  BY <1>1, <1>2, <1>4, ClaimFits
<1>6. RequestsFit({}, {r})
  BY <1>4 DEF RequestsFit
<1>7. \A v \in Workers : Working(job[v]) => job[v].row # r
  <2>1. SUFFICES ASSUME NEW v \in Workers, Working(job[v]), job[v].row = r PROVE FALSE
    OBVIOUS
  <2>2. job[v] \in Job /\ JobOK(job[v])
    BY Facts
  <2>3. Pending(job[v]) \/ Pursuing(job[v])
    BY <2>1, <2>2 DEF Job, JobStep, Working, Pending, Pursuing
  <2> QED
    BY <1>1, <2>1, <2>2, <2>3 DEF JobOK
<1>8. JobsFit({w}, {r})
  <2>1. JobOK(job[w])'
    BY <1>1, <1>2 DEF JobOK, Pending, Pursuing, Early
  <2>2. \A v \in Workers : Working(job[v])' /\ job'[w].row = job'[v].row => w = v
    BY <1>2, <1>7 DEF Working
  <2>3. \A v \in Workers \ {w} : Pending(job[v]) => job[v].row # r
    BY <1>7 DEF Working, Pending
  <2> QED
    BY <1>2, <2>1, <2>2, <2>3 DEF JobsFit
<1> QED
  BY <1>1, <1>2, <1>3, <1>5, <1>6, <1>8, RowStep DEF money

\* A worker that has a row signed for, with its payment, is done with it.
LEMMA Pursued ==
    ASSUME Inductive, NEW w \in Workers, Pursuing(job[w])
    PROVE  /\ job[w].row \in Rows /\ job[w].hash # NoHash /\ req[job[w].row].hash = job[w].hash
           /\ ~Early(req[job[w].row].status) /\ ~Untouched(job[w].row)
           /\ \A v \in Workers : Pending(job[v]) => job[v].row # job[w].row
<1>1. job[w].row \in Rows /\ ~Untouched(job[w].row)
  BY Owned DEF Pursuing
<1>2. job[w].hash # NoHash /\ req[job[w].row].hash = job[w].hash
  BY Facts DEF JobOK
<1> QED
  BY <1>1, <1>2, NotPending DEF Inductive, Core, EarlyInv

LEMMA DecideStep ==
    ASSUME Inductive, TypeOK', Named', NEW w \in Workers, Complete(w) \/ Restore(w)
    PROVE  Core'
<1> DEFINE r == job[w].row
<1>1. /\ Pursuing(job[w]) /\ JobEnd(w) /\ UNCHANGED <<queue, session, ledgerVars>>
  BY DEF Complete, Restore, Pursuing
<1>2. /\ r \in Rows /\ job[w].hash # NoHash /\ req[r].hash = job[w].hash
      /\ ~Early(req[r].status) /\ ~Untouched(r)
      /\ \A v \in Workers : Pending(job[v]) => job[v].row # r
  BY <1>1, Pursued
<1>3. \A v \in Workers \ {w} : job'[v] = job[v]
  BY <1>1, Facts, JobEndEffect
<1>4. JobsFit({w}, {r})
  BY <1>1, <1>2, IdleFits
<1>5. RequestsFit({}, {r})
  BY <1>2, NotAnnounced DEF RequestsFit
<1>6. /\ RowsFit({r})
      /\ \A u \in Rows \ {r} : /\ req'[u] = req[u] /\ queue'[u] = queue[u]
                               /\ taken'[u] = taken[u] /\ returned'[u] = returned[u]
                               /\ payouts'[u] = payouts[u]
  <2>1. CASE Complete(w)
    <3>1. CompleteBurn(r, job[w].hash) /\ Landed(job[w].hash)
      BY <2>1, Facts DEF Complete, JobOK, Landed
    <3> HIDE DEF r
    <3> QED
      BY <1>1, <1>2, <3>1, CompleteFits
  <2>2. CASE Restore(w)
    <3>1. FailAndRestore(r, job[w].hash) /\ Dead(job[w].hash)
      BY <2>2, Facts DEF Restore, JobOK, Dead
    <3> HIDE DEF r
    <3> QED
      BY <1>1, <1>2, <3>1, FailFits
  <2> QED
    BY <2>1, <2>2
<1> HIDE DEF r
<1> QED
  BY <1>1, <1>2, <1>3, <1>4, <1>5, <1>6, RowStep

\* A worker with a claim and no signature has the row to itself.
LEMMA Held ==
    ASSUME Inductive, NEW w \in Workers, Pending(job[w])
    PROVE  /\ job[w].row \in Rows /\ req[job[w].row].hash = NoHash
           /\ ~Early(req[job[w].row].status) /\ ~Untouched(job[w].row)
           /\ Assured => req[job[w].row].status = "approved"
           /\ \A v \in Workers \ {w} : Working(job[v]) => job[v].row # job[w].row
<1>1. job[w].row \in Rows /\ ~Untouched(job[w].row)
  BY Owned DEF Pending
<1>2. /\ req[job[w].row].hash = NoHash /\ ~Early(req[job[w].row].status)
      /\ Assured => req[job[w].row].status = "approved"
  BY Facts DEF JobOK
<1> QED
  BY <1>1, <1>2 DEF Inductive, Core, OwnerInv, Pending, Working

LEMMA GiveUpStep ==
    ASSUME Inductive, TypeOK', Named', NEW w \in Workers, GiveUp(w)
    PROVE  Core'
<1> DEFINE r == job[w].row
<1>1. /\ Pending(job[w]) /\ JobEnd(w) /\ UNCHANGED <<queue, session, ledgerVars>>
      /\ FailAndRestore(r, req[r].hash)
  BY DEF GiveUp, Pending
<1>2. /\ r \in Rows /\ req[r].hash = NoHash /\ ~Early(req[r].status) /\ ~Untouched(r)
      /\ Assured => req[r].status = "approved"
      /\ \A v \in Workers \ {w} : Working(job[v]) => job[v].row # r
  BY <1>1, Held
<1>3. \A v \in Workers \ {w} : job'[v] = job[v]
  BY <1>1, Facts, JobEndEffect
<1> HIDE DEF r
<1>4. JobsFit({w}, {r})
  <2>1. \A v \in Workers \ {w} : Pending(job[v]) => job[v].row # r
    BY <1>2 DEF Pending, Working
  <2> QED
    BY <1>1, <1>2, <2>1, IdleFits
<1>5. RequestsFit({}, {r})
  BY <1>2, NotAnnounced DEF RequestsFit
<1>6. /\ RowsFit({r})
      /\ \A u \in Rows \ {r} : /\ req'[u] = req[u] /\ queue'[u] = queue[u]
                               /\ taken'[u] = taken[u] /\ returned'[u] = returned[u]
                               /\ payouts'[u] = payouts[u]
  BY <1>1, <1>2, FailFits DEF Early
<1> QED
  BY <1>1, <1>2, <1>3, <1>4, <1>5, <1>6, RowStep

LEMMA ReleaseClaimStep ==
    ASSUME Inductive, TypeOK', Named', NEW w \in Workers, ReleaseClaim(w)
    PROVE  Core'
<1> DEFINE r == job[w].row
<1>1. /\ Pending(job[w]) /\ JobTo(w, "requeue") /\ UNCHANGED <<money, queue, session, ledgerVars>>
      /\ req' = [req EXCEPT ![r] = [@ EXCEPT !.claim = "none"]]
  BY DEF ReleaseClaim, Pending
<1>2. /\ r \in Rows /\ req[r].hash = NoHash /\ ~Early(req[r].status) /\ ~Untouched(r)
      /\ Assured => req[r].status = "approved"
      /\ \A v \in Workers \ {w} : Working(job[v]) => job[v].row # r
  BY <1>1, Held
<1>3. /\ \A v \in Workers \ {w} : job'[v] = job[v]
      /\ job'[w].at = "requeue" /\ job'[w].row = r /\ job'[w].hash = job[w].hash
  BY <1>1, Facts, JobToEffect DEF JobStep
<1>4. job[w].hash = NoHash
  BY <1>1, Facts DEF JobOK, Pending, Pursuing
<1> HIDE DEF r
<1>5. /\ \A u \in Rows \ {r} : req'[u] = req[u]
      /\ req'[r].hash = req[r].hash /\ req'[r].status = req[r].status
      /\ req'[r].first = req[r].first /\ req'[r].last = req[r].last
  BY <1>1, <1>2, Facts, SetClaimEffect
<1>6. JobsFit({w}, {r})
  BY <1>2, <1>3, <1>4 DEF JobsFit, JobOK, Working, Pending, Pursuing
<1>7. RequestsFit({}, {r})
  BY <1>2, NotAnnounced DEF RequestsFit
<1>8. RowsFit({r})
  BY <1>1, <1>2, <1>5, ClaimFits DEF Early
<1> QED
  BY <1>1, <1>2, <1>3, <1>5, <1>6, <1>7, <1>8, RowStep DEF money

LEMMA RequeueStep ==
    ASSUME Inductive, TypeOK', Named', NEW w \in Workers, Requeue(w)
    PROVE  Core'
<1> DEFINE r == job[w].row
<1>1. /\ job[w].at = "requeue" /\ JobEnd(w) /\ UNCHANGED <<req, money, session, ledgerVars>>
      /\ queue' = Enqueued(r)
  BY DEF Requeue
<1>2. r \in Rows /\ ~Untouched(r)
  BY <1>1, Owned
<1>3. /\ \A v \in Workers \ {w} : job'[v] = job[v]
      /\ \A u \in Rows \ {r} : queue'[u] = queue[u]
  BY <1>1, Facts, JobEndEffect, EnqueuedEffect
<1>4. ~Early(req[r].status)
  BY <1>2 DEF Inductive, Core, EarlyInv
<1> HIDE DEF r
<1>5. JobsFit({w}, {r})
  BY <1>1, <1>2, IdleFits
<1>6. RequestsFit({}, {r})
  BY <1>2, NotAnnounced DEF RequestsFit
<1>7. RowsFit({r})
  BY <1>1, <1>2, <1>4, ClaimFits
<1> QED
  BY <1>1, <1>2, <1>3, <1>5, <1>6, <1>7, RowStep DEF money

-----------------------------------------------------------------------------
(* The requests' steps that write a row or the queue.                      *)

LEMMA ApproveStep ==
    ASSUME Inductive, TypeOK', Named', NEW a \in Admins, NEW r \in Rows, Approve(a, r)
    PROVE  Core'
<1>1. /\ req[r].status = "requested" /\ SetStatus(r, "approved")
      /\ UNCHANGED <<returned, payouts, queue, job, ledgerVars>>
  BY DEF Approve
<1>2. /\ \A b \in Admins \ {a} : session'[b] = session[b]
      /\ session'[a].at = "publish" /\ session'[a].row = r
      /\ taken'[r] = taken[r] + 1 /\ \A u \in Rows \ {r} : taken'[u] = taken[u]
  BY Facts, ApproveEffect
<1>3. /\ \A u \in Rows \ {r} : req'[u] = req[u]
      /\ req'[r].status = "approved" /\ req'[r].hash = req[r].hash /\ req'[r].claim = req[r].claim
  BY <1>1, Facts, SetStatusEffect DEF Statuses
<1>4. Untouched(r)
  BY <1>1 DEF Inductive, Core, EarlyInv, Early
<1>5. Untouched(r)'
  BY <1>1, <1>3, <1>4 DEF Untouched, NobodyOwns
<1>6. RowsFit({r})
  <2>1. MoneyOK(req[r].status, taken[r], returned[r], payouts[r])'
    BY <1>1, <1>2, <1>3, Facts DEF RowOK, MoneyOK
  <2>2. req'[r].hash = NoHash /\ req[r].hash = NoHash
    BY <1>3, <1>4 DEF Untouched
  <2> QED
    BY <1>1, <1>3, <1>5, <2>1, <2>2 DEF RowsFit, RowOK, Early
<1>7. JobsFit({}, {r})
  BY <1>4 DEF JobsFit, Untouched, NobodyOwns
<1>8. RequestsFit({a}, {r})
  <2>1. RequestOK(session[a])'
    BY <1>2, <1>3, <1>5 DEF RequestOK, Announcing, Deciding, Untouched, NobodyOwns, Early
  <2>2. \A b \in Admins : Announcing(session[b]) => session[b].row # r
    BY <1>1, Facts DEF RequestOK, Early
  <2>3. \A b \in Admins : Announcing(session[b])' /\ session'[a].row = session'[b].row => a = b
    BY <1>2, <2>2 DEF Announcing
  <2> QED
    BY <2>1, <2>2, <2>3 DEF RequestsFit
<1> QED
  BY <1>1, <1>2, <1>3, <1>6, <1>7, <1>8, RowStep

\* The row a request announces is announced by it alone.
LEMMA Announced ==
    ASSUME Inductive, NEW a \in Admins, Announcing(session[a])
    PROVE  /\ session[a].row \in Rows /\ ~Early(req[session[a].row].status)
           /\ Assured => Untouched(session[a].row) /\ req[session[a].row].status = "approved"
           /\ \A b \in Admins \ {a} : Announcing(session[b]) => session[b].row # session[a].row
<1>1. session[a].row \in Rows
  BY Facts, SessionRow DEF Announcing
<1>2. /\ ~Early(req[session[a].row].status)
      /\ Assured => Untouched(session[a].row) /\ req[session[a].row].status = "approved"
  BY Facts DEF RequestOK
<1> QED
  BY <1>1, <1>2 DEF Inductive, Core, SessionInv

LEMMA PublishRaisesStep ==
    ASSUME Inductive, TypeOK', Named', NEW a \in Admins, PublishRaises(a)
    PROVE  Core'
<1>r. PICK r : r = session[a].row
  OBVIOUS
<1>1. /\ session[a].at = "publish" /\ Goto(a, "unpublish")
      /\ UNCHANGED <<req, money, job, ledgerVars>>
      /\ queue' = queue \/ (LateRedisError /\ queue' = Enqueued(r))
  BY <1>r DEF PublishRaises
<1>2. /\ \A b \in Admins \ {a} : session'[b] = session[b]
      /\ session'[a].at = "unpublish" /\ session'[a].row = r
  BY <1>1, <1>r, Facts, GotoEffect DEF RequestStep
<1>3. /\ r \in Rows /\ ~Early(req[r].status)
      /\ Assured => Untouched(r) /\ req[r].status = "approved"
      /\ \A b \in Admins \ {a} : Announcing(session[b]) => session[b].row # r
  BY <1>1, <1>r, Announced DEF Announcing
<1>4. \A u \in Rows \ {r} : queue'[u] = queue[u]
  BY <1>1, <1>3, Facts, EnqueuedEffect
<1>5. Assured => queue' = queue
  BY <1>1 DEF Assured
<1>6. RequestOK(session[a])'
  <2>1. Assured => Untouched(r)'
    BY <1>1, <1>3, <1>5 DEF Untouched, NobodyOwns
  <2> QED
    BY <1>1, <1>2, <1>3, <2>1 DEF RequestOK, Announcing, Deciding, Untouched, NobodyOwns, Early, Assured
<1>7. RequestsFit({a}, {r})
  BY <1>2, <1>3, <1>6 DEF RequestsFit, Announcing
<1>8. JobsFit({}, {r})
  BY <1>1 DEF JobsFit, ClaimKept
<1>9. RowsFit({r})
  BY <1>1, <1>3, ClaimFits
<1> QED
  BY <1>1, <1>2, <1>3, <1>4, <1>7, <1>8, <1>9, RowStep DEF money

LEMMA PublishStep ==
    ASSUME Inductive, TypeOK', Named', NEW a \in Admins, Publish(a)
    PROVE  Core'
<1> DEFINE r == session[a].row
<1>1. /\ Announcing(session[a]) /\ End(a) /\ UNCHANGED <<req, money, job, ledgerVars>>
      /\ queue' = Enqueued(r)
  BY DEF Publish, Announcing
<1>2. /\ r \in Rows /\ ~Early(req[r].status)
      /\ \A b \in Admins \ {a} : Announcing(session[b]) => session[b].row # r
  BY <1>1, Announced
<1>3. /\ \A b \in Admins \ {a} : session'[b] = session[b]
      /\ \A u \in Rows \ {r} : queue'[u] = queue[u]
  BY <1>1, Facts, EndEffect, EnqueuedEffect
<1> HIDE DEF r
<1>4. RequestsFit({a}, {r})
  BY <1>1, <1>2, EndFits
<1>5. JobsFit({}, {r})
  BY <1>1 DEF JobsFit, ClaimKept
<1>6. RowsFit({r})
  BY <1>1, <1>2, ClaimFits
<1> QED
  BY <1>1, <1>2, <1>3, <1>4, <1>5, <1>6, RowStep DEF money

LEMMA UnpublishStep ==
    ASSUME Inductive, TypeOK', Named', NEW a \in Admins, Unpublish(a)
    PROVE  Core'
<1> DEFINE r == session[a].row
<1>1. /\ Announcing(session[a]) /\ End(a) /\ UNCHANGED <<queue, job, ledgerVars>>
      /\ FailAndRestore(r, req[r].hash)
  BY DEF Unpublish, Announcing
<1>2. /\ r \in Rows /\ ~Early(req[r].status)
      /\ Assured => Untouched(r)
      /\ \A b \in Admins \ {a} : Announcing(session[b]) => session[b].row # r
  BY <1>1, Announced
<1>3. \A b \in Admins \ {a} : session'[b] = session[b]
  BY <1>1, Facts, EndEffect
<1> HIDE DEF r
<1>4. RequestsFit({a}, {r})
  BY <1>1, <1>2, EndFits
<1>5. JobsFit({}, {r})
  <2>1. req'[r].hash = req[r].hash /\ req'[r].claim = req[r].claim
    BY <1>1, <1>2, Facts, FailAndRestoreEffect DEF TableRow
  <2>2. Assured => \A v \in Workers : job[v].row # r
    BY <1>2 DEF Untouched, NobodyOwns
  <2> QED
    BY <2>1, <2>2 DEF JobsFit, ClaimKept
<1>6. /\ RowsFit({r})
      /\ \A u \in Rows \ {r} : /\ req'[u] = req[u] /\ queue'[u] = queue[u]
                               /\ taken'[u] = taken[u] /\ returned'[u] = returned[u]
                               /\ payouts'[u] = payouts[u]
  <2>1. Assured => req[r].hash = NoHash
    BY <1>2 DEF Untouched
  <2> QED
    BY <1>1, <1>2, <2>1, FailFits
<1> QED
  BY <1>1, <1>2, <1>3, <1>4, <1>5, <1>6, RowStep

LEMMA ReconcileStep ==
    ASSUME Inductive, TypeOK', Named', NEW a \in Admins,
           CompleteReconciled(a) \/ RestoreReconciled(a)
    PROVE  Core'
<1> DEFINE r == session[a].row
<1>1. /\ Deciding(session[a]) /\ End(a) /\ UNCHANGED <<queue, job, ledgerVars>>
  BY DEF CompleteReconciled, RestoreReconciled, Deciding
<1>2. r \in Rows /\ session[a].hash # NoHash /\ req[r].hash = session[a].hash
  BY <1>1, Facts, SessionRow DEF RequestOK, Deciding
<1>3. ~Untouched(r) /\ ~Early(req[r].status)
  BY <1>2 DEF Untouched, Inductive, Core, EarlyInv
<1>4. \A b \in Admins \ {a} : session'[b] = session[b]
  BY <1>1, Facts, EndEffect
<1>5. RequestsFit({a}, {r})
  BY <1>1, <1>2, <1>3, NotAnnounced, EndFits
<1>6. JobsFit({}, {r})
  BY <1>2, NotPending DEF JobsFit
<1>7. /\ RowsFit({r})
      /\ \A u \in Rows \ {r} : /\ req'[u] = req[u] /\ queue'[u] = queue[u]
                               /\ taken'[u] = taken[u] /\ returned'[u] = returned[u]
                               /\ payouts'[u] = payouts[u]
  <2>1. CASE CompleteReconciled(a)
    <3>1. CompleteBurn(r, session[a].hash) /\ Landed(session[a].hash)
      BY <2>1, Facts DEF CompleteReconciled, RequestOK
    <3> HIDE DEF r
    <3> QED
      BY <1>1, <1>2, <3>1, CompleteFits
  <2>2. CASE RestoreReconciled(a)
    <3>1. FailAndRestore(r, session[a].hash) /\ (Assured => Dead(session[a].hash))
      BY <2>2, Facts DEF RestoreReconciled, RequestOK
    <3> HIDE DEF r
    <3> QED
      BY <1>1, <1>2, <1>3, <3>1, FailFits
  <2> QED
    BY <2>1, <2>2
<1> HIDE DEF r
<1> QED
  BY <1>1, <1>2, <1>4, <1>5, <1>6, <1>7, RowStep

-----------------------------------------------------------------------------
(* The steps that change a payment.                                        *)

LEMMA SignStep ==
    ASSUME Inductive, TypeOK', Named', NEW w \in Workers, NEW h \in Hashes, Sign(w, h)
    PROVE  Core'
<1>r. PICK r : r = job[w].row
  OBVIOUS
<1>0. UNCHANGED <<money, queue, session>> /\ job[w].at = "sign"
  BY DEF Sign
<1>1. /\ \A v \in Workers \ {w} : job'[v] = job[v]
      /\ job'[w].at = "submit" /\ job'[w].row = r /\ job'[w].hash = h
      /\ \A u \in Rows \ {r} : req'[u] = req[u]
      /\ req'[r].status = req[r].status
      /\ req'[r].hash = h /\ req'[r].first = job[w].first
      /\ req'[r].last = validated + Window
      /\ \A k \in Hashes \ {h} : pay'[k] = pay[k]
      /\ pay[h].state = "unsigned"
      /\ pay'[h].row = r /\ pay'[h].state = "signed"
      /\ pay'[h].last = validated + Window /\ pay'[h].ledger = 0
      /\ validated' = validated /\ history' = history
  BY <1>r, Facts, SignEffect
<1>2. /\ r \in Rows /\ req[r].hash = NoHash /\ ~Early(req[r].status) /\ ~Untouched(r)
      /\ Assured => req[r].status = "approved"
      /\ \A v \in Workers \ {w} : Working(job[v]) => job[v].row # r
  BY <1>0, <1>r, Held DEF Pending
<1>3. job[w].first <= validated /\ h # NoHash /\ validated \in Nat /\ validated + Window \in Nat
  BY <1>0, Facts, NoHashAssumption, WindowAssumption DEF JobOK
<1>4. pay[h].ledger = 0
  BY <1>1, Facts DEF PayOK, Payment
<1>5. JobsFit({w}, {r})
  <2>1. JobOK(job[w])'
    BY <1>1, <1>3 DEF JobOK, Pending, Pursuing
  <2>2. \A v \in Workers : Working(job[v])' /\ job'[w].row = job'[v].row => w = v
    BY <1>1, <1>2 DEF Working
  <2>3. \A v \in Workers \ {w} : Pending(job[v]) => job[v].row # r
    BY <1>2 DEF Working, Pending
  <2> QED
    BY <1>1, <2>1, <2>2, <2>3 DEF JobsFit
<1>6. RequestsFit({}, {r})
  BY <1>2, NotAnnounced DEF RequestsFit
<1>7. RowsFit({r})
  <2>1. taken' = taken /\ returned' = returned /\ payouts' = payouts
    BY <1>0 DEF money
  <2>2. MoneyOK(req[r].status, taken[r], returned[r], payouts[r])'
    BY <1>1, <1>2, <2>1, Facts DEF RowOK, MoneyOK
  <2>3. /\ pay'[req'[r].hash].row = r /\ pay'[req'[r].hash].state # "unsigned"
        /\ pay'[req'[r].hash].last = req'[r].last /\ req'[r].first <= validated'
        /\ ~(pay'[req'[r].hash].ledger > 0)
    BY <1>1, <1>3
  <2>4. RowOK(r)'
    <3>1. req[r].status \in {"approved", "completed", "failed"}
      BY <1>2, Facts DEF TableRow, Statuses, Early
    <3>2. req[r].status # "completed" /\ (Assured => req[r].status # "failed")
      BY <1>2, Facts DEF RowOK
    <3> QED
      BY <1>1, <2>2, <2>3, <3>1, <3>2 DEF RowOK, RangeOf, Assured
  <2> QED
    BY <1>1, <1>2, <2>4 DEF RowsFit, Early
<1>8. PaymentsFit({w}, {})
  <2>1. ASSUME NEW k \in Hashes PROVE Evolves(k) /\ Placed(k)' /\ Shown(k)
    <3>1. CASE k = h
      <4>1. ~Landed(k) /\ ~Dead(k)
        BY <1>1, <3>1 DEF Landed, Dead
      <4>2. Evolves(k)
        BY <1>1, <1>4, <3>1, <4>1 DEF Evolves
      <4>3. Placed(k)'
        BY <1>1, <1>3, <3>1 DEF Placed
      <4> QED
        BY <1>1, <1>2, <3>1, <4>2, <4>3 DEF Shown
    <3>2. CASE k # h
      <4>1. pay'[k] = pay[k] /\ PayOK(k)
        BY <1>1, <3>2, Facts
      <4> QED
        BY <1>1, <4>1 DEF Evolves, Placed, Shown, PayOK, Landed, Dead
    <3> QED
      BY <3>1, <3>2
  <2>2. ASSUME NEW v \in Workers, Pursuing(job[v]) PROVE Awaited(job[v].hash)
    <3>1. job[v].row \in Rows /\ job[v].hash # NoHash /\ req[job[v].row].hash = job[v].hash
      BY <2>2, Pursued
    <3>2. job[v].hash \in Hashes /\ pay[job[v].hash].state # "unsigned"
      BY <3>1, Facts DEF RowOK, RangeOf, TableRow
    <3> QED
      BY <1>1, <3>2 DEF Awaited
  <2>3. ASSUME NEW k \in Hashes, ~Sees(k) PROVE ~Sees(k)'
    BY <1>1, <2>3 DEF Sees
  <2>4. validated' >= validated
    BY <1>1, <1>3
  <2> QED
    BY <2>1, <2>2, <2>3, <2>4 DEF PaymentsFit
<1>9. Within({w}, {}, {r})
  BY <1>0, <1>1 DEF Within, money
<1> QED
  BY <1>2, <1>5, <1>6, <1>7, <1>8, <1>9, FitsKeeps DEF Fits

\* Two workers never pursue the same burn.
LEMMA OnePursuer ==
    ASSUME Inductive, NEW v \in Workers, NEW w \in Workers,
           Pursuing(job[v]), Pursuing(job[w]), job[v].hash = job[w].hash
    PROVE  v = w
<1>1. /\ job[v].row \in Rows /\ job[v].hash # NoHash /\ req[job[v].row].hash = job[v].hash
      /\ job[w].row \in Rows /\ req[job[w].row].hash = job[v].hash
  BY Pursued
<1>2. pay[job[v].hash].row = job[v].row /\ pay[job[v].hash].row = job[w].row
  BY <1>1, Facts DEF RowOK, RangeOf
<1> QED
  BY <1>2 DEF Inductive, Core, OwnerInv, Working, Pursuing

LEMMA SubmitStep ==
    ASSUME Inductive, TypeOK', Named', NEW w \in Workers, Submit(w)
    PROVE  Core'
<1>h. PICK h : h = job[w].hash
  OBVIOUS
<1>1. PICK s \in {"submitted", "void"}, t \in {"wait", "failed"} :
         SetState(h, s) /\ JobTo(w, t) /\ (s = "submitted" <=> t = "wait")
  BY <1>h DEF Submit
<1>2. job[w].at = "submit" /\ UNCHANGED <<req, money, queue, session>>
  BY DEF Submit
<1>3. /\ \A v \in Workers \ {w} : job'[v] = job[v]
      /\ job'[w].at = t /\ job'[w].row = job[w].row /\ job'[w].hash = h
  BY <1>1, <1>h, Facts, JobToEffect DEF JobStep
<1>4. /\ job[w].row \in Rows /\ h \in Hashes /\ req[job[w].row].hash = h /\ pay[h].state = "signed"
  BY <1>h, <1>2, Facts, Pursued DEF Pursuing, JobOK, Job
<1>5. /\ \A k \in Hashes \ {h} : pay'[k] = pay[k]
      /\ pay'[h].state = s /\ pay'[h].row = pay[h].row
      /\ pay'[h].last = pay[h].last /\ pay'[h].ledger = pay[h].ledger
      /\ validated' = validated /\ history' = history
  BY <1>1, <1>4, Facts, SetStateEffect DEF PayState
<1>6. JobsFit({w}, {})
  <2>1. JobOK(job[w])'
    <3>1. req'[job'[w].row].hash = h /\ pay'[job'[w].hash].state = s /\ h # NoHash
      BY <1>2, <1>3, <1>4, <1>5, NoHashAssumption
    <3> QED
      BY <1>1, <1>3, <3>1 DEF JobOK, Pending, Pursuing
  <2>2. \A v \in Workers : Working(job[v])' /\ job'[w].row = job'[v].row => w = v
    BY <1>2, <1>3 DEF Inductive, Core, OwnerInv, Working
  <2> QED
    BY <1>3, <2>1, <2>2 DEF JobsFit
<1>7. RowsFit({}) /\ RequestsFit({}, {}) /\ Within({w}, {}, {})
  BY <1>2, <1>3 DEF RowsFit, RequestsFit, Within, money
<1>8. PaymentsFit({w}, {})
  <2>1. ASSUME NEW k \in Hashes PROVE Evolves(k) /\ Placed(k)' /\ Shown(k)
    <3>1. PayOK(k) /\ validated \in Nat
      BY Facts
    <3>2. CASE k = h
      <4>1. Evolves(k)
        BY <1>4, <1>5, <3>2 DEF Evolves, Landed, Dead
      <4>2. Placed(k)'
        BY <1>4, <1>5, <3>1, <3>2 DEF Placed, PayOK
      <4> QED
        BY <1>4, <3>2, <4>1, <4>2 DEF Shown
    <3>3. CASE k # h
      <4>1. pay'[k] = pay[k]
        BY <1>5, <3>3
      <4> QED
        BY <1>5, <3>1, <4>1 DEF Evolves, Placed, Shown, PayOK, Landed, Dead
    <3> QED
      BY <3>2, <3>3
  <2>2. ASSUME NEW v \in Workers \ {w}, Pursuing(job[v]) PROVE Awaited(job[v].hash)
    <3>1. job[v].hash # h /\ job[v].hash # NoHash
      BY <1>2, <1>h, <2>2, OnePursuer, Pursued DEF Pursuing
    <3>2. job[v].hash \in Hashes
      BY <3>1, Facts DEF Job
    <3> QED
      BY <1>5, <3>1, <3>2 DEF Awaited
  <2>3. ASSUME NEW k \in Hashes, ~Sees(k) PROVE ~Sees(k)'
    BY <1>5, <2>3 DEF Sees
  <2>4. validated' >= validated
    BY <1>5, Facts
  <2> QED
    BY <2>1, <2>2, <2>3, <2>4 DEF PaymentsFit
<1> QED
  BY <1>6, <1>7, <1>8, FitsKeeps DEF Fits

\* A step of the ledger, while no reconciliation is between its questions.
LEMMA LedgerStep ==
    ASSUME Inductive, TypeOK', Named', LedgerCloses \/ ServerBackfills
    PROVE  Core'
<1>1. UNCHANGED <<req, money, queue, job, session>> /\ (Assured => ~Querying)
  BY DEF LedgerCloses, ServerBackfills, Assured
<1>2. /\ validated' \in {validated, validated + 1}
      /\ \A h \in Hashes :
            \/ pay'[h] = pay[h]
            \/ /\ pay[h].state = "submitted" /\ pay'[h].state \in {"tes", "tec"}
               /\ pay'[h].row = pay[h].row /\ pay'[h].last = pay[h].last
               /\ pay'[h].ledger = validated + 1 /\ validated + 1 <= pay[h].last
               /\ validated' = validated + 1
  <2>1. CASE LedgerCloses
    <3>1. PICK good \in SUBSET Hashes, bad \in SUBSET Hashes : CloseLedger(good, bad)
      BY <2>1 DEF LedgerCloses
    <3> QED
      BY <3>1, Facts, CloseLedgerEffect
  <2>2. CASE ServerBackfills
    BY <2>2 DEF ServerBackfills, Backfill
  <2> QED
    BY <2>1, <2>2
<1>3. validated \in Nat /\ validated' >= validated
  BY <1>2, Facts
<1>4. ASSUME NEW h \in Hashes PROVE Evolves(h) /\ Placed(h)' /\ Shown(h) /\ Awaited(h)
  <2>1. PayOK(h) /\ pay[h] \in Payment
    BY Facts
  <2>2. CASE pay'[h] = pay[h]
    BY <1>2, <1>3, <2>1, <2>2 DEF Evolves, Placed, Shown, Awaited, PayOK, Payment, Landed, Dead
  <2>3. CASE pay'[h] # pay[h]
    <3>1. /\ pay[h].state = "submitted" /\ pay'[h].state \in {"tes", "tec"}
          /\ pay'[h].row = pay[h].row /\ pay'[h].last = pay[h].last
          /\ pay'[h].ledger = validated + 1 /\ validated + 1 <= pay[h].last
          /\ validated' = validated + 1
      BY <1>2, <2>3
    <3>2. ~Dead(h) /\ ~Landed(h)
      BY <1>3, <2>1, <3>1 DEF Dead, Landed, Payment
    <3>3. Placed(h)'
      BY <1>3, <2>1, <3>1 DEF Placed, Payment
    <3> QED
      BY <3>1, <3>2, <3>3 DEF Evolves, Shown, Awaited
  <2> QED
    BY <2>2, <2>3
<1>5. ASSUME NEW v \in Workers, Pursuing(job[v]) PROVE Awaited(job[v].hash)
  <2>1. job[v].hash \in Hashes
    BY <1>5, Pursued, Facts DEF Job
  <2> QED
    BY <1>4, <2>1
<1>6. PaymentsFit({}, {})
  BY <1>1, <1>3, <1>4, <1>5 DEF PaymentsFit, Querying
<1>7. /\ JobsFit({}, {}) /\ RowsFit({}) /\ RequestsFit({}, {})
      /\ Within({}, {}, {})
  BY <1>1 DEF JobsFit, RowsFit, RequestsFit, Within, money
<1> QED
  BY <1>6, <1>7, FitsKeeps DEF Fits

LEMMA StutterStep ==
    ASSUME Inductive, TypeOK', Named', UNCHANGED vars
    PROVE  Core'
<1>1. /\ JobsFit({}, {}) /\ RowsFit({}) /\ RequestsFit({}, {})
      /\ Within({}, {}, {})
  BY DEF JobsFit, RowsFit, RequestsFit, Within, vars, money
<1>2. PaymentsFit({}, {})
  BY StillPayments DEF vars, ledgerVars
<1> QED
  BY <1>1, <1>2, FitsKeeps DEF Fits

-----------------------------------------------------------------------------
(* The invariant.                                                          *)

LEMMA CoreInit == Init => Core
<1> SUFFICES ASSUME Init PROVE Core
  OBVIOUS
<1>1. /\ \A w \in Workers : job[w].at = "idle" /\ job[w].row = NoRow /\ job[w].hash = NoHash
      /\ \A a \in Admins : session[a].at = "idle"
      /\ \A r \in Rows : /\ req[r].status = "absent" /\ req[r].hash = NoHash
                         /\ req[r].claim = "none" /\ queue[r] = 0
                         /\ taken[r] = 0 /\ returned[r] = 0 /\ payouts[r] = 0
      /\ \A h \in Hashes : pay[h].state = "unsigned" /\ pay[h].last = 0 /\ pay[h].ledger = 0
      /\ validated = 1
  BY DEF Init, LedgerInit, Zero, IdleJob, IdleRequest, NewRow
<1>2. JobInv /\ OwnerInv
  BY <1>1 DEF JobInv, OwnerInv, JobOK, Working, Pending, Pursuing
<1>3. RowInv
  BY <1>1 DEF RowInv, RowOK, MoneyOK
<1>4. EarlyInv
  BY <1>1, NoRowAssumption DEF EarlyInv, Untouched, NobodyOwns
<1>5. PayInv
  BY <1>1 DEF PayInv, PayOK
<1>6. SessionInv
  BY <1>1 DEF SessionInv, RequestOK, Announcing, Deciding
<1> QED
  BY <1>2, <1>3, <1>4, <1>5, <1>6 DEF Core

LEMMA InductiveStep ==
    ASSUME Inductive, [Next]_vars
    PROVE  Inductive'
<1>1. TypeOK' /\ Named'
  BY TypeStep DEF Inductive
<1>2. Core'
  <2>1. ASSUME NEW r \in Rows,
               \/ CreateRequest(r) \/ Reject(r) \/ Sweep(r) \/ GrowStale(r)
               \/ LoseMessage(r) \/ Deliver(r)
        PROVE  Core'
    <3>1. CASE LoseMessage(r)
      BY <1>1, <3>1, DropStep DEF LoseMessage
    <3>2. ASSUME NEW w \in Workers, Skip(w, r) PROVE Core'
      BY <1>1, <3>2, DropStep DEF Skip
    <3> QED
      BY <1>1, <2>1, <3>1, <3>2, RequestedStep, SweepStep, GrowStaleStep, ClaimStep DEF Deliver
  <2>2. ASSUME NEW w \in Workers, JobSteps(w) \/ Crash(w) PROVE Core'
    BY <1>1, <2>2, ReadLedgerStep, SignStep, SubmitStep, AwaitStep, FailTransientlyStep,
       DecideStep, StopStep, GiveUpStep, ReleaseClaimStep, RequeueStep DEF JobSteps
  <2>3. ASSUME NEW a \in Admins, NEW r \in Rows, Approve(a, r) \/ StartReconcile(a, r) PROVE Core'
    BY <1>1, <2>3, ApproveStep, StartReconcileStep
  <2>4. ASSUME NEW a \in Admins, RequestSteps(a) \/ Abort(a) PROVE Core'
    <3>1. CASE Abort(a)
      BY <1>1, <3>1, AbortStep DEF Abort
    <3> QED
      BY <1>1, <2>4, <3>1, PublishStep, PublishRaisesStep, UnpublishStep, LookUpStep,
         CheckLatestStep, CheckRangeStep, ReconcileStep DEF RequestSteps
  <2>5. CASE LedgerCloses \/ ServerBackfills
    BY <1>1, <2>5, LedgerStep
  <2>6. CASE UNCHANGED vars
    BY <1>1, <2>6, StutterStep
  <2> QED
    BY <2>1, <2>2, <2>3, <2>4, <2>5, <2>6 DEF Next
<1> QED
  BY <1>1, <1>2 DEF Inductive

\* The invariant that the properties follow from: who works on which row, what a
\* worker and a reconciliation know, and how money and payments follow the rows.
THEOREM Invariant == Spec => []Inductive
<1>1. Init => Inductive
  BY TypeInit, CoreInit DEF Inductive
<1>2. Inductive /\ [Next]_vars => Inductive'
  BY InductiveStep
<1> QED
  BY <1>1, <1>2, PTL DEF Spec

-----------------------------------------------------------------------------
(* What it says of money and burns.                                        *)

\* Money moves exactly as often as a cash-out's status says, whoever races whom.
THEOREM MoneyIsMovedOnce == Spec => []MoneyFollowsStatus
<1>1. ASSUME Inductive PROVE MoneyFollowsStatus
  <2>1. ASSUME NEW r \in Rows
        PROVE  /\ taken[r] = 1 <=> req[r].status \in {"approved", "completed"} \/ returned[r] = 1
               /\ returned[r] = 1 => req[r].status = "failed"
               /\ payouts[r] = 1 <=> req[r].status = "completed"
               /\ taken[r] <= 1 /\ returned[r] <= taken[r] /\ payouts[r] <= 1
    <3>1. req[r].status \in Statuses /\ MoneyOK(req[r].status, taken[r], returned[r], payouts[r])
      BY <1>1, Facts DEF TableRow, RowOK
    <3> QED
      BY <3>1 DEF MoneyOK, Statuses
  <2> QED
    BY <2>1 DEF MoneyFollowsStatus
<1> QED
  BY <1>1, Invariant, PTL

\* A row has one burn at most, the one it shows.
LEMMA TheBurn ==
    ASSUME Inductive, NEW r \in Rows, NEW h \in SignedFor(r)
    PROVE  h \in Hashes /\ h = req[r].hash /\ h # NoHash
BY Facts, NoHashAssumption DEF SignedFor, PayOK

\* No cash-out is ever signed for twice.
THEOREM OneBurnPerRow == Spec => []OneBurn
<1>1. Inductive => OneBurn
  BY TheBurn DEF OneBurn
<1> QED
  BY <1>1, Invariant, PTL

\* Tokens are added back only when no burn of theirs can still land.
THEOREM NothingReturnedAndBurnt ==
    ASSUME SlowRpc = FALSE, LateRedisError = FALSE
    PROVE  Spec => []RestoredOnlyIfDead
<1>1. ASSUME Inductive PROVE RestoredOnlyIfDead
  <2>1. ASSUME NEW r \in Rows, returned[r] > 0, NEW h \in SignedFor(r) PROVE Dead(h)
    <3>1. req[r].status = "failed"
      BY <1>1, <2>1, Facts DEF TableRow, Statuses, RowOK, MoneyOK
    <3> QED
      BY <1>1, <3>1, TheBurn, Facts DEF RowOK, Assured
  <2> QED
    BY <2>1 DEF RestoredOnlyIfDead
<1> QED
  BY <1>1, Invariant, PTL

\* Fiat is paid out only for tokens a validated ledger has destroyed.
THEOREM PaidOnlyForBurnt == Spec => []PaidOnlyIfBurned
<1>1. ASSUME Inductive PROVE PaidOnlyIfBurned
  <2>1. ASSUME NEW r \in Rows, req[r].status = "completed" PROVE req[r].hash \in LandedFor(r)
    <3>1. req[r].hash # NoHash /\ Landed(req[r].hash) /\ req[r].hash \in Hashes
      BY <1>1, <2>1, Facts DEF RowOK, TableRow
    <3>2. pay[req[r].hash].row = r /\ pay[req[r].hash].state # "unsigned"
      BY <1>1, <3>1, Facts DEF RowOK, RangeOf
    <3> QED
      BY <3>1, <3>2 DEF LandedFor, SignedFor
  <2> QED
    BY <2>1 DEF PaidOnlyIfBurned
<1> QED
  BY <1>1, Invariant, PTL

-----------------------------------------------------------------------------
(* What a step does to the rows: to one of them at most, and onward.       *)

\* The row keeps its hash and its range, once it has them.
HashKept(r) ==
    req[r].hash # NoHash =>
        req'[r].hash = req[r].hash /\ req'[r].first = req[r].first /\ req'[r].last = req[r].last

\* Where a row's status goes, with its money and its burn.
Onward(r) ==
    \/ req'[r].status = req[r].status /\ taken'[r] = taken[r]
    \/ req[r].status = "absent" /\ req'[r].status = "requested"
    \/ req[r].status = "requested" /\ req'[r].status = "failed" /\ taken[r] = 0 /\ taken'[r] = 0
    \/ req[r].status = "requested" /\ req'[r].status = "approved"
    \/ /\ req[r].status = "approved" /\ req'[r].status = "completed"
       /\ req[r].hash # NoHash /\ Landed(req[r].hash)
    \/ /\ req[r].status = "approved" /\ req'[r].status = "failed" /\ taken'[r] = 1
       /\ Assured /\ req[r].hash # NoHash => Dead(req[r].hash)

OneRow ==
    \/ UNCHANGED <<req, taken>>
    \/ \E r \in Rows : /\ Onward(r) /\ HashKept(r)
                       /\ \A u \in Rows \ {r} : req'[u] = req[u] /\ taken'[u] = taken[u]

LEMMA StatusMoves ==
    ASSUME Inductive, NEW r \in Rows, NEW s \in Statuses, SetStatus(r, s),
           \A u \in Rows \ {r} : taken'[u] = taken[u], Onward(r)
    PROVE  OneRow
<1>1. /\ \A u \in Rows \ {r} : req'[u] = req[u]
      /\ req'[r].hash = req[r].hash /\ req'[r].first = req[r].first /\ req'[r].last = req[r].last
  BY Facts, SetStatusEffect
<1> QED
  BY <1>1 DEF OneRow, HashKept

LEMMA RejectMoves ==
    ASSUME Inductive, NEW r \in Rows, CreateRequest(r) \/ Reject(r)
    PROVE  OneRow
<1>1. CASE CreateRequest(r)
  <2>1. req[r].status = "absent" /\ SetStatus(r, "requested") /\ taken' = taken
    BY <1>1 DEF CreateRequest, money
  <2>2. req'[r].status = "requested"
    BY <2>1, Facts, SetStatusEffect DEF Statuses
  <2> QED
    BY <2>1, <2>2, StatusMoves DEF Onward, Statuses
<1>2. CASE Reject(r)
  <2>1. req[r].status = "requested" /\ SetStatus(r, "failed") /\ taken' = taken
    BY <1>2 DEF Reject, money
  <2>2. req'[r].status = "failed" /\ taken[r] = 0
    BY <2>1, Facts, SetStatusEffect DEF Statuses, RowOK, MoneyOK
  <2> QED
    BY <2>1, <2>2, StatusMoves DEF Onward, Statuses
<1> QED
  BY <1>1, <1>2

LEMMA ApproveMoves ==
    ASSUME Inductive, NEW a \in Admins, NEW r \in Rows, Approve(a, r)
    PROVE  OneRow
<1>1. req[r].status = "requested" /\ SetStatus(r, "approved")
  BY DEF Approve
<1>2. req'[r].status = "approved" /\ \A u \in Rows \ {r} : taken'[u] = taken[u]
  BY <1>1, Facts, SetStatusEffect, ApproveEffect DEF Statuses
<1> QED
  BY <1>1, <1>2, StatusMoves DEF Onward, Statuses

\* A claim is taken, or released.
LEMMA ClaimMoves ==
    ASSUME Inductive, NEW w \in Workers, NEW r \in Rows,
           Claim(w, r) \/ (ReleaseClaim(w) /\ r = job[w].row)
    PROVE  OneRow
<1>1. taken' = taken
  BY DEF Claim, ReleaseClaim, money
<1>2. /\ \A u \in Rows \ {r} : req'[u] = req[u]
      /\ req'[r].status = req[r].status /\ req'[r].hash = req[r].hash
      /\ req'[r].first = req[r].first /\ req'[r].last = req[r].last
  <2>1. CASE Claim(w, r)
    BY <2>1, Facts, ClaimEffect
  <2>2. CASE ReleaseClaim(w) /\ r = job[w].row
    BY <2>2, Facts, SetClaimEffect DEF ReleaseClaim
  <2> QED
    BY <2>1, <2>2
<1> QED
  BY <1>1, <1>2 DEF OneRow, Onward, HashKept

LEMMA SignMoves ==
    ASSUME Inductive, NEW w \in Workers, NEW h \in Hashes, Sign(w, h)
    PROVE  OneRow
<1>r. PICK r : r = job[w].row
  OBVIOUS
<1>1. taken' = taken /\ job[w].at = "sign"
  BY DEF Sign, money
<1>2. r \in Rows /\ req[r].hash = NoHash
  BY <1>r, <1>1, Held DEF Pending
<1>3. /\ \A u \in Rows \ {r} : req'[u] = req[u]
      /\ req'[r].status = req[r].status
  BY <1>r, Facts, SignEffect
<1> QED
  BY <1>1, <1>2, <1>3 DEF OneRow, Onward, HashKept

LEMMA FailMoves ==
    ASSUME Inductive, NEW r \in Rows, NEW h, h = req[r].hash, FailAndRestore(r, h),
           Assured /\ h # NoHash => Dead(h)
    PROVE  OneRow
<1>1. h \in Hashes \cup {NoHash} /\ RowOK(r)
  BY Facts DEF TableRow
<1>2. /\ taken' = taken
      /\ \A u \in Rows \ {r} : req'[u] = req[u]
      /\ \/ req[r].status # "approved" /\ req' = req
         \/ /\ req[r].status = "approved" /\ req'[r].status = "failed"
            /\ req'[r].hash = h /\ req'[r].first = req[r].first
            /\ req'[r].last = req[r].last
  BY <1>1, Facts, FailAndRestoreEffect
<1> QED
  BY <1>1, <1>2 DEF OneRow, Onward, HashKept, RowOK, MoneyOK

LEMMA CompleteMoves ==
    ASSUME Inductive, NEW r \in Rows, NEW h, h = req[r].hash, CompleteBurn(r, h),
           h # NoHash, Landed(h)
    PROVE  OneRow
<1>1. h \in Hashes \cup {NoHash}
  BY Facts DEF TableRow
<1>2. /\ taken' = taken
      /\ \A u \in Rows \ {r} : req'[u] = req[u]
      /\ \/ req[r].status # "approved" /\ req' = req
         \/ /\ req[r].status = "approved" /\ req'[r].status = "completed"
            /\ req'[r].hash = h /\ req'[r].first = req[r].first
            /\ req'[r].last = req[r].last
  BY <1>1, Facts, CompleteBurnEffect
<1> QED
  BY <1>2 DEF OneRow, Onward, HashKept

LEMMA WorkerMoves ==
    ASSUME Inductive, NEW w \in Workers, JobSteps(w) \/ Crash(w)
    PROVE  OneRow
<1>1. CASE Complete(w)
  <2>1. /\ Pursuing(job[w]) /\ CompleteBurn(job[w].row, job[w].hash) /\ Landed(job[w].hash)
    BY <1>1, Facts DEF Complete, Pursuing, JobOK, Landed
  <2> QED
    BY <2>1, Pursued, CompleteMoves
<1>2. CASE Restore(w)
  <2>1. /\ Pursuing(job[w]) /\ FailAndRestore(job[w].row, job[w].hash) /\ Dead(job[w].hash)
    BY <1>2, Facts DEF Restore, Pursuing, JobOK, Dead
  <2> QED
    BY <2>1, Pursued, FailMoves
<1>3. CASE GiveUp(w)
  <2>1. /\ Pending(job[w]) /\ FailAndRestore(job[w].row, req[job[w].row].hash)
    BY <1>3 DEF GiveUp, Pending
  <2> QED
    BY <2>1, Held, FailMoves
<1>4. CASE ReleaseClaim(w)
  BY <1>4, Held, ClaimMoves DEF ReleaseClaim, Pending
<1>5. CASE \/ ReadLedger(w) \/ Submit(w) \/ Observe(w) \/ LoseSight(w) \/ FailTransiently(w)
           \/ HoldUnknown(w) \/ Requeue(w) \/ Crash(w)
  BY <1>5 DEF ReadLedger, Submit, Observe, LoseSight, FailTransiently, HoldUnknown, Requeue,
              Crash, OneRow, money
<1> QED
  BY <1>1, <1>2, <1>3, <1>4, <1>5, SignMoves DEF JobSteps

LEMMA RequestMoves ==
    ASSUME Inductive, NEW a \in Admins, RequestSteps(a) \/ Abort(a)
    PROVE  OneRow
<1>1. CASE CompleteReconciled(a)
  <2>1. /\ session[a].row \in Rows /\ session[a].hash # NoHash
        /\ req[session[a].row].hash = session[a].hash /\ Landed(session[a].hash)
        /\ CompleteBurn(session[a].row, session[a].hash)
    BY <1>1, Facts, SessionRow DEF CompleteReconciled, RequestOK, Deciding
  <2> QED
    BY <2>1, CompleteMoves
<1>2. CASE RestoreReconciled(a)
  <2>1. /\ session[a].row \in Rows
        /\ req[session[a].row].hash = session[a].hash
        /\ Assured => Dead(session[a].hash)
        /\ FailAndRestore(session[a].row, session[a].hash)
    BY <1>2, Facts, SessionRow DEF RestoreReconciled, RequestOK, Deciding
  <2> QED
    BY <2>1, FailMoves
<1>3. CASE Unpublish(a)
  <2>1. Announcing(session[a]) /\ FailAndRestore(session[a].row, req[session[a].row].hash)
    BY <1>3 DEF Unpublish, Announcing
  <2> QED
    BY <2>1, Announced, FailMoves DEF Untouched
<1>4. CASE \/ Publish(a) \/ PublishRaises(a) \/ LookUp(a) \/ CheckLatest(a) \/ CheckRange(a)
           \/ Abort(a)
  BY <1>4 DEF Publish, PublishRaises, LookUp, CheckLatest, CheckRange, Abort, OneRow, money
<1> QED
  BY <1>1, <1>2, <1>3, <1>4 DEF RequestSteps

LEMMA StepMoves ==
    ASSUME Inductive, [Next]_vars
    PROVE  OneRow
<1>1. ASSUME NEW r \in Rows,
             \/ CreateRequest(r) \/ Reject(r) \/ Sweep(r) \/ GrowStale(r)
             \/ LoseMessage(r) \/ Deliver(r)
      PROVE  OneRow
  <2>1. CASE Sweep(r) \/ LoseMessage(r)
    BY <2>1 DEF Sweep, LoseMessage, OneRow, money
  <2>2. ASSUME NEW w \in Workers, Claim(w, r) \/ Skip(w, r) PROVE OneRow
    BY <2>2, ClaimMoves DEF Skip, OneRow, money
  <2>3. CASE GrowStale(r)
    <3>1. taken' = taken
      BY <2>3 DEF GrowStale, money
    <3>2. /\ \A u \in Rows \ {r} : req'[u] = req[u]
          /\ req'[r].status = req[r].status /\ req'[r].hash = req[r].hash
          /\ req'[r].first = req[r].first /\ req'[r].last = req[r].last
      BY <2>3, Facts, SetClaimEffect DEF GrowStale
    <3> QED
      BY <3>1, <3>2 DEF OneRow, Onward, HashKept
  <2> QED
    BY <1>1, <2>1, <2>2, <2>3, RejectMoves DEF Deliver
<1>2. ASSUME NEW a \in Admins, NEW r \in Rows, Approve(a, r) \/ StartReconcile(a, r)
      PROVE  OneRow
  BY <1>2, ApproveMoves DEF StartReconcile, OneRow, money
<1>3. CASE LedgerCloses \/ ServerBackfills \/ UNCHANGED vars
  BY <1>3 DEF LedgerCloses, ServerBackfills, vars, OneRow, money
<1> QED
  BY <1>1, <1>2, <1>3, WorkerMoves, RequestMoves DEF Next

\* The hash a row shows, its ledger range, and the row's decided status are final.
THEOREM DecisionsAreFinal == Spec => Frozen
<1> DEFINE Kept == \A r \in Rows :
          /\ req[r].hash # NoHash =>
                <<req'[r].hash, req'[r].first, req'[r].last>>
                    = <<req[r].hash, req[r].first, req[r].last>>
          /\ req[r].status \in {"completed", "failed"} => req'[r].status = req[r].status
<1>1. Inductive /\ [Next]_vars => Kept
  <2>1. SUFFICES ASSUME Inductive, [Next]_vars, NEW r \in Rows
                 PROVE  /\ HashKept(r)
                        /\ req[r].status \in {"completed", "failed"} => req'[r].status = req[r].status
    BY DEF HashKept
  <2>2. CASE UNCHANGED <<req, taken>>
    BY <2>2 DEF HashKept
  <2>3. ASSUME NEW t \in Rows, Onward(t), HashKept(t),
               \A u \in Rows \ {t} : req'[u] = req[u] /\ taken'[u] = taken[u]
        PROVE  /\ HashKept(r)
               /\ req[r].status \in {"completed", "failed"} => req'[r].status = req[r].status
    BY <2>3 DEF HashKept, Onward
  <2> QED
    BY <2>1, <2>2, <2>3, StepMoves DEF OneRow
<1> QED
  BY <1>1, Invariant, PTL DEF Spec, Frozen

-----------------------------------------------------------------------------
(* CashOut implements CashOutSpec.                                         *)

Maps == Promise!Next \/ UNCHANGED Promise!promiseVars

SameBurnt == \A r \in Rows : LandedFor(r)' = LandedFor(r)

\* Signing and submitting burn nothing: the ledger does.
LEMMA NothingBurns ==
    ASSUME Inductive,
           \A h \in Hashes : \/ pay'[h] = pay[h]
                             \/ pay[h].state # "tes" /\ pay'[h].state # "tes"
    PROVE  SameBurnt
BY DEF SameBurnt, LandedFor, SignedFor, Landed

LEMMA JobsBurnNothing ==
    ASSUME Inductive, NEW w \in Workers, JobSteps(w) \/ Crash(w)
    PROVE  SameBurnt
<1>1. ASSUME NEW h \in Hashes, Sign(w, h) PROVE SameBurnt
  <2>1. /\ \A k \in Hashes \ {h} : pay'[k] = pay[k]
        /\ pay[h].state = "unsigned" /\ pay'[h].state = "signed"
    BY <1>1, Facts, SignEffect
  <2> QED
    BY <2>1, NothingBurns
<1>2. CASE Submit(w)
  <2>1. PICK s \in {"submitted", "void"} : SetState(job[w].hash, s)
    BY <1>2 DEF Submit
  <2>2. pay[job[w].hash].state = "signed" /\ job[w].hash \in Hashes
    BY <1>2, Facts, Pursued DEF Submit, JobOK, Pursuing, Job
  <2>3. /\ \A k \in Hashes \ {job[w].hash} : pay'[k] = pay[k]
        /\ pay'[job[w].hash].state = s
    BY <2>1, <2>2, Facts, SetStateEffect DEF PayState
  <2>4. \A h \in Hashes : \/ pay'[h] = pay[h]
                          \/ pay[h].state # "tes" /\ pay'[h].state # "tes"
    BY <2>2, <2>3
  <2> QED
    BY <2>4, NothingBurns
<1>3. CASE ~Submit(w) /\ ~\E h \in Hashes : Sign(w, h)
  <2>1. pay' = pay
    BY <1>3 DEF JobSteps, ReadLedger, Observe, LoseSight, FailTransiently, Complete, Restore,
                HoldUnknown, GiveUp, ReleaseClaim, Requeue, Crash, ledgerVars
  <2> QED
    BY <2>1, NothingBurns
<1> QED
  BY <1>1, <1>2, <1>3

LEMMA OthersBurnNothing ==
    ASSUME Inductive, [Next]_vars, ~LedgerCloses
    PROVE  SameBurnt
<1>1. ASSUME ~\E w \in Workers : JobSteps(w) \/ Crash(w) PROVE SameBurnt
  <2>1. pay' = pay
    BY <1>1 DEF Next, CreateRequest, Reject, Sweep, GrowStale, LoseMessage, Deliver, Claim, Skip,
                Approve, StartReconcile, RequestSteps, Publish, PublishRaises, Unpublish, LookUp,
                CheckLatest, CheckRange, CompleteReconciled, RestoreReconciled, Abort,
                ServerBackfills, Backfill, vars, ledgerVars
  <2> QED
    BY <2>1, NothingBurns
<1> QED
  BY <1>1, JobsBurnNothing

\* A row's tokens are burnt exactly if the burn it shows has landed.
LEMMA BurntIsShown ==
    ASSUME Inductive, NEW r \in Rows
    PROVE  LandedFor(r) # {} <=> req[r].hash # NoHash /\ Landed(req[r].hash)
<1>1. ASSUME NEW h \in LandedFor(r) PROVE req[r].hash # NoHash /\ Landed(req[r].hash)
  BY <1>1, TheBurn DEF LandedFor
<1>2. ASSUME req[r].hash # NoHash, Landed(req[r].hash) PROVE req[r].hash \in LandedFor(r)
  <2>1. req[r].hash \in Hashes /\ pay[req[r].hash].row = r /\ pay[req[r].hash].state # "unsigned"
    BY <1>2, Facts DEF TableRow, RowOK, RangeOf
  <2> QED
    BY <1>2, <2>1 DEF LandedFor, SignedFor
<1> QED
  BY <1>1, <1>2

LEMMA Invisible ==
    ASSUME \A r \in Rows : Stage(r)' = Stage(r), SameBurnt
    PROVE  Maps
<1>1. [r \in Rows |-> Stage(r)]' = [r \in Rows |-> Stage(r)]
  OBVIOUS
<1>2. {r \in Rows : LandedFor(r) # {}}' = {r \in Rows : LandedFor(r) # {}}
  BY DEF SameBurnt
<1> QED
  BY <1>1, <1>2 DEF Maps, Promise!promiseVars

LEMMA Moves ==
    ASSUME NEW r \in Rows, NEW from, NEW to, Stage(r) = from, Stage(r)' = to,
           \A u \in Rows \ {r} : Stage(u)' = Stage(u), SameBurnt
    PROVE  Promise!Move(r, from, to)
<1>1. [u \in Rows |-> Stage(u)]' = [[u \in Rows |-> Stage(u)] EXCEPT ![r] = to]
  OBVIOUS
<1>2. {u \in Rows : LandedFor(u) # {}}' = {u \in Rows : LandedFor(u) # {}}
  BY DEF SameBurnt
<1>3. [u \in Rows |-> Stage(u)][r] = from
  OBVIOUS
<1> QED
  BY <1>1, <1>2, <1>3 DEF Promise!Move

\* A row that moves, while no ledger closes, moves as the promise allows.
LEMMA RowMaps ==
    ASSUME Assured, Inductive, TypeOK', NEW r \in Rows, Onward(r), SameBurnt,
           \A u \in Rows \ {r} : req'[u] = req[u] /\ taken'[u] = taken[u]
    PROVE  Maps
<1>1. \A u \in Rows \ {r} : Stage(u)' = Stage(u)
  BY DEF Stage
<1>2. CASE req'[r].status = req[r].status /\ taken'[r] = taken[r]
  <2>1. Stage(r)' = Stage(r)
    BY <1>2 DEF Stage
  <2> QED
    BY <1>1, <2>1, Invisible
<1>3. CASE req[r].status = "absent" /\ req'[r].status = "requested"
  <2>1. Stage(r) = "open" /\ Stage(r)' = "open"
    BY <1>3 DEF Stage
  <2> QED
    BY <1>1, <2>1, Invisible
<1>4. CASE req[r].status = "requested" /\ req'[r].status = "failed" /\ taken[r] = 0 /\ taken'[r] = 0
  <2>1. Stage(r) = "open" /\ Stage(r)' = "refused"
    BY <1>4 DEF Stage
  <2> QED
    BY <1>1, <2>1, Moves DEF Maps, Promise!Next
<1>5. CASE req[r].status = "requested" /\ req'[r].status = "approved"
  <2>1. Stage(r) = "open" /\ Stage(r)' = "reserved"
    BY <1>5 DEF Stage
  <2> QED
    BY <1>1, <2>1, Moves DEF Maps, Promise!Next
<1>6. CASE /\ req[r].status = "approved" /\ req'[r].status = "completed"
           /\ req[r].hash # NoHash /\ Landed(req[r].hash)
  <2>1. Stage(r) = "reserved" /\ Stage(r)' = "paid"
    BY <1>6 DEF Stage
  <2>2. r \in {u \in Rows : LandedFor(u) # {}}
    BY <1>6, BurntIsShown
  <2> QED
    BY <1>1, <2>1, <2>2, Moves DEF Maps, Promise!Next
<1>7. CASE /\ req[r].status = "approved" /\ req'[r].status = "failed" /\ taken'[r] = 1
           /\ req[r].hash # NoHash => Dead(req[r].hash)
  <2>1. Stage(r) = "reserved" /\ Stage(r)' = "returned"
    BY <1>7 DEF Stage
  <2>2. r \notin {u \in Rows : LandedFor(u) # {}}
    BY <1>7, BurntIsShown DEF Dead, Landed
  <2> QED
    BY <1>1, <2>1, <2>2, Moves DEF Maps, Promise!Next
<1> QED
  BY <1>2, <1>3, <1>4, <1>5, <1>6, <1>7 DEF Onward

\* The ledger burns only what is reserved.
LEMMA LedgerMaps ==
    ASSUME Assured, Inductive, Inductive', LedgerCloses
    PROVE  Maps
<1>1. UNCHANGED <<req, taken>>
  BY DEF LedgerCloses, money
<1>2. PICK good \in SUBSET Hashes, bad \in SUBSET Hashes : CloseLedger(good, bad)
  BY DEF LedgerCloses
<1>3. \A h \in Hashes : \/ pay'[h] = pay[h]
                        \/ /\ pay[h].state = "submitted" /\ pay'[h].row = pay[h].row
                           /\ validated + 1 <= pay[h].last
                           /\ pay'[h].state \in {"tes", "tec"}
  BY <1>2, Facts, CloseLedgerEffect
<1>4. \A r \in Rows : LandedFor(r) \subseteq LandedFor(r)'
  BY <1>3 DEF LandedFor, SignedFor, Landed
<1> DEFINE rs == {r \in Rows : LandedFor(r) = {} /\ LandedFor(r)' # {}}
<1>5. ASSUME NEW r \in rs PROVE Stage(r) = "reserved"
  <2>1. PICK h \in Hashes : h \in LandedFor(r)' /\ h \notin LandedFor(r)
    BY <1>5 DEF LandedFor, SignedFor
  <2>2. /\ pay[h].state = "submitted" /\ pay[h].row = r /\ validated + 1 <= pay[h].last
    BY <1>3, <2>1 DEF LandedFor, SignedFor, Landed
  <2>3. h = req[r].hash /\ h # NoHash /\ RowOK(r) /\ validated \in Nat /\ pay[h].last \in Nat
    BY <1>5, <2>2, TheBurn, Facts DEF SignedFor, Payment
  <2>4. ~Dead(h) /\ ~Landed(h)
    BY <2>2, <2>3 DEF Dead, Landed
  <2>5. req[r].status = "approved"
    BY <2>3, <2>4 DEF RowOK
  <2> QED
    BY <2>5 DEF Stage
<1>6. rs \in SUBSET Rows /\ \A r \in rs : LandedFor(r) = {}
  OBVIOUS
<1>7. {r \in Rows : LandedFor(r) # {}}' = {r \in Rows : LandedFor(r) # {}} \cup rs
  <2>1. ASSUME NEW r \in Rows
        PROVE  LandedFor(r)' # {} <=> LandedFor(r) # {} \/ r \in rs
    BY <1>4
  <2> HIDE DEF rs
  <2> QED
    BY <1>6, <2>1
<1> HIDE DEF rs
<1>8. [r \in Rows |-> Stage(r)]' = [r \in Rows |-> Stage(r)]
  BY <1>1 DEF Stage
<1>9. Promise!Burn(rs)
  <2>1. \A r \in rs : /\ [u \in Rows |-> Stage(u)][r] = "reserved"
                      /\ r \notin {u \in Rows : LandedFor(u) # {}}
    BY <1>5, <1>6
  <2> QED
    BY <1>7, <1>8, <2>1 DEF Promise!Burn
<1> QED
  BY <1>6, <1>9 DEF Maps, Promise!Next

LEMMA StepMaps ==
    ASSUME Assured, Inductive, Inductive', [Next]_vars
    PROVE  Maps
<1>1. CASE LedgerCloses
  BY <1>1, LedgerMaps
<1>2. CASE ~LedgerCloses
  <2>1. SameBurnt
    BY <1>2, OthersBurnNothing
  <2>2. CASE UNCHANGED <<req, taken>>
    <3>1. \A r \in Rows : Stage(r)' = Stage(r)
      BY <2>2 DEF Stage
    <3> QED
      BY <2>1, <3>1, Invisible
  <2>3. ASSUME NEW r \in Rows, Onward(r),
               \A u \in Rows \ {r} : req'[u] = req[u] /\ taken'[u] = taken[u]
        PROVE  Maps
    BY <2>1, <2>3, RowMaps DEF Inductive
  <2> QED
    BY <2>2, <2>3, StepMoves DEF OneRow
<1> QED
  BY <1>1, <1>2

\* Approvals, jobs, sweeps, reconciliations and the ledger together implement the
\* promise: reserved, then burnt and paid out, or returned and never burnt.
THEOREM PromiseIsKept ==
    ASSUME SlowRpc = FALSE, LateRedisError = FALSE
    PROVE  Spec => ImplementsPromise
<1>1. Init => Promise!Init
  <2> SUFFICES ASSUME Init PROVE Promise!Init
    OBVIOUS
  <2>1. \A r \in Rows : Stage(r) = "open"
    BY DEF Init, NewRow, Stage
  <2>2. \A r \in Rows : LandedFor(r) = {}
    BY DEF Init, LedgerInit, LandedFor, SignedFor
  <2> QED
    BY <2>1, <2>2 DEF Promise!Init
<1>2. Inductive /\ Inductive' /\ [Next]_vars => [Promise!Next]_Promise!promiseVars
  BY StepMaps DEF Maps, Assured
<1> QED
  BY <1>1, <1>2, Invariant, PTL DEF Spec, ImplementsPromise, Promise!Spec
=============================================================================
