----------------------------- MODULE SettlementInv -----------------------------
(***************************************************************************)
(* The inductive invariant of Settlement: why its properties hold, action  *)
(* by action.  What needs a server whose ledger stands still while one     *)
(* admin request queries it says so (~SlowRpc): under SlowRpc a payment    *)
(* may land after all once it was taken for dead, and a reconciliation     *)
(* that found it then completes a row that has moved on.                   *)
(***************************************************************************)
EXTENDS Settlement

\* A job that has its row to itself; one that only requeues has handed it back.
Working(j) == j.at \notin {"idle", "requeue"}

\* What is known of a job j at each step.
JobOK(j) ==
    /\ j.at = "idle" <=> j.row = NoRow
    /\ Working(j) => /\ row[j.row].status \in {"processing", "completed"}
                     /\ ~SlowRpc => row[j.row].status = "processing"
    /\ j.at \in {"idle", "requeue", "provision", "lock", "sign", "retry"} => j.hash = NoHash
    /\ j.at \in {"provision", "lock", "sign", "retry"} /\ row[j.row].status = "processing" =>
          row[j.row].hash = NoHash
    /\ j.at = "sign" => j.first <= validated
    /\ j.at \in {"submit", "wait", "succeeded", "failed", "unknown"} =>
          /\ j.hash # NoHash /\ pay[j.hash].row = j.row /\ pay[j.hash].state # "unsigned"
          /\ row[j.row].status = "processing" => row[j.row].hash = j.hash
    /\ j.at = "submit" => pay[j.hash].state = "signed"
    /\ j.at = "wait" => pay[j.hash].state \in {"submitted", "tes", "tec"}
    /\ j.at = "succeeded" => pay[j.hash].state = "tes"

JobInv == \A w \in Workers : JobOK(job[w])

\* No two working jobs share a row, and a row that has grown old has no job.
OwnerInv ==
    /\ \A v, w \in Workers :
          Working(job[v]) /\ Working(job[w]) /\ job[v].row = job[w].row => v = w
    /\ \A t \in Rows : row[t].status = "processing" /\ row[t].old => NobodyOwns(t)

\* The ledger range that a row, or a snapshot of it, gives for a hash is the hash's own.
RangeOf(h, t, first, last) ==
    /\ pay[h].row = t
    /\ pay[h].state # "unsigned"
    /\ pay[h].last = last
    /\ first <= validated
    /\ pay[h].ledger > 0 => first <= pay[h].ledger

\* What is known of row t, which reads r and was credited c times.
RowOK(t, r, c) ==
    /\ r.status # "not_queued" => r.cashin = "received"
    /\ r.status \in {"not_queued", "queued"} => r.hash = NoHash
    /\ r.hash # NoHash /\ (~SlowRpc \/ r.status # "completed") =>
          RangeOf(r.hash, t, r.first, r.last)
    /\ r.status = "completed" => r.hash # NoHash /\ (~SlowRpc => Landed(r.hash))
    /\ c = IF r.status = "completed" THEN 1 ELSE 0
    /\ \A e \in r.archive : RangeOf(e.hash, t, e.first, e.last) /\ (~SlowRpc => Dead(e.hash))

RowInv == \A t \in Rows : RowOK(t, row[t], credited[t])

\* Row r shows hash h, as its own or in its archive.
Shows(r, h) == r.hash = h \/ \E e \in r.archive : e.hash = h

\* Every signed payment is of a funded row, which shows it; ledgers respect
\* LastLedgerSequence.
PayOK(h) ==
    /\ pay[h].state # "unsigned" =>
          /\ pay[h].row \in Rows
          /\ row[pay[h].row].cashin = "received"
          /\ ~SlowRpc => Shows(row[pay[h].row], h)
    /\ pay[h].state \in {"tes", "tec"} <=> pay[h].ledger > 0
    /\ pay[h].ledger <= pay[h].last
    /\ pay[h].ledger <= validated

PayInv == \A h \in Hashes : PayOK(h)

\* A request that decides about a row it has read (the others only publish).
Deciding(s) == s.at \in {"lookup", "latest", "range", "reset", "reconcile"}

\* What a request s knows for good ...
RequestOK(s) ==
    /\ s.at = "idle" <=> s.row = NoRow
    /\ Deciding(s) => s.from \in {"failed", "processing"}
    /\ Deciding(s) /\ s.hash # NoHash => RangeOf(s.hash, s.row, s.first, s.last)
    /\ s.at \in {"lookup", "latest", "range", "reconcile"} => s.hash # NoHash
    /\ ~SlowRpc /\ s.at \in {"latest", "range"} => ~Sees(s.hash)
    /\ s.at = "range" => s.last < validated
    /\ ~SlowRpc /\ s.at = "reset" /\ s.hash # NoHash => Dead(s.hash)
    /\ s.at = "reconcile" => Landed(s.hash)

\* ... that no worker pursues the payment it decides about ...
Undisputed(s) ==
    Deciding(s) /\ s.hash # NoHash => \A w \in Workers : job[w].hash # s.hash

\* ... and how much still holds of what it read, if nobody has written the row since.
FreshOK(s) ==
    Deciding(s) /\ s.fresh =>
        /\ s.hash = row[s.row].hash
        /\ s.from = row[s.row].status
        /\ \A w \in Workers : Working(job[w]) => job[w].row # s.row

SessionInv ==
    \A a \in Admins : RequestOK(session[a]) /\ Undisputed(session[a]) /\ FreshOK(session[a])

\* Whoever signs or waits for the treasury's payment holds the lock.
Signing(j) == j.at \in {"sign", "submit", "wait"}
LockInv == \A w \in Workers : Signing(job[w]) => lock = w

\* The conjunction is inductive: it holds initially, every step keeps it, and it
\* implies the safety invariants of Settlement (all of settlement_worker.py and of
\* cashin_service.retry_settlement).
Inductive ==
    TypeOK /\ JobInv /\ OwnerInv /\ RowInv /\ PayInv /\ SessionInv /\ LockInv
=============================================================================
