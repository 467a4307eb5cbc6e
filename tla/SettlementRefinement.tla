------------------------- MODULE SettlementRefinement -------------------------
(***************************************************************************)
(* What a step of Settlement may never undo, and that all its steps        *)
(* together implement the promise of RemittanceSpec, for every value of    *)
(* the constants: every step opens, funds, cancels, pays or credits a      *)
(* remittance as the promise allows, or is invisible to it.                *)
(***************************************************************************)
EXTENDS SettlementSafety

\* From a row that reads r to the same row that reads n, nothing is taken back.  (Under
\* SlowRpc the hash may be: by a late reconciliation of a payment archived before.)
Onward(r, n) ==
    /\ ~SlowRpc /\ r.hash # NoHash /\ n.hash # r.hash => \E e \in n.archive : e.hash = r.hash
    /\ r.status = "completed" => n.status = "completed"
    /\ r.cashin \in {"received", "failed"} => n.cashin = r.cashin
    /\ r.archive \subseteq n.archive

AllOnward == \A t \in Rows : Onward(row[t], row'[t])

\* What the promise sees of a step.
SameCash  == \A t \in Rows : row'[t].cashin = row[t].cashin
SameFunds == \A t \in Rows : LandedFor(t)' = LandedFor(t)

Maps == Promise!Next \/ UNCHANGED Promise!promiseVars

-----------------------------------------------------------------------------
(* The kinds of step.                                                      *)

LEMMA SameRowOnward == ASSUME NEW r PROVE Onward(r, r)
BY DEF Onward

LEMMA StillRows == UNCHANGED row => AllOnward /\ SameCash
BY SameRowOnward DEF AllOnward, SameCash

LEMMA StillFunds == UNCHANGED pay => SameFunds
BY DEF SameFunds, LandedFor, Landed

LEMMA Invisible ==
    ASSUME SameCash, SameFunds, UNCHANGED credited
    PROVE  Maps
<1>1. [t \in Rows |-> row[t].cashin]' = [t \in Rows |-> row[t].cashin]
  BY DEF SameCash
<1>2. [t \in Rows |-> LandedFor(t)]' = [t \in Rows |-> LandedFor(t)]
  BY DEF SameFunds
<1> QED
  BY <1>1, <1>2 DEF Maps, Promise!promiseVars

\* One UPDATE of a row.
LEMMA WriteOnward ==
    ASSUME TypeOK, NEW t \in Rows, NEW new \in TableRow, Write(t, new), Onward(row[t], new)
    PROVE  AllOnward
<1>1. /\ \A u \in Rows \ {t} : row'[u] = row[u]
      /\ row'[t].cashin = new.cashin /\ row'[t].status = new.status
      /\ row'[t].hash = new.hash /\ row'[t].archive = new.archive
  BY WriteEffect
<1>2. Onward(row[t], row'[t])
  BY <1>1 DEF Onward
<1> QED
  BY <1>1, <1>2, SameRowOnward DEF AllOnward

LEMMA WriteCash ==
    ASSUME TypeOK, NEW t \in Rows, NEW new \in TableRow, Write(t, new)
    PROVE  /\ \A u \in Rows \ {t} : row'[u].cashin = row[u].cashin
           /\ row'[t].cashin = new.cashin
BY WriteEffect

LEMMA WriteInvisible ==
    ASSUME TypeOK, NEW t \in Rows, NEW new \in TableRow, Write(t, new), SameFunds,
           UNCHANGED credited, new.cashin = row[t].cashin
    PROVE  Maps
BY WriteCash, Invisible DEF SameCash

\* The promise's actions, from what a step does to the rows.
LEMMA Opens ==
    ASSUME NEW t \in Rows, row[t].cashin = "absent", row'[t].cashin \in {"pending", "failed"},
           \A u \in Rows \ {t} : row'[u].cashin = row[u].cashin,
           SameFunds, UNCHANGED credited
    PROVE  Maps
<1>1. Promise!Open(t)
  BY DEF Promise!Open, SameFunds
<1> QED
  BY <1>1 DEF Maps, Promise!Next

LEMMA Funds ==
    ASSUME NEW t \in Rows, row[t].cashin = "pending", row'[t].cashin = "received",
           \A u \in Rows \ {t} : row'[u].cashin = row[u].cashin,
           SameFunds, UNCHANGED credited
    PROVE  Maps
<1>1. Promise!Fund(t)
  BY DEF Promise!Fund, SameFunds
<1> QED
  BY <1>1 DEF Maps, Promise!Next

LEMMA Cancels ==
    ASSUME NEW ts \in SUBSET Rows,
           \A t \in ts : row[t].cashin = "pending" /\ row'[t].cashin = "failed",
           \A u \in Rows \ ts : row'[u].cashin = row[u].cashin,
           SameFunds, UNCHANGED credited
    PROVE  Maps
<1>1. Promise!Cancel(ts)
  BY DEF Promise!Cancel, SameFunds
<1> QED
  BY <1>1 DEF Maps, Promise!Next

LEMMA Credits ==
    ASSUME TypeOK, NEW t \in Rows, LandedFor(t) # {}, credited[t] = 0,
           credited' = [credited EXCEPT ![t] = @ + 1], SameCash, SameFunds
    PROVE  Maps
<1>1. credited' = [credited EXCEPT ![t] = 1]
  BY DEF TypeOK
<1>2. Promise!Credit(t)
  BY <1>1 DEF Promise!Credit, SameFunds, SameCash
<1> QED
  BY <1>2 DEF Maps, Promise!Next

-----------------------------------------------------------------------------
(* The sender's side and the clock.                                        *)

LEMMA CashInSteps ==
    ASSUME TypeOK, Inductive, NEW t \in Rows,
           \/ CreateRemittance(t) \/ MarkCashinFailed(t) \/ SetAmlFlag(t) \/ GrowOld(t)
           \/ \E a \in Admins : MarkCashinReceived(a, t)
    PROVE  AllOnward /\ Maps
<1>1. row[t] \in TableRow /\ RowOK(t, row[t], credited[t])
  BY DEF TypeOK, Inductive, RowInv
<1>2. CASE CreateRemittance(t)
  <2>1. PICK c \in {"pending", "failed"} : row' = [row EXCEPT ![t] = [@ EXCEPT !.cashin = c]]
    BY <1>2 DEF CreateRemittance
  <2>2. /\ row'[t].cashin = c /\ row'[t].status = row[t].status
        /\ row'[t].hash = row[t].hash /\ row'[t].archive = row[t].archive
        /\ \A u \in Rows \ {t} : row'[u] = row[u]
    BY <1>1, <2>1 DEF TypeOK, TableRow
  <2>3. row[t].cashin = "absent" /\ UNCHANGED <<credited, pay>>
    BY <1>2 DEF CreateRemittance, ledgerVars
  <2>4. AllOnward
    BY <2>2, <2>3, SameRowOnward DEF AllOnward, Onward
  <2>5. Maps
    BY <2>2, <2>3, StillFunds, Opens
  <2> QED
    BY <2>4, <2>5
<1>3. ASSUME NEW a \in Admins, MarkCashinReceived(a, t) PROVE AllOnward /\ Maps
  <2> DEFINE new == [row[t] EXCEPT !.cashin = "received", !.status = "queued"]
  <2>1. /\ new \in TableRow /\ new.cashin = "received" /\ new.hash = row[t].hash
        /\ new.archive = row[t].archive
    BY <1>1, RowTypes DEF TableRow
  <2>2. row[t].cashin = "pending" /\ Write(t, new) /\ UNCHANGED <<credited, pay>>
    BY <1>3 DEF MarkCashinReceived, ledgerVars
  <2>3. row[t].status = "not_queued"
    BY <1>1, <2>2 DEF RowOK
  <2> HIDE DEF new
  <2>4. Onward(row[t], new)
    BY <2>1, <2>2, <2>3 DEF Onward
  <2>5. AllOnward
    BY <2>1, <2>2, <2>4, WriteOnward
  <2>6. Maps
    BY <2>1, <2>2, WriteCash, StillFunds, Funds
  <2> QED
    BY <2>5, <2>6
<1>4. CASE MarkCashinFailed(t)
  <2> DEFINE new == [row[t] EXCEPT !.cashin = "failed"]
  <2>1. /\ new \in TableRow /\ new.cashin = "failed" /\ new.hash = row[t].hash
        /\ new.archive = row[t].archive /\ new.status = row[t].status
    BY <1>1 DEF TableRow, CashIn
  <2>2. row[t].cashin = "pending" /\ Write(t, new) /\ UNCHANGED <<credited, pay>>
    BY <1>4 DEF MarkCashinFailed, ledgerVars
  <2> HIDE DEF new
  <2>3. AllOnward
    BY <2>1, <2>2, WriteOnward DEF Onward
  <2>4. /\ \A u \in {t} : row[u].cashin = "pending" /\ row'[u].cashin = "failed"
        /\ \A u \in Rows \ {t} : row'[u].cashin = row[u].cashin
    BY <2>1, <2>2, WriteCash
  <2>5. Maps
    BY <2>2, <2>4, StillFunds, Cancels
  <2> QED
    BY <2>3, <2>5
<1>5. CASE SetAmlFlag(t)
  <2>1. Write(t, row[t]) /\ UNCHANGED <<credited, pay>>
    BY <1>5 DEF SetAmlFlag, ledgerVars
  <2> QED
    BY <1>1, <2>1, SameRowOnward, WriteOnward, StillFunds, WriteInvisible
<1>6. CASE GrowOld(t)
  <2>1. row' = [row EXCEPT ![t] = [@ EXCEPT !.old = TRUE]] /\ UNCHANGED <<credited, pay>>
    BY <1>6 DEF GrowOld, ledgerVars
  <2>2. /\ row'[t].cashin = row[t].cashin /\ row'[t].status = row[t].status
        /\ row'[t].hash = row[t].hash /\ row'[t].archive = row[t].archive
        /\ \A u \in Rows \ {t} : row'[u] = row[u]
    BY <1>1, <2>1 DEF TypeOK, TableRow
  <2>3. AllOnward
    BY <2>2, SameRowOnward DEF AllOnward, Onward
  <2>4. SameCash
    BY <2>2 DEF SameCash
  <2> QED
    BY <2>1, <2>3, <2>4, StillFunds, Invisible
<1> QED
  BY <1>2, <1>3, <1>4, <1>5, <1>6

LEMMA ExpiryStep ==
    ASSUME TypeOK, NEW stale \in SUBSET Rows, ExpireStaleCashins(stale)
    PROVE  AllOnward /\ Maps
<1>1. UNCHANGED <<credited, pay>> /\ \A t \in stale : row[t].cashin = "pending"
  BY DEF ExpireStaleCashins, ledgerVars
<1>2. ASSUME NEW t \in stale
      PROVE  /\ row'[t].cashin = "failed" /\ row'[t].status = row[t].status
             /\ row'[t].hash = row[t].hash /\ row'[t].archive = row[t].archive
  BY DEF ExpireStaleCashins, TypeOK, TableRow
<1>3. \A u \in Rows \ stale : row'[u] = row[u]
  BY DEF ExpireStaleCashins
<1>4. AllOnward
  BY <1>1, <1>2, <1>3, SameRowOnward DEF AllOnward, Onward
<1>5. Maps
  BY <1>1, <1>2, <1>3, StillFunds, Cancels
<1> QED
  BY <1>4, <1>5

-----------------------------------------------------------------------------
(* The worker's job.                                                       *)

LEMMA ClaimMaps ==
    ASSUME TypeOK, NEW w \in Workers, NEW t \in Rows, Claim(w, t)
    PROVE  AllOnward /\ Maps
<1> DEFINE new == [row[t] EXCEPT !.status = "processing", !.attempts = @ + 1]
<1>1. row[t] \in TableRow
  BY DEF TypeOK
<1>2. /\ new \in TableRow /\ new.cashin = row[t].cashin /\ new.hash = row[t].hash
      /\ new.archive = row[t].archive
  BY <1>1, RowTypes DEF TableRow
<1>3. Write(t, new) /\ row[t].status = "queued" /\ UNCHANGED <<credited, pay>>
  BY DEF Claim, Claimable, ledgerVars
<1> HIDE DEF new
<1>4. Onward(row[t], new)
  BY <1>2, <1>3 DEF Onward
<1> QED
  BY <1>2, <1>3, <1>4, WriteOnward, StillFunds, WriteInvisible

LEMMA SignMaps ==
    ASSUME TypeOK, Inductive, NEW w \in Workers, NEW h \in Hashes, Sign(w, h)
    PROVE  AllOnward /\ Maps
<1>1. PICK t \in Rows : job[w].row = t
  BY DEF Sign, Inductive, JobInv, JobOK, TypeOK, Job
<1> DEFINE new == [row[t] EXCEPT !.hash = h, !.first = job[w].first, !.last = validated + Window]
<1>2. row[t] \in TableRow /\ job[w].first \in Nat /\ validated + Window \in Nat
  BY WindowAssumption DEF TypeOK, LedgerTypeOK, Job
<1>3. /\ new \in TableRow /\ new.cashin = row[t].cashin /\ new.status = row[t].status
      /\ new.archive = row[t].archive
  BY <1>2 DEF TableRow
<1>4. Write(t, new) /\ SignPayment(h, t) /\ UNCHANGED credited
  BY <1>1 DEF Sign
<1>5. ~SlowRpc => row[t].hash = NoHash
  BY <1>1 DEF Sign, Inductive, JobInv, JobOK, Working
<1> HIDE DEF new
<1>6. Onward(row[t], new)
  BY <1>3, <1>5 DEF Onward
<1>7. SameFunds
  BY <1>4, SignPaymentEffect DEF SameFunds, LandedFor, Landed
<1> QED
  BY <1>3, <1>4, <1>6, <1>7, WriteOnward, WriteInvisible

LEMMA SubmitMaps ==
    ASSUME TypeOK, Inductive, NEW w \in Workers, Submit(w)
    PROVE  AllOnward /\ Maps
<1>1. PICK h \in Hashes : job[w].hash = h
  BY DEF Submit, Inductive, JobInv, JobOK, TypeOK, Job
<1>2. pay[h].state = "signed" /\ UNCHANGED <<row, credited>>
  BY <1>1 DEF Submit, Inductive, JobInv, JobOK
<1>3. PICK s \in {"submitted", "void"} : SetState(h, s)
  BY <1>1 DEF Submit
<1>4. /\ \A k \in Hashes \ {h} : pay'[k] = pay[k]
      /\ pay'[h].state = s
  BY <1>2, <1>3, SetStateEffect
<1>5. SameFunds
  BY <1>2, <1>4 DEF SameFunds, LandedFor, Landed
<1> QED
  BY <1>2, <1>5, StillRows, Invisible

\* A job's last write, or none because the row is not processing any more.
LEMMA FinishMaps ==
    ASSUME TypeOK, NEW t \in Rows, NEW new \in TableRow, IfProcessing(t, new, 0), UNCHANGED pay,
           new.cashin = row[t].cashin, new.archive = row[t].archive,
           row[t].status = "processing" => new.hash = row[t].hash
    PROVE  AllOnward /\ Maps
<1>1. CASE row[t].status = "processing"
  <2>1. Write(t, new) /\ credited' = [credited EXCEPT ![t] = @ + 0]
    BY <1>1 DEF IfProcessing
  <2>2. credited' = credited
    BY <2>1 DEF TypeOK
  <2>3. Onward(row[t], new)
    BY <1>1 DEF Onward
  <2> QED
    BY <2>1, <2>2, <2>3, WriteOnward, StillFunds, WriteInvisible
<1>2. CASE row[t].status # "processing"
  BY <1>2, StillRows, StillFunds, Invisible DEF IfProcessing
<1> QED
  BY <1>1, <1>2

LEMMA CompleteSettlementMaps ==
    ASSUME TypeOK, Inductive, NEW w \in Workers, CompleteSettlement(w)
    PROVE  AllOnward /\ Maps
<1>1. PICK t \in Rows : job[w].row = t
  BY DEF CompleteSettlement, Inductive, JobInv, JobOK, TypeOK, Job
<1> DEFINE new == [row[t] EXCEPT !.status = "completed", !.hash = job[w].hash]
<1>2. /\ row[t] \in TableRow /\ job[w].hash \in Hashes \cup {NoHash}
      /\ RowOK(t, row[t], credited[t]) /\ JobOK(job[w]) /\ job[w].at = "succeeded"
  BY DEF CompleteSettlement, TypeOK, Job, Inductive, JobInv, RowInv
<1>3. /\ new \in TableRow /\ new.cashin = row[t].cashin /\ new.hash = job[w].hash
      /\ new.archive = row[t].archive /\ new.status = "completed"
  BY <1>2 DEF TableRow, Settlements
<1>4. IfProcessing(t, new, 1) /\ UNCHANGED pay
  BY <1>1 DEF CompleteSettlement, ledgerVars
<1>5. /\ row[t].status = "processing" => row[t].hash = job[w].hash
      /\ job[w].hash # NoHash /\ pay[job[w].hash].row = t /\ pay[job[w].hash].state = "tes"
  BY <1>1, <1>2 DEF JobOK
<1>6. job[w].hash \in LandedFor(t)
  BY <1>2, <1>5 DEF LandedFor, Landed
<1> HIDE DEF new
<1>7. CASE row[t].status = "processing"
  <2>1. Write(t, new) /\ credited' = [credited EXCEPT ![t] = @ + 1]
    BY <1>4, <1>7 DEF IfProcessing
  <2>2. credited[t] = 0
    BY <1>2, <1>7 DEF RowOK
  <2>3. Onward(row[t], new)
    BY <1>3, <1>5, <1>7 DEF Onward
  <2>4. SameCash
    BY <1>3, <2>1, WriteCash DEF SameCash
  <2>5. Maps
    BY <1>4, <1>6, <2>1, <2>2, <2>4, StillFunds, Credits
  <2> QED
    BY <1>3, <2>1, <2>3, <2>5, WriteOnward
<1>8. CASE row[t].status # "processing"
  BY <1>4, <1>8, StillRows, StillFunds, Invisible DEF IfProcessing
<1> QED
  BY <1>7, <1>8

LEMMA FailMaps ==
    ASSUME TypeOK, Inductive, NEW w \in Workers, FailSigned(w) \/ FailUnsigned(w) \/ HandBack(w)
    PROVE  AllOnward /\ Maps
<1>1. PICK t \in Rows : job[w].row = t
  BY DEF FailSigned, FailUnsigned, HandBack, Inductive, JobInv, JobOK, TypeOK, Job
<1>2. /\ row[t] \in TableRow /\ job[w].hash \in Hashes \cup {NoHash} /\ JobOK(job[w])
  BY DEF TypeOK, Job, Inductive, JobInv
<1>3. CASE FailSigned(w)
  <2> DEFINE new == [row[t] EXCEPT !.status = "failed", !.hash = job[w].hash]
  <2>1. /\ new \in TableRow /\ new.cashin = row[t].cashin /\ new.hash = job[w].hash
        /\ new.archive = row[t].archive
    BY <1>2 DEF TableRow, Settlements
  <2>2. /\ IfProcessing(t, new, 0) /\ UNCHANGED pay
        /\ row[t].status = "processing" => row[t].hash = job[w].hash
    BY <1>1, <1>2, <1>3 DEF FailSigned, ledgerVars, JobOK
  <2> HIDE DEF new
  <2> QED
    BY <2>1, <2>2, FinishMaps
<1>4. CASE FailUnsigned(w) \/ HandBack(w)
  <2>1. PICK s \in {"failed", "queued"} :
           IfProcessing(t, [row[t] EXCEPT !.status = s], 0) /\ UNCHANGED pay
    BY <1>1, <1>4 DEF FailUnsigned, HandBack, ledgerVars
  <2> DEFINE new == [row[t] EXCEPT !.status = s]
  <2>2. /\ new \in TableRow /\ new.cashin = row[t].cashin /\ new.hash = row[t].hash
        /\ new.archive = row[t].archive
    BY <1>2 DEF TableRow, Settlements
  <2>3. IfProcessing(t, new, 0)
    BY <2>1
  <2> HIDE DEF new
  <2> QED
    BY <2>1, <2>2, <2>3, FinishMaps
<1> QED
  BY <1>3, <1>4

LEMMA JobMaps ==
    ASSUME TypeOK, Inductive, NEW w \in Workers, JobSteps(w) \/ Crash(w)
    PROVE  AllOnward /\ Maps
<1>1. CASE \/ Provisioned(w) \/ AcquireLock(w) \/ Observe(w) \/ LoseSight(w)
           \/ FailTransiently(w) \/ Requeue(w) \/ Crash(w)
  <2>1. UNCHANGED <<row, credited, pay>>
    BY <1>1 DEF Provisioned, AcquireLock, Observe, LoseSight, FailTransiently, Requeue, Crash,
                ledgerVars
  <2> QED
    BY <2>1, StillRows, StillFunds, Invisible
<1> QED
  BY <1>1, SignMaps, SubmitMaps, CompleteSettlementMaps, FailMaps DEF JobSteps

-----------------------------------------------------------------------------
(* The admin's retry.                                                      *)

LEMMA ResetMaps ==
    ASSUME TypeOK, Inductive, NEW a \in Admins, Reset(a)
    PROVE  AllOnward /\ Maps
<1>1. /\ session[a].at = "reset" /\ UNCHANGED <<credited, pay>>
      /\ RequestOK(session[a]) /\ FreshOK(session[a]) /\ session[a] \in Request
  BY DEF Reset, ledgerVars, Inductive, SessionInv, TypeOK
<1>2. PICK t \in Rows : session[a].row = t
  BY <1>1 DEF RequestOK, Request
<1>3. CASE row[t].status = session[a].from /\ session[a].fresh
  <2> DEFINE arch == ArchivedAttempts(a)
             new == [row[t] EXCEPT !.status = "queued", !.attempts = 0, !.hash = NoHash,
                                   !.first = 0, !.last = 0, !.archive = arch]
  <2>1. /\ session[a].from \in {"failed", "processing"} /\ session[a].hash = row[t].hash
    BY <1>1, <1>2, <1>3 DEF RequestOK, FreshOK, Deciding
  <2>2. row[t] \in TableRow /\ session[a].first \in Nat /\ session[a].last \in Nat
    BY <1>1 DEF TypeOK, Request
  <2>3. /\ arch \in SUBSET Attempt /\ row[t].archive \subseteq arch
        /\ row[t].hash # NoHash => \E e \in arch : e.hash = row[t].hash
    <3> DEFINE e == [hash |-> row[t].hash, first |-> session[a].first, last |-> session[a].last]
    <3>1. arch = IF row[t].hash = NoHash THEN row[t].archive ELSE row[t].archive \cup {e}
      BY <1>2, <2>1 DEF ArchivedAttempts
    <3>2. /\ row[t].archive \in SUBSET Attempt /\ e.hash = row[t].hash
          /\ row[t].hash # NoHash => e \in Attempt
      BY <2>2 DEF TableRow, Attempt
    <3> HIDE DEF e, arch
    <3> QED
      BY <3>1, <3>2
  <2>4. Write(t, new)
    BY <1>2, <1>3 DEF Reset
  <2> HIDE DEF arch
  <2>5. /\ new \in TableRow /\ new.cashin = row[t].cashin /\ new.hash = NoHash
        /\ new.archive = arch
    BY <2>2, <2>3 DEF TableRow, Settlements
  <2> HIDE DEF new
  <2>6. Onward(row[t], new)
    BY <1>3, <2>1, <2>3, <2>5 DEF Onward
  <2> QED
    BY <1>1, <2>4, <2>5, <2>6, WriteOnward, StillFunds, WriteInvisible
<1>4. CASE ~(row[t].status = session[a].from /\ session[a].fresh)
  <2>1. UNCHANGED row
    BY <1>2, <1>4 DEF Reset
  <2> QED
    BY <1>1, <2>1, StillRows, StillFunds, Invisible
<1> QED
  BY <1>3, <1>4

LEMMA ReconcileMaps ==
    ASSUME TypeOK, Inductive, NEW a \in Admins, Reconcile(a)
    PROVE  AllOnward /\ Maps
<1>1. /\ session[a].at = "reconcile" /\ UNCHANGED pay
      /\ RequestOK(session[a]) /\ session[a] \in Request
  BY DEF Reconcile, ledgerVars, Inductive, SessionInv, TypeOK
<1>2. PICK t \in Rows : session[a].row = t
  BY <1>1 DEF RequestOK, Request
<1>3. CASE row[t].status = session[a].from
  <2> DEFINE h == session[a].hash
             new == [row[t] EXCEPT !.status = "completed", !.hash = h]
  <2>1. /\ row[t].status \in {"failed", "processing"} /\ h # NoHash /\ Landed(h)
        /\ RangeOf(h, t, session[a].first, session[a].last)
    BY <1>1, <1>2, <1>3 DEF RequestOK, Deciding
  <2>2. row[t] \in TableRow /\ h \in Hashes
    BY <1>1, <2>1 DEF TypeOK, Request
  <2>3. h \in LandedFor(t)
    BY <2>1, <2>2 DEF RangeOf, LandedFor
  <2>4. ~SlowRpc => row[t].hash = h
    BY <2>3, LandedIsLive
  <2>5. credited[t] = 0
    BY <2>1 DEF Inductive, RowInv, RowOK
  <2>6. Write(t, new) /\ credited' = [credited EXCEPT ![t] = @ + 1]
    BY <1>2, <1>3 DEF Reconcile
  <2> HIDE DEF h
  <2>7. /\ new \in TableRow /\ new.cashin = row[t].cashin /\ new.hash = h
        /\ new.archive = row[t].archive /\ new.status = "completed"
    BY <2>2 DEF TableRow, Settlements
  <2> HIDE DEF new
  <2>8. Onward(row[t], new)
    BY <2>4, <2>7 DEF Onward
  <2>9. SameCash
    BY <2>6, <2>7, WriteCash DEF SameCash
  <2> QED
    BY <1>1, <2>3, <2>5, <2>6, <2>7, <2>8, <2>9, WriteOnward, StillFunds, Credits
<1>4. CASE row[t].status # session[a].from
  <2>1. UNCHANGED <<row, credited>>
    BY <1>2, <1>4 DEF Reconcile
  <2> QED
    BY <1>1, <2>1, StillRows, StillFunds, Invisible
<1> QED
  BY <1>3, <1>4

LEMMA UnpublishMaps ==
    ASSUME TypeOK, Inductive, NEW a \in Admins, Unpublish(a)
    PROVE  AllOnward /\ Maps
<1>1. /\ session[a].at = "unpublish" /\ UNCHANGED <<credited, pay>>
      /\ RequestOK(session[a]) /\ session[a] \in Request
  BY DEF Unpublish, ledgerVars, Inductive, SessionInv, TypeOK
<1>2. PICK t \in Rows : session[a].row = t
  BY <1>1 DEF RequestOK, Request
<1>3. CASE row[t].status = "queued"
  <2> DEFINE new == [row[t] EXCEPT !.status = "failed"]
  <2>1. row[t] \in TableRow
    BY DEF TypeOK
  <2>2. /\ new \in TableRow /\ new.cashin = row[t].cashin /\ new.hash = row[t].hash
        /\ new.archive = row[t].archive
    BY <2>1 DEF TableRow, Settlements
  <2>3. Write(t, new)
    BY <1>2, <1>3 DEF Unpublish
  <2> HIDE DEF new
  <2>4. Onward(row[t], new)
    BY <1>3, <2>2 DEF Onward
  <2> QED
    BY <1>1, <2>2, <2>3, <2>4, WriteOnward, StillFunds, WriteInvisible
<1>4. CASE row[t].status # "queued"
  <2>1. UNCHANGED row
    BY <1>2, <1>4 DEF Unpublish
  <2> QED
    BY <1>1, <2>1, StillRows, StillFunds, Invisible
<1> QED
  BY <1>3, <1>4

LEMMA RequestMaps ==
    ASSUME TypeOK, Inductive, NEW a \in Admins, RequestSteps(a) \/ Abort(a)
    PROVE  AllOnward /\ Maps
<1>1. CASE LookUp(a) \/ CheckLatest(a) \/ CheckRange(a) \/ Publish(a) \/ PublishRaises(a) \/ Abort(a)
  <2>1. UNCHANGED <<row, credited, pay>>
    BY <1>1 DEF LookUp, CheckLatest, CheckRange, Publish, PublishRaises, Abort, ledgerVars
  <2> QED
    BY <2>1, StillRows, StillFunds, Invisible
<1> QED
  BY <1>1, ResetMaps, ReconcileMaps, UnpublishMaps DEF RequestSteps

-----------------------------------------------------------------------------
(* The ledger: it pays whom it had not paid before, because no two         *)
(* payments of one remittance ever land.                                   *)

LEMMA OneLandsNext == ASSUME ~SlowRpc PROVE Inductive' => NoDoublePayment'
<1>1. Inductive => NoDoublePayment
  BY LandedIsLive DEF Inductive, NoDoublePayment
<1> QED
  BY <1>1, PTL

LEMMA LedgerMaps ==
    ASSUME ~SlowRpc, TypeOK, Inductive, TypeOK', Inductive', LedgerCloses
    PROVE  Maps
<1>1. UNCHANGED <<row, credited>> /\ SameCash
  BY StillRows DEF LedgerCloses
<1>2. PICK good \in SUBSET Hashes, bad \in SUBSET Hashes : CloseLedger(good, bad)
  BY DEF LedgerCloses
<1>3. \A h \in Hashes : \/ pay'[h] = pay[h]
                        \/ pay[h].state = "submitted" /\ pay'[h].row = pay[h].row
  BY <1>2, CloseLedgerEffect
<1>4. \A t \in Rows : LandedFor(t) \subseteq LandedFor(t)'
  BY <1>3 DEF LandedFor, Landed
<1> DEFINE ts == {t \in Rows : LandedFor(t)' # LandedFor(t)}
<1>5. ASSUME NEW t \in ts
      PROVE  /\ row[t].cashin = "received" /\ LandedFor(t) = {}
             /\ \E h \in Hashes : LandedFor(t)' = {h}
  <2>1. PICK h \in Hashes : h \in LandedFor(t)' /\ h \notin LandedFor(t)
    BY <1>4, <1>5 DEF LandedFor
  <2>2. LandedFor(t)' = {h}
    BY <1>5, <2>1, OneLandsNext DEF NoDoublePayment
  <2>3. LandedFor(t) = {}
    BY <1>4, <2>1, <2>2
  <2>4. pay[h].state = "submitted" /\ pay[h].row = t
    BY <1>3, <2>1 DEF LandedFor, Landed
  <2>5. row[t].cashin = "received"
    BY <2>4 DEF Inductive, PayInv, PayOK
  <2> QED
    BY <2>2, <2>3, <2>5
<1>6. \A t \in Rows \ ts : LandedFor(t)' = LandedFor(t)
  OBVIOUS
<1>7. ts \in SUBSET Rows
  OBVIOUS
<1>8. PICK p \in [ts -> Hashes] : \A t \in ts : LandedFor(t)' = {p[t]}
  <2> DEFINE only(t) == CHOOSE h \in Hashes : LandedFor(t)' = {h}
  <2>1. \A t \in ts : only(t) \in Hashes /\ LandedFor(t)' = {only(t)}
    BY <1>5
  <2> HIDE DEF only
  <2>2. [t \in ts |-> only(t)] \in [ts -> Hashes]
    BY <2>1
  <2>3. \A t \in ts : LandedFor(t)' = {[u \in ts |-> only(u)][t]}
    BY <2>1
  <2> QED
    BY <2>2, <2>3
<1> HIDE DEF ts
<1>9. Promise!Pay(ts)
  <2>1. [t \in Rows |-> LandedFor(t)]'
           = [t \in Rows |-> IF t \in ts THEN {p[t]} ELSE [u \in Rows |-> LandedFor(u)][t]]
    BY <1>6, <1>8
  <2>2. [t \in Rows |-> row[t].cashin]' = [t \in Rows |-> row[t].cashin]
    BY <1>1
  <2>3. \A t \in ts : /\ [u \in Rows |-> row[u].cashin][t] = "received"
                      /\ [u \in Rows |-> LandedFor(u)][t] = {}
    BY <1>5, <1>7
  <2> QED
    BY <1>1, <1>8, <2>1, <2>2, <2>3 DEF Promise!Pay
<1> QED
  BY <1>1, <1>7, <1>9 DEF Maps, Promise!Next

-----------------------------------------------------------------------------
(* Every step.                                                             *)

LEMMA StepMaps ==
    ASSUME TypeOK, Inductive, TypeOK', Inductive', [Next]_vars
    PROVE  AllOnward /\ (~SlowRpc \/ ~LedgerCloses => Maps)
<1>1. ASSUME NEW t \in Rows, Deliver(t) PROVE AllOnward /\ Maps
  <2>1. ASSUME NEW w \in Workers, Skip(w, t) PROVE AllOnward /\ Maps
    BY <2>1, StillRows, StillFunds, Invisible DEF Skip, ledgerVars
  <2> QED
    BY <1>1, <2>1, ClaimMaps DEF Deliver
<1>2. ASSUME NEW t \in Rows, LoseMessage(t) PROVE AllOnward /\ Maps
  BY <1>2, StillRows, StillFunds, Invisible DEF LoseMessage, ledgerVars
<1>3. ASSUME NEW t \in Rows, NEW a \in Admins, StartRequeue(a, t) \/ StartRetry(a, t)
      PROVE  AllOnward /\ Maps
  BY <1>3, StillRows, StillFunds, Invisible DEF StartRequeue, StartRetry, ledgerVars
<1>4. CASE LockExpires \/ ServerBackfills \/ UNCHANGED vars
  <2>1. UNCHANGED <<row, credited, pay>>
    BY <1>4 DEF LockExpires, ServerBackfills, Backfill, vars, ledgerVars
  <2> QED
    BY <2>1, StillRows, StillFunds, Invisible
<1>5. CASE LedgerCloses
  <2>1. AllOnward
    BY <1>5, StillRows DEF LedgerCloses
  <2> QED
    BY <1>5, <2>1, LedgerMaps
<1> QED
  BY <1>1, <1>2, <1>3, <1>4, <1>5, CashInSteps, ExpiryStep, JobMaps, RequestMaps DEF Next

\* The hash a row shows is replaced only by archiving it in the same write
\* (_archived_attempts, reset_settlement).
THEOREM HashesAreKept == ASSUME SlowRpc = FALSE PROVE Spec => HashIsKept
<1> DEFINE Kept == \A t \in Rows :
              row[t].hash # NoHash /\ row'[t].hash # row[t].hash =>
                  \E e \in row'[t].archive : e.hash = row[t].hash
<1>1. TypeOK /\ Inductive /\ TypeOK' /\ Inductive' /\ [Next]_vars => Kept
  BY StepMaps DEF AllOnward, Onward
<1> QED
  BY <1>1, TypeCorrect, Invariant, PTL DEF Spec, HashIsKept

\* No step takes a row back: not its completion, not its cash-in decision, not an
\* archived attempt (the conditional UPDATEs of SettlementRepo and RemittanceRepo).
THEOREM NothingIsTakenBack == Spec => ForwardOnly
<1> DEFINE Forward == \A t \in Rows :
              /\ row[t].status = "completed" => row'[t].status = "completed"
              /\ row[t].cashin \in {"received", "failed"} => row'[t].cashin = row[t].cashin
              /\ row[t].archive \subseteq row'[t].archive
<1>1. TypeOK /\ Inductive /\ TypeOK' /\ Inductive' /\ [Next]_vars => Forward
  BY StepMaps DEF AllOnward, Onward
<1> QED
  BY <1>1, TypeCorrect, Invariant, PTL DEF Spec, ForwardOnly

\* Jobs, messages, retries, reconciliations and the ledger together implement the
\* promise: money in or cancelled, paid at most once, credited at most once and after
\* the payment (process_settlement, retry_settlement, complete_settlement).
THEOREM PromiseIsKept == ASSUME SlowRpc = FALSE PROVE Spec => ImplementsPromise
<1>1. Init => Promise!Init
  BY DEF Init, NewRow, LedgerInit, LandedFor, Landed, Promise!Init
<1>2. TypeOK /\ Inductive /\ TypeOK' /\ Inductive' /\ [Next]_vars => [Promise!Next]_Promise!promiseVars
  BY StepMaps DEF Maps
<1> QED
  BY <1>1, <1>2, TypeCorrect, Invariant, PTL DEF Spec, ImplementsPromise, Promise!Spec
=============================================================================
