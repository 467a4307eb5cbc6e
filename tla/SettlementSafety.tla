--------------------------- MODULE SettlementSafety ---------------------------
(***************************************************************************)
(* The types of Settlement, its inductive invariant, for every number of   *)
(* rows, workers, admin requests, hashes, ledgers and faults, and the      *)
(* safety properties that follow from it.                                  *)
(***************************************************************************)
EXTENDS SettlementInv, TLAPS

-----------------------------------------------------------------------------
(* The building blocks keep the types of what they write.                  *)

LEMMA WriteType ==
    ASSUME TypeOK, NEW t, NEW new, t \in Rows => new \in TableRow, Write(t, new)
    PROVE  row' \in [Rows -> TableRow]
<1>1. t \in Rows => [new EXCEPT !.old = FALSE] \in TableRow
  BY DEF TableRow
<1> QED
  BY <1>1 DEF Write, TypeOK

LEMMA OutdateType ==
    ASSUME TypeOK, NEW t, Outdate(t)
    PROVE  session' \in [Admins -> Request]
BY DEF Outdate, TypeOK, Request

LEMMA BlankRequest ==
    /\ IdleRequest \in Request
    /\ \A s \in RequestStep, t \in Rows : [IdleRequest EXCEPT !.at = s, !.row = t] \in Request
BY DEF IdleRequest, Request, RequestStep, Settlements

LEMMA OutdateAndGoType ==
    ASSUME TypeOK, NEW t \in Rows, NEW a \in Admins, NEW s \in RequestStep, OutdateAndGo(t, a, s)
    PROVE  session' \in [Admins -> Request]
<1>1. \A b \in Admins : [session[b] EXCEPT !.fresh = FALSE] \in Request
  BY DEF TypeOK, Request
<1> QED
  BY <1>1, BlankRequest DEF OutdateAndGo, TypeOK

LEMMA OutdateAndEndType ==
    ASSUME TypeOK, NEW t, NEW a \in Admins, OutdateAndEnd(t, a)
    PROVE  session' \in [Admins -> Request]
<1>1. \A b \in Admins : [session[b] EXCEPT !.fresh = FALSE] \in Request
  BY DEF TypeOK, Request
<1> QED
  BY <1>1, BlankRequest DEF OutdateAndEnd, TypeOK

LEMMA GotoType ==
    ASSUME TypeOK, NEW a \in Admins, NEW s \in RequestStep, Goto(a, s)
    PROVE  session' \in [Admins -> Request]
BY DEF Goto, TypeOK, Request

LEMMA EndType ==
    ASSUME TypeOK, NEW a \in Admins, End(a)
    PROVE  session' \in [Admins -> Request]
BY BlankRequest DEF End, TypeOK

LEMMA JobToType ==
    ASSUME TypeOK, NEW w \in Workers, NEW s \in JobStep, JobTo(w, s)
    PROVE  job' \in [Workers -> Job]
BY DEF JobTo, TypeOK, Job

LEMMA JobEndType ==
    ASSUME TypeOK, NEW w \in Workers, JobEnd(w)
    PROVE  job' \in [Workers -> Job]
BY DEF JobEnd, IdleJob, TypeOK, Job, JobStep

LEMMA IfProcessingType ==
    ASSUME TypeOK, NEW t, NEW new, t \in Rows => new \in TableRow, NEW c \in Nat,
           IfProcessing(t, new, c)
    PROVE  /\ row' \in [Rows -> TableRow]
           /\ session' \in [Admins -> Request]
           /\ credited' \in [Rows -> Nat]
<1>1. CASE row[t].status = "processing"
  <2>1. Write(t, new) /\ Outdate(t) /\ credited' = [credited EXCEPT ![t] = @ + c]
    BY <1>1 DEF IfProcessing
  <2>2. credited' \in [Rows -> Nat]
    <3>1. CASE t \in Rows
      <4>1. credited[t] + c \in Nat
        BY <3>1 DEF TypeOK
      <4> QED
        BY <2>1, <4>1 DEF TypeOK
    <3>2. CASE t \notin Rows
      BY <2>1, <3>2 DEF TypeOK
    <3> QED
      BY <3>1, <3>2
  <2> QED
    BY <2>1, <2>2, WriteType, OutdateType
<1>2. CASE row[t].status # "processing"
  BY <1>2 DEF IfProcessing, TypeOK
<1> QED
  BY <1>1, <1>2

LEMMA EnqueuedType ==
    ASSUME TypeOK, NEW t
    PROVE  Enqueued(t) \in [Rows -> 0..MaxMsgs]
<1> DEFINE n == IF queue[t] < MaxMsgs THEN queue[t] + 1 ELSE queue[t]
<1>1. t \in Rows => n \in 0..MaxMsgs
  BY MsgsAssumption DEF TypeOK
<1>2. Enqueued(t) = [queue EXCEPT ![t] = n]
  BY DEF Enqueued
<1> HIDE DEF n
<1> QED
  BY <1>1, <1>2 DEF TypeOK

LEMMA ReleasedType ==
    ASSUME TypeOK, NEW w
    PROVE  Released(w) \in Workers \cup {Free, Orphan}
BY DEF Released, TypeOK

-----------------------------------------------------------------------------
(* Type correctness.                                                       *)

LEMMA TypeInit == Init => TypeOK
BY FaultsAssumption, MsgsAssumption
   DEF Init, TypeOK, LedgerInit, LedgerTypeOK, Payment, PayState, TableRow, CashIn, Settlements,
       Job, JobStep, Request, RequestStep, NewRow, IdleJob, IdleRequest, Free

\* The records the actions write.
LEMMA RowTypes ==
    ASSUME NEW r \in TableRow
    PROVE  /\ \A c \in CashIn : [r EXCEPT !.cashin = c] \in TableRow
           /\ [r EXCEPT !.cashin = "received", !.status = "queued"] \in TableRow
           /\ [r EXCEPT !.status = "processing", !.attempts = @ + 1] \in TableRow
           /\ \A s \in Settlements : [r EXCEPT !.status = s] \in TableRow
           /\ \A s \in Settlements, h \in Hashes \cup {NoHash} :
                 [r EXCEPT !.status = s, !.hash = h] \in TableRow
           /\ \A h \in Hashes, f, l \in Nat :
                 [r EXCEPT !.hash = h, !.first = f, !.last = l] \in TableRow
           /\ \A x \in SUBSET Attempt :
                 [r EXCEPT !.status = "queued", !.attempts = 0, !.hash = NoHash, !.first = 0,
                           !.last = 0, !.archive = x] \in TableRow
           /\ \A b \in BOOLEAN : [r EXCEPT !.old = b] \in TableRow
<1>1. \A c \in CashIn : [r EXCEPT !.cashin = c] \in TableRow
  BY DEF TableRow
<1>2. [r EXCEPT !.cashin = "received", !.status = "queued"] \in TableRow
  BY DEF TableRow, CashIn, Settlements
<1>3. [r EXCEPT !.status = "processing", !.attempts = @ + 1] \in TableRow
  <2>1. r.attempts + 1 \in Nat
    BY DEF TableRow
  <2>2. \A n \in Nat : [r EXCEPT !.status = "processing", !.attempts = n] \in TableRow
    BY DEF TableRow, Settlements
  <2> QED
    BY <2>1, <2>2
<1>4. \A s \in Settlements : [r EXCEPT !.status = s] \in TableRow
  BY DEF TableRow
<1>5. \A s \in Settlements, h \in Hashes \cup {NoHash} :
        [r EXCEPT !.status = s, !.hash = h] \in TableRow
  BY DEF TableRow
<1>6. \A h \in Hashes, f, l \in Nat :
        [r EXCEPT !.hash = h, !.first = f, !.last = l] \in TableRow
  BY DEF TableRow
<1>7. \A x \in SUBSET Attempt :
        [r EXCEPT !.status = "queued", !.attempts = 0, !.hash = NoHash, !.first = 0,
                  !.last = 0, !.archive = x] \in TableRow
  <2>1. [r EXCEPT !.status = "queued", !.attempts = 0] \in TableRow
    BY DEF TableRow, Settlements
  <2>2. \A q \in TableRow : [q EXCEPT !.hash = NoHash, !.first = 0] \in TableRow
    BY DEF TableRow
  <2>3. \A q \in TableRow, x \in SUBSET Attempt :
          [q EXCEPT !.last = 0, !.archive = x] \in TableRow
    BY DEF TableRow
  <2> QED
    BY <2>1, <2>2, <2>3
<1>8. \A b \in BOOLEAN : [r EXCEPT !.old = b] \in TableRow
  BY DEF TableRow
<1> QED
  BY <1>1, <1>2, <1>3, <1>4, <1>5, <1>6, <1>7, <1>8

LEMMA TypeStep == TypeOK /\ [Next]_vars => TypeOK'
<1> SUFFICES ASSUME TypeOK, [Next]_vars PROVE TypeOK'
  OBVIOUS
<1> USE DEF ledgerVars
<1>0. /\ \A t \in Rows : row[t] \in TableRow
      /\ "queued" \in Settlements /\ "completed" \in Settlements /\ "failed" \in Settlements
      /\ "failed" \in CashIn
  BY DEF TypeOK, Settlements, CashIn
<1>a. ASSUME NEW t \in Rows, CreateRemittance(t) PROVE TypeOK'
  <2>1. row' \in [Rows -> TableRow]
    <3>1. PICK c \in {"pending", "failed"} : row' = [row EXCEPT ![t] = [@ EXCEPT !.cashin = c]]
      BY <1>a DEF CreateRemittance
    <3>2. [row[t] EXCEPT !.cashin = c] \in TableRow
      BY <1>0, RowTypes DEF CashIn
    <3> QED
      BY <3>1, <3>2 DEF TypeOK
  <2> QED
    BY <1>a, <2>1 DEF CreateRemittance, TypeOK, LedgerTypeOK
<1>b. ASSUME NEW t \in Rows, MarkCashinFailed(t) PROVE TypeOK'
  <2>1. row' \in [Rows -> TableRow] /\ session' \in [Admins -> Request]
    BY <1>b, <1>0, RowTypes, WriteType, OutdateType DEF MarkCashinFailed
  <2> QED
    BY <1>b, <2>1 DEF MarkCashinFailed, TypeOK, LedgerTypeOK
<1>c. ASSUME NEW t \in Rows, SetAmlFlag(t) PROVE TypeOK'
  <2>1. row' \in [Rows -> TableRow] /\ session' \in [Admins -> Request]
    BY <1>c, <1>0, WriteType, OutdateType DEF SetAmlFlag
  <2> QED
    BY <1>c, <2>1, FaultsAssumption DEF SetAmlFlag, Fault, TypeOK, LedgerTypeOK
<1>d. ASSUME NEW t \in Rows, GrowOld(t) PROVE TypeOK'
  BY <1>d DEF GrowOld, TypeOK, LedgerTypeOK, TableRow
<1>e. ASSUME NEW t \in Rows, LoseMessage(t) PROVE TypeOK'
  BY <1>e, FaultsAssumption, MsgsAssumption DEF LoseMessage, Fault, TypeOK, LedgerTypeOK
<1>f. ASSUME NEW t \in Rows, NEW w \in Workers, Claim(w, t) PROVE TypeOK'
  <2>1. row' \in [Rows -> TableRow] /\ session' \in [Admins -> Request]
    BY <1>f, <1>0, RowTypes, WriteType, OutdateType DEF Claim
  <2>2. job' \in [Workers -> Job]
    BY <1>f DEF Claim, TypeOK, TableRow, Job, JobStep
  <2>3. queue' \in [Rows -> 0..MaxMsgs]
    BY <1>f, MsgsAssumption DEF Claim, TypeOK
  <2> QED
    BY <1>f, <2>1, <2>2, <2>3 DEF Claim, TypeOK, LedgerTypeOK
<1>g. ASSUME NEW t \in Rows, NEW w \in Workers, Skip(w, t) PROVE TypeOK'
  BY <1>g, MsgsAssumption DEF Skip, TypeOK, LedgerTypeOK
<1>h. ASSUME NEW stale \in SUBSET Rows, ExpireStaleCashins(stale) PROVE TypeOK'
  <2>1. row' \in [Rows -> TableRow]
    <3>1. \A t \in Rows : [row[t] EXCEPT !.cashin = "failed", !.old = FALSE] \in TableRow
      BY <1>0 DEF TableRow, CashIn
    <3> QED
      BY <1>h, <3>1 DEF ExpireStaleCashins, TypeOK
  <2>2. session' \in [Admins -> Request]
    <3>1. \A a \in Admins : [session[a] EXCEPT !.fresh = FALSE] \in Request
      BY DEF TypeOK, Request
    <3> QED
      BY <1>h, <3>1 DEF ExpireStaleCashins, TypeOK
  <2> QED
    BY <1>h, <2>1, <2>2 DEF ExpireStaleCashins, TypeOK, LedgerTypeOK
<1>i. ASSUME NEW w \in Workers, Provisioned(w) PROVE TypeOK'
  <2>1. job' \in [Workers -> Job]
    BY <1>i, JobToType DEF Provisioned, JobStep
  <2> QED
    BY <1>i, <2>1 DEF Provisioned, TypeOK, LedgerTypeOK
<1>j. ASSUME NEW w \in Workers, AcquireLock(w) PROVE TypeOK'
  <2>1. job' \in [Workers -> Job]
    BY <1>j DEF AcquireLock, TypeOK, LedgerTypeOK, Job, JobStep
  <2> QED
    BY <1>j, <2>1 DEF AcquireLock, TypeOK, LedgerTypeOK
<1>k. ASSUME NEW w \in Workers, NEW h \in Hashes, Sign(w, h) PROVE TypeOK'
  <2>1. validated + Window \in Nat /\ job[w].first \in Nat
    BY WindowAssumption DEF TypeOK, LedgerTypeOK, Job
  <2>2. row' \in [Rows -> TableRow] /\ session' \in [Admins -> Request]
    BY <1>k, <1>0, <2>1, RowTypes, WriteType, OutdateType DEF Sign
  <2>3. job' \in [Workers -> Job]
    BY <1>k DEF Sign, TypeOK, Job, JobStep
  <2>4. pay' \in [Hashes -> Payment]
    BY <1>k, <2>1 DEF Sign, SignPayment, TypeOK, LedgerTypeOK, Job, Payment, PayState
  <2> QED
    BY <1>k, <2>2, <2>3, <2>4 DEF Sign, SignPayment, TypeOK, LedgerTypeOK
<1>l. ASSUME NEW w \in Workers, Submit(w) PROVE TypeOK'
  <2>1. job' \in [Workers -> Job]
    BY <1>l, JobToType DEF Submit, JobStep
  <2>2. pay' \in [Hashes -> Payment]
    BY <1>l DEF Submit, SetState, TypeOK, LedgerTypeOK, Payment, PayState
  <2> QED
    BY <1>l, <2>1, <2>2, ReleasedType DEF Submit, SetState, TypeOK, LedgerTypeOK
<1>m. ASSUME NEW w \in Workers, Observe(w) PROVE TypeOK'
  <2>1. job' \in [Workers -> Job]
    BY <1>m, JobToType DEF Observe, JobStep
  <2> QED
    BY <1>m, <2>1, ReleasedType DEF Observe, TypeOK, LedgerTypeOK
<1>n. ASSUME NEW w \in Workers, LoseSight(w) PROVE TypeOK'
  <2>1. job' \in [Workers -> Job]
    BY <1>n, JobToType DEF LoseSight, JobStep
  <2> QED
    BY <1>n, <2>1, ReleasedType DEF LoseSight, TypeOK, LedgerTypeOK
<1>o. ASSUME NEW w \in Workers, FailTransiently(w) PROVE TypeOK'
  <2>1. job' \in [Workers -> Job]
    BY <1>o, JobToType DEF FailTransiently, JobStep
  <2> QED
    BY <1>o, <2>1, ReleasedType DEF FailTransiently, TypeOK, LedgerTypeOK
<1>p. ASSUME NEW w \in Workers, CompleteSettlement(w) PROVE TypeOK'
  <2>1. job[w].hash \in Hashes \cup {NoHash}
    BY DEF TypeOK, Job
  <2>2. /\ row' \in [Rows -> TableRow]
        /\ session' \in [Admins -> Request]
        /\ credited' \in [Rows -> Nat]
    BY <1>p, <1>0, <2>1, RowTypes, IfProcessingType DEF CompleteSettlement
  <2> QED
    BY <1>p, <2>2, JobEndType DEF CompleteSettlement, TypeOK, LedgerTypeOK
<1>q. ASSUME NEW w \in Workers, FailSigned(w) PROVE TypeOK'
  <2>1. job[w].hash \in Hashes \cup {NoHash}
    BY DEF TypeOK, Job
  <2>2. /\ row' \in [Rows -> TableRow]
        /\ session' \in [Admins -> Request]
        /\ credited' \in [Rows -> Nat]
    BY <1>q, <1>0, <2>1, RowTypes, IfProcessingType DEF FailSigned
  <2> QED
    BY <1>q, <2>2, JobEndType DEF FailSigned, TypeOK, LedgerTypeOK
<1>r. ASSUME NEW w \in Workers, FailUnsigned(w) PROVE TypeOK'
  <2>1. /\ row' \in [Rows -> TableRow]
        /\ session' \in [Admins -> Request]
        /\ credited' \in [Rows -> Nat]
    BY <1>r, <1>0, RowTypes, IfProcessingType DEF FailUnsigned
  <2> QED
    BY <1>r, <2>1, JobEndType, ReleasedType DEF FailUnsigned, TypeOK, LedgerTypeOK
<1>s. ASSUME NEW w \in Workers, HandBack(w) PROVE TypeOK'
  <2>1. /\ row' \in [Rows -> TableRow]
        /\ session' \in [Admins -> Request]
        /\ credited' \in [Rows -> Nat]
    BY <1>s, <1>0, RowTypes, IfProcessingType DEF HandBack
  <2>2. job' \in [Workers -> Job]
    <3>1. [IdleJob EXCEPT !.at = "requeue", !.row = job[w].row] \in Job
      BY DEF IdleJob, TypeOK, Job, JobStep
    <3> QED
      BY <1>s, <3>1, JobEndType DEF HandBack, TypeOK
  <2> QED
    BY <1>s, <2>1, <2>2 DEF HandBack, TypeOK, LedgerTypeOK
<1>t. ASSUME NEW w \in Workers, Requeue(w) PROVE TypeOK'
  BY <1>t, JobEndType, EnqueuedType DEF Requeue, TypeOK, LedgerTypeOK
<1>u. ASSUME NEW w \in Workers, Crash(w) PROVE TypeOK'
  BY <1>u, JobEndType, FaultsAssumption DEF Crash, Fault, TypeOK, LedgerTypeOK
<1>v. CASE LockExpires
  BY <1>v DEF LockExpires, TypeOK, LedgerTypeOK
<1>w. ASSUME NEW a \in Admins, NEW t \in Rows, MarkCashinReceived(a, t) PROVE TypeOK'
  <2>1. row' \in [Rows -> TableRow] /\ session' \in [Admins -> Request]
    BY <1>w, <1>0, RowTypes, WriteType, OutdateAndGoType DEF MarkCashinReceived, RequestStep
  <2> QED
    BY <1>w, <2>1 DEF MarkCashinReceived, TypeOK, LedgerTypeOK
<1>x. ASSUME NEW a \in Admins, NEW t \in Rows, StartRequeue(a, t) PROVE TypeOK'
  BY <1>x, BlankRequest DEF StartRequeue, RequestStep, TypeOK, LedgerTypeOK
<1>y. ASSUME NEW a \in Admins, NEW t \in Rows, StartRetry(a, t) PROVE TypeOK'
  <2>1. session' \in [Admins -> Request]
    BY <1>y, <1>0 DEF StartRetry, ReadRow, TypeOK, TableRow, Request, RequestStep
  <2> QED
    BY <1>y, <2>1 DEF StartRetry, TypeOK, LedgerTypeOK
<1>z. ASSUME NEW a \in Admins, LookUp(a) PROVE TypeOK'
  <2>1. session' \in [Admins -> Request]
    BY <1>z, GotoType DEF LookUp, RequestStep
  <2> QED
    BY <1>z, <2>1 DEF LookUp, TypeOK, LedgerTypeOK
<1>aa. ASSUME NEW a \in Admins, CheckLatest(a) PROVE TypeOK'
  <2>1. session' \in [Admins -> Request]
    BY <1>aa, GotoType, EndType DEF CheckLatest, RequestStep
  <2> QED
    BY <1>aa, <2>1 DEF CheckLatest, TypeOK, LedgerTypeOK
<1>bb. ASSUME NEW a \in Admins, CheckRange(a) PROVE TypeOK'
  <2>1. session' \in [Admins -> Request]
    BY <1>bb, GotoType, EndType DEF CheckRange, RequestStep
  <2> QED
    BY <1>bb, <2>1 DEF CheckRange, TypeOK, LedgerTypeOK
<1>cc. ASSUME NEW a \in Admins, Reset(a) PROVE TypeOK'
  <2> DEFINE t == session[a].row
  <2>1. t \in Rows => ArchivedAttempts(a) \in SUBSET Attempt
    BY DEF ArchivedAttempts, Attempt, TypeOK, TableRow, Request
  <2>2. t \in Rows \/ row' = row
    BY <1>cc DEF Reset, Write, TypeOK
  <2>3. CASE row[t].status = session[a].from /\ session[a].fresh
    <3>1. row' \in [Rows -> TableRow]
      BY <1>cc, <1>0, <2>1, <2>3, RowTypes, WriteType DEF Reset
    <3>2. session' \in [Admins -> Request]
      <4>1. OutdateAndGo(t, a, "publish")
        BY <1>cc, <2>3 DEF Reset
      <4>2. [IdleRequest EXCEPT !.at = "publish", !.row = t] \in Request
        BY DEF IdleRequest, TypeOK, Request, RequestStep, Settlements
      <4>3. \A b \in Admins : [session[b] EXCEPT !.fresh = FALSE] \in Request
        BY DEF TypeOK, Request
      <4> QED
        BY <4>1, <4>2, <4>3 DEF OutdateAndGo, TypeOK
    <3> QED
      BY <1>cc, <3>1, <3>2 DEF Reset, TypeOK, LedgerTypeOK
  <2>4. CASE ~(row[t].status = session[a].from /\ session[a].fresh)
    <3>1. UNCHANGED row /\ End(a)
      BY <1>cc, <2>4 DEF Reset
    <3> QED
      BY <1>cc, <3>1, EndType DEF Reset, TypeOK, LedgerTypeOK
  <2> QED
    BY <2>3, <2>4
<1>dd. ASSUME NEW a \in Admins, Reconcile(a) PROVE TypeOK'
  <2>1. session[a].hash \in Hashes \cup {NoHash}
    BY DEF TypeOK, Request
  <2>2. row' \in [Rows -> TableRow] /\ session' \in [Admins -> Request]
    <3>1. CASE row[session[a].row].status = session[a].from
      BY <1>dd, <1>0, <2>1, <3>1, RowTypes, WriteType, OutdateAndEndType DEF Reconcile
    <3>2. CASE row[session[a].row].status # session[a].from
      BY <1>dd, <3>2, EndType DEF Reconcile, TypeOK
    <3> QED
      BY <3>1, <3>2
  <2>3. credited' \in [Rows -> Nat]
    BY <1>dd DEF Reconcile, TypeOK
  <2> QED
    BY <1>dd, <2>2, <2>3 DEF Reconcile, TypeOK, LedgerTypeOK
<1>ee. ASSUME NEW a \in Admins, Publish(a) PROVE TypeOK'
  BY <1>ee, EndType, EnqueuedType DEF Publish, TypeOK, LedgerTypeOK
<1>ff. ASSUME NEW a \in Admins, PublishRaises(a) PROVE TypeOK'
  <2>1. queue' \in [Rows -> 0..MaxMsgs]
    BY <1>ff, EnqueuedType DEF PublishRaises, TypeOK
  <2>2. session' \in [Admins -> Request]
    BY <1>ff, GotoType DEF PublishRaises, RequestStep
  <2> QED
    BY <1>ff, <2>1, <2>2, FaultsAssumption DEF PublishRaises, Fault, TypeOK, LedgerTypeOK
<1>gg. ASSUME NEW a \in Admins, Unpublish(a) PROVE TypeOK'
  <2>1. row' \in [Rows -> TableRow] /\ session' \in [Admins -> Request]
    <3>1. CASE row[session[a].row].status = "queued"
      BY <1>gg, <1>0, <3>1, RowTypes, WriteType, OutdateAndEndType DEF Unpublish
    <3>2. CASE row[session[a].row].status # "queued"
      BY <1>gg, <3>2, EndType DEF Unpublish, TypeOK
    <3> QED
      BY <3>1, <3>2
  <2> QED
    BY <1>gg, <2>1 DEF Unpublish, TypeOK, LedgerTypeOK
<1>hh. ASSUME NEW a \in Admins, Abort(a) PROVE TypeOK'
  BY <1>hh, EndType, FaultsAssumption DEF Abort, Fault, TypeOK, LedgerTypeOK
<1>ii. CASE LedgerCloses
  <2>1. PICK good \in SUBSET Hashes, bad \in SUBSET Hashes : CloseLedger(good, bad)
    BY <1>ii DEF LedgerCloses
  <2>2. /\ validated' \in Nat
        /\ history' \in SUBSET Nat
    <3>1. validated + 1 \in Nat
      BY DEF TypeOK, LedgerTypeOK
    <3>2. history' = history \/ history' = history \cup {validated + 1}
      BY <2>1 DEF CloseLedger
    <3> QED
      BY <2>1, <3>1, <3>2 DEF CloseLedger, TypeOK, LedgerTypeOK
  <2>3. \A h \in Hashes :
          /\ [pay[h] EXCEPT !.state = "tes", !.ledger = validated + 1] \in Payment
          /\ [pay[h] EXCEPT !.state = "tec", !.ledger = validated + 1] \in Payment
    <3>1. \A p \in Payment, s \in PayState, l \in Nat :
            [p EXCEPT !.state = s, !.ledger = l] \in Payment
      BY DEF Payment
    <3>2. validated + 1 \in Nat
      BY DEF TypeOK, LedgerTypeOK
    <3> QED
      BY <3>1, <3>2 DEF TypeOK, LedgerTypeOK, PayState
  <2>4. pay' \in [Hashes -> Payment]
    BY <2>1, <2>3 DEF CloseLedger, TypeOK, LedgerTypeOK
  <2> QED
    BY <1>ii, <2>2, <2>4 DEF LedgerCloses, TypeOK, LedgerTypeOK
<1>jj. CASE ServerBackfills
  BY <1>jj DEF ServerBackfills, Backfill, TypeOK, LedgerTypeOK
<1>kk. CASE UNCHANGED vars
  BY <1>kk DEF vars, TypeOK, LedgerTypeOK
<1> QED
  BY <1>a, <1>b, <1>c, <1>d, <1>e, <1>f, <1>g, <1>h, <1>i, <1>j, <1>k, <1>l, <1>m, <1>n, <1>o,
     <1>p, <1>q, <1>r, <1>s, <1>t, <1>u, <1>v, <1>w, <1>x, <1>y, <1>z, <1>aa, <1>bb, <1>cc,
     <1>dd, <1>ee, <1>ff, <1>gg, <1>hh, <1>ii, <1>jj, <1>kk
     DEF Next, Deliver, JobSteps, RequestSteps

\* Every variable keeps its type, for any number of rows, workers and requests.
THEOREM TypeCorrect == Spec => []TypeOK
BY TypeInit, TypeStep, PTL DEF Spec


-----------------------------------------------------------------------------
(* What the building blocks of the actions do, field by field.             *)

\* The fields of a request that only the request itself changes.
SameRequest(s, r) ==
    /\ s.at = r.at /\ s.row = r.row /\ s.from = r.from
    /\ s.hash = r.hash /\ s.first = r.first /\ s.last = r.last

LEMMA JobToEffect ==
    ASSUME TypeOK, NEW w \in Workers, NEW s, JobTo(w, s)
    PROVE  /\ \A v \in Workers \ {w} : job'[v] = job[v]
           /\ job'[w].at = s /\ job'[w].row = job[w].row
           /\ job'[w].hash = job[w].hash /\ job'[w].first = job[w].first
BY DEF JobTo, TypeOK, Job

LEMMA JobEndEffect ==
    ASSUME TypeOK, NEW w \in Workers, JobEnd(w)
    PROVE  /\ \A v \in Workers \ {w} : job'[v] = job[v]
           /\ job'[w].at = "idle" /\ job'[w].row = NoRow /\ job'[w].hash = NoHash
BY DEF JobEnd, IdleJob, TypeOK

LEMMA GotoEffect ==
    ASSUME TypeOK, NEW a \in Admins, NEW s, Goto(a, s)
    PROVE  /\ \A b \in Admins \ {a} : session'[b] = session[b]
           /\ session'[a].at = s /\ session'[a].row = session[a].row
           /\ session'[a].from = session[a].from /\ session'[a].hash = session[a].hash
           /\ session'[a].first = session[a].first /\ session'[a].last = session[a].last
           /\ session'[a].fresh = session[a].fresh
BY DEF Goto, TypeOK, Request

LEMMA EndEffect ==
    ASSUME TypeOK, NEW a \in Admins, End(a)
    PROVE  /\ \A b \in Admins \ {a} : session'[b] = session[b]
           /\ session'[a].at = "idle" /\ session'[a].row = NoRow
BY DEF End, IdleRequest, TypeOK

LEMMA OutdatedRequest ==
    ASSUME TypeOK, NEW b \in Admins
    PROVE  /\ SameRequest([session[b] EXCEPT !.fresh = FALSE], session[b])
           /\ [session[b] EXCEPT !.fresh = FALSE].fresh = FALSE
BY DEF SameRequest, TypeOK, Request

LEMMA OutdateEffect ==
    ASSUME TypeOK, NEW t, Outdate(t), NEW b \in Admins
    PROVE  /\ SameRequest(session'[b], session[b])
           /\ session'[b].fresh => session[b].fresh /\ session[b].row # t
<1>1. CASE session[b].row = t
  BY <1>1, OutdatedRequest DEF Outdate
<1>2. CASE session[b].row # t
  BY <1>2 DEF Outdate, SameRequest, TypeOK
<1> QED
  BY <1>1, <1>2

LEMMA OutdateAndGoEffect ==
    ASSUME TypeOK, NEW t, NEW a \in Admins, NEW s, OutdateAndGo(t, a, s)
    PROVE  /\ session'[a].at = s /\ session'[a].row = t
           /\ \A b \in Admins \ {a} :
                 /\ SameRequest(session'[b], session[b])
                 /\ session'[b].fresh => session[b].fresh /\ session[b].row # t
<1>1. session'[a].at = s /\ session'[a].row = t
  BY DEF OutdateAndGo, IdleRequest
<1>2. ASSUME NEW b \in Admins \ {a}
      PROVE  /\ SameRequest(session'[b], session[b])
             /\ session'[b].fresh => session[b].fresh /\ session[b].row # t
  <2>1. CASE session[b].row = t
    BY <2>1, OutdatedRequest DEF OutdateAndGo
  <2>2. CASE session[b].row # t
    BY <2>2 DEF OutdateAndGo, SameRequest
  <2> QED
    BY <2>1, <2>2
<1> QED
  BY <1>1, <1>2

LEMMA OutdateAndEndEffect ==
    ASSUME TypeOK, NEW t, NEW a \in Admins, OutdateAndEnd(t, a)
    PROVE  /\ session'[a].at = "idle" /\ session'[a].row = NoRow
           /\ \A b \in Admins \ {a} :
                 /\ SameRequest(session'[b], session[b])
                 /\ session'[b].fresh => session[b].fresh /\ session[b].row # t
<1>1. session'[a].at = "idle" /\ session'[a].row = NoRow
  BY DEF OutdateAndEnd, IdleRequest
<1>2. ASSUME NEW b \in Admins \ {a}
      PROVE  /\ SameRequest(session'[b], session[b])
             /\ session'[b].fresh => session[b].fresh /\ session[b].row # t
  <2>1. CASE session[b].row = t
    BY <2>1, OutdatedRequest DEF OutdateAndEnd
  <2>2. CASE session[b].row # t
    BY <2>2 DEF OutdateAndEnd, SameRequest
  <2> QED
    BY <2>1, <2>2
<1> QED
  BY <1>1, <1>2

LEMMA WriteEffect ==
    ASSUME TypeOK, NEW t \in Rows, NEW new \in TableRow, Write(t, new)
    PROVE  /\ \A u \in Rows \ {t} : row'[u] = row[u]
           /\ row'[t].cashin = new.cashin /\ row'[t].status = new.status
           /\ row'[t].hash = new.hash /\ row'[t].first = new.first /\ row'[t].last = new.last
           /\ row'[t].archive = new.archive /\ row'[t].old = FALSE
BY DEF Write, TypeOK, TableRow

-----------------------------------------------------------------------------
(* How payments evolve, whatever step is taken.                            *)

Evolves(h) ==
    pay[h].state # "unsigned" =>
        /\ pay'[h].state # "unsigned"
        /\ pay'[h].row = pay[h].row /\ pay'[h].last = pay[h].last
        /\ pay'[h].ledger = pay[h].ledger \/ pay'[h].ledger >= validated
        /\ Landed(h) => Landed(h)'
        /\ Dead(h) => Dead(h)'

PaymentsEvolve == validated' >= validated /\ \A h \in Hashes : Evolves(h)

\* Nothing that the server has reported as not found turns up.
Unrevealing == \A h \in Hashes : ~Sees(h) => ~Sees(h)'

LEMMA StillLedger == TypeOK /\ UNCHANGED ledgerVars => PaymentsEvolve
BY DEF PaymentsEvolve, Evolves, Landed, Dead, ledgerVars, TypeOK, LedgerTypeOK, Payment

LEMMA StillUnseen == UNCHANGED ledgerVars => Unrevealing
BY DEF Unrevealing, Sees, ledgerVars

LEMMA SignPaymentEffect ==
    ASSUME TypeOK, NEW h \in Hashes, NEW t, SignPayment(h, t)
    PROVE  /\ PaymentsEvolve
           /\ \A k \in Hashes \ {h} : pay'[k] = pay[k]
           /\ pay[h].state = "unsigned"
           /\ pay'[h].row = t /\ pay'[h].state = "signed"
           /\ pay'[h].last = validated + Window /\ pay'[h].ledger = 0
           /\ UNCHANGED <<validated, history>>
           /\ Unrevealing
BY DEF SignPayment, PaymentsEvolve, Evolves, Landed, Dead, Unrevealing, Sees,
       TypeOK, LedgerTypeOK, Payment

LEMMA SetStateEffect ==
    ASSUME TypeOK, NEW h \in Hashes, NEW s \in {"submitted", "void"}, SetState(h, s),
           pay[h].state = "signed"
    PROVE  /\ PaymentsEvolve
           /\ \A k \in Hashes \ {h} : pay'[k] = pay[k]
           /\ pay'[h].state = s /\ pay'[h].row = pay[h].row /\ pay'[h].last = pay[h].last
           /\ pay'[h].ledger = pay[h].ledger
           /\ UNCHANGED <<validated, history>>
           /\ Unrevealing
BY DEF SetState, PaymentsEvolve, Evolves, Landed, Dead, Unrevealing, Sees,
       TypeOK, LedgerTypeOK, Payment

LEMMA CloseLedgerEffect ==
    ASSUME TypeOK, NEW good \in SUBSET Hashes, NEW bad \in SUBSET Hashes, CloseLedger(good, bad)
    PROVE  /\ PaymentsEvolve
           /\ validated' = validated + 1
           /\ \A h \in Hashes :
                 \/ pay'[h] = pay[h]
                 \/ /\ pay[h].state = "submitted" /\ pay'[h].state \in {"tes", "tec"}
                    /\ pay'[h].row = pay[h].row /\ pay'[h].last = pay[h].last
                    /\ pay'[h].ledger = validated + 1 /\ validated + 1 <= pay[h].last
<1>1. validated' = validated + 1 /\ validated \in Nat
  BY DEF CloseLedger, TypeOK, LedgerTypeOK
<1>2. ASSUME NEW h \in Hashes
      PROVE  \/ pay'[h] = pay[h]
             \/ /\ pay[h].state = "submitted" /\ pay'[h].state \in {"tes", "tec"}
                /\ pay'[h].row = pay[h].row /\ pay'[h].last = pay[h].last
                /\ pay'[h].ledger = validated + 1 /\ validated + 1 <= pay[h].last
  <2>1. CASE h \in good \cup bad
    BY <2>1 DEF CloseLedger, Includable, TypeOK, LedgerTypeOK, Payment
  <2>2. CASE h \notin good \cup bad
    BY <2>2 DEF CloseLedger
  <2> QED
    BY <2>1, <2>2
<1>3. ASSUME NEW h \in Hashes PROVE Evolves(h)
  BY <1>1, <1>2 DEF Evolves, Landed, Dead, TypeOK, LedgerTypeOK, Payment
<1> QED
  BY <1>1, <1>2, <1>3 DEF PaymentsEvolve

-----------------------------------------------------------------------------
(* The treasury lock.                                                      *)

LEMMA LockInit == Init => LockInv
BY DEF Init, IdleJob, LockInv, Signing

\* A step that leaves the lock and gives nobody a new right to it.
LEMMA LockKept ==
    ASSUME LockInv, UNCHANGED lock,
           \A w \in Workers : Signing(job'[w]) => Signing(job[w])
    PROVE  LockInv'
BY DEF LockInv, Signing

\* A step by which worker w lets go of the lock, if it has it.
LEMMA LockReleased ==
    ASSUME TypeOK, LockInv, NEW w \in Workers, lock' \in {Free, Orphan, lock},
           lock # w => lock' = lock, ~Signing(job'[w]),
           \A v \in Workers \ {w} : job'[v] = job[v]
    PROVE  LockInv'
BY DEF LockInv, Signing

LEMMA LockStep == TypeOK /\ LockInv /\ [Next]_vars => LockInv'
<1> SUFFICES ASSUME TypeOK, LockInv, [Next]_vars PROVE LockInv'
  OBVIOUS
<1>a. ASSUME UNCHANGED <<lock, job>> PROVE LockInv'
  BY <1>a DEF LockInv, Signing
<1>b. ASSUME NEW t \in Rows, NEW w \in Workers, Claim(w, t) PROVE LockInv'
  BY <1>b, LockKept DEF Claim, TypeOK, Signing
<1>c. ASSUME NEW w \in Workers, Provisioned(w) PROVE LockInv'
  BY <1>c, LockKept, JobToEffect DEF Provisioned, Signing
<1>d. ASSUME NEW w \in Workers, AcquireLock(w) PROVE LockInv'
  <2>1. \A v \in Workers : Free # v
    BY WorkersAssumption DEF Free
  <2>2. \A v \in Workers \ {w} : job'[v] = job[v]
    BY <1>d DEF AcquireLock, TypeOK
  <2> QED
    BY <1>d, <2>1, <2>2 DEF AcquireLock, LockInv, Signing
<1>e. ASSUME NEW w \in Workers, NEW h \in Hashes, Sign(w, h) PROVE LockInv'
  BY <1>e, LockKept DEF Sign, TypeOK, Signing
<1>f. ASSUME NEW w \in Workers, Submit(w) PROVE LockInv'
  <2>1. CASE JobTo(w, "wait") /\ UNCHANGED lock
    BY <1>f, <2>1, LockKept, JobToEffect DEF Submit, Signing
  <2>2. CASE JobTo(w, "failed") /\ lock' = Released(w)
    BY <2>2, LockReleased, JobToEffect DEF Released, Signing
  <2> QED
    BY <1>f, <2>1, <2>2 DEF Submit
<1>g. ASSUME NEW w \in Workers, Observe(w) \/ LoseSight(w) \/ FailTransiently(w) PROVE LockInv'
  <2>1. /\ lock' = Released(w)
        /\ JobTo(w, "succeeded") \/ JobTo(w, "failed") \/ JobTo(w, "unknown") \/ JobTo(w, "retry")
    BY <1>g DEF Observe, LoseSight, FailTransiently
  <2>2. ~Signing(job'[w]) /\ \A v \in Workers \ {w} : job'[v] = job[v]
    BY <2>1, JobToEffect DEF Signing
  <2> QED
    BY <2>1, <2>2, LockReleased DEF Released
<1>h. ASSUME NEW w \in Workers, UNCHANGED lock, JobEnd(w) PROVE LockInv'
  BY <1>h, LockKept, JobEndEffect DEF Signing
<1>i. ASSUME NEW w \in Workers, FailUnsigned(w) \/ Crash(w) PROVE LockInv'
  <2>1. JobEnd(w) /\ lock' \in {Free, Orphan, lock} /\ (lock # w => lock' = lock)
    BY <1>i DEF FailUnsigned, Crash, Released
  <2> QED
    BY <2>1, LockReleased, JobEndEffect DEF Signing
<1>j. ASSUME NEW w \in Workers, HandBack(w) PROVE LockInv'
  <2>1. CASE JobEnd(w)
    BY <1>j, <2>1, <1>h DEF HandBack
  <2>2. CASE job' = [job EXCEPT ![w] = [IdleJob EXCEPT !.at = "requeue", !.row = job[w].row]]
    <3>1. job'[w].at = "requeue" /\ \A v \in Workers \ {w} : job'[v] = job[v]
      BY <2>2 DEF IdleJob, TypeOK
    <3> QED
      BY <1>j, <3>1, LockKept DEF HandBack, Signing
  <2> QED
    BY <1>j, <2>1, <2>2 DEF HandBack
<1>k. CASE LockExpires
  <2>1. \A v \in Workers : Orphan # v
    BY WorkersAssumption DEF Orphan
  <2> QED
    BY <1>k, <2>1 DEF LockExpires, LockInv, Signing
<1>l. ASSUME NEW w \in Workers, JobSteps(w) \/ Crash(w) PROVE LockInv'
  BY <1>l, <1>c, <1>d, <1>e, <1>f, <1>g, <1>h, <1>i, <1>j
     DEF JobSteps, CompleteSettlement, FailSigned, Requeue
<1>m. ASSUME NEW t \in Rows,
             \/ CreateRemittance(t) \/ MarkCashinFailed(t) \/ SetAmlFlag(t)
             \/ GrowOld(t) \/ LoseMessage(t)
      PROVE  LockInv'
  BY <1>m, <1>a DEF CreateRemittance, MarkCashinFailed, SetAmlFlag, GrowOld, LoseMessage
<1>n. ASSUME NEW t \in Rows, Deliver(t) PROVE LockInv'
  BY <1>n, <1>a, <1>b DEF Deliver, Skip
<1>o. ASSUME NEW stale \in SUBSET Rows, ExpireStaleCashins(stale) PROVE LockInv'
  BY <1>o, <1>a DEF ExpireStaleCashins
<1>p. ASSUME NEW a \in Admins, NEW t \in Rows,
             MarkCashinReceived(a, t) \/ StartRequeue(a, t) \/ StartRetry(a, t)
      PROVE  LockInv'
  BY <1>p, <1>a DEF MarkCashinReceived, StartRequeue, StartRetry
<1>q. ASSUME NEW a \in Admins, RequestSteps(a) \/ Abort(a) PROVE LockInv'
  BY <1>q, <1>a DEF RequestSteps, LookUp, CheckLatest, CheckRange, Reset, Reconcile,
                    Publish, PublishRaises, Unpublish, Abort
<1>r. CASE LedgerCloses \/ ServerBackfills
  BY <1>r, <1>a DEF LedgerCloses, ServerBackfills
<1>s. CASE UNCHANGED vars
  BY <1>s, <1>a DEF vars
<1> QED
  BY <1>k, <1>l, <1>m, <1>n, <1>o, <1>p, <1>q, <1>r, <1>s DEF Next

\* Two jobs never sign for the treasury at once, however many workers there are
\* (queue_service.treasury_lock).
THEOREM SingleSigner == Spec => []OneSigner
<1>1. TypeOK /\ LockInv => OneSigner
  BY DEF OneSigner, LockInv, Signing
<1> QED
  BY <1>1, LockInit, LockStep, TypeCorrect, PTL DEF Spec

-----------------------------------------------------------------------------
(* What survives a step, part by part of the invariant.                    *)

LEMMA RangeKept ==
    ASSUME TypeOK, TypeOK', PaymentsEvolve, NEW h \in Hashes, NEW t, NEW first \in Nat, NEW last,
           RangeOf(h, t, first, last)
    PROVE  RangeOf(h, t, first, last)'
BY DEF RangeOf, PaymentsEvolve, Evolves, TypeOK, LedgerTypeOK, Payment

\* A job that did not move, on a row that nobody else wrote or that a reconciliation
\* has completed.
LEMMA JobKept ==
    ASSUME TypeOK, TypeOK', NEW w \in Workers, JobOK(job[w]), job'[w] = job[w],
           PaymentsEvolve,
           Working(job[w]) => \/ /\ row'[job[w].row].status = row[job[w].row].status
                                 /\ row'[job[w].row].hash = row[job[w].row].hash
                              \/ SlowRpc /\ row'[job[w].row].status = "completed",
           \A h \in Hashes :
              \/ pay'[h].state = pay[h].state
              \/ pay[h].state = "submitted" /\ pay'[h].state \in {"tes", "tec"}
              \/ pay[h].state = "unsigned"
    PROVE  JobOK(job[w])'
<1> DEFINE Pursuing == job[w].at \in {"submit", "wait", "succeeded", "failed", "unknown"}
<1>1. job[w] \in Job /\ (job[w].hash # NoHash => job[w].hash \in Hashes)
  BY DEF TypeOK, Job
<1>2. validated' >= validated /\ validated \in Nat /\ validated' \in Nat /\ job[w].first \in Nat
  BY <1>1 DEF PaymentsEvolve, TypeOK, LedgerTypeOK, Job
<1>3. Pursuing => /\ job[w].hash \in Hashes
                  /\ pay'[job[w].hash].row = job[w].row
                  /\ pay'[job[w].hash].state # "unsigned"
  BY <1>1 DEF JobOK, PaymentsEvolve, Evolves
<1>4. /\ job[w].at = "submit" => pay'[job[w].hash].state = "signed"
      /\ job[w].at = "wait" => pay'[job[w].hash].state \in {"submitted", "tes", "tec"}
      /\ job[w].at = "succeeded" => pay'[job[w].hash].state = "tes"
  BY <1>3 DEF JobOK
<1>5. job[w].at = "sign" => job[w].first <= validated'
  BY <1>2 DEF JobOK
<1>6. ~Working(job[w]) => /\ job[w].at \notin {"provision", "lock", "sign", "retry"}
                          /\ ~Pursuing
  BY DEF Working
<1> QED
  BY <1>3, <1>4, <1>5, <1>6 DEF JobOK, Working

\* A row that nobody wrote.
LEMMA RowKept ==
    ASSUME TypeOK, TypeOK', PaymentsEvolve, NEW t \in Rows, RowOK(t, row[t], credited[t]),
           row'[t].cashin = row[t].cashin, row'[t].status = row[t].status,
           row'[t].hash = row[t].hash, row'[t].first = row[t].first, row'[t].last = row[t].last,
           row'[t].archive = row[t].archive, credited'[t] = credited[t]
    PROVE  RowOK(t, row[t], credited[t])'
<1>1. row[t] \in TableRow
  BY DEF TypeOK
<1>2. ASSUME NEW h \in Hashes, NEW first \in Nat, NEW last, RangeOf(h, t, first, last)
      PROVE  RangeOf(h, t, first, last)' /\ (Landed(h) => Landed(h)') /\ (Dead(h) => Dead(h)')
  BY <1>2, RangeKept DEF RangeOf, PaymentsEvolve, Evolves
<1>3. /\ row[t].hash # NoHash /\ (~SlowRpc \/ row[t].status # "completed") =>
            RangeOf(row[t].hash, t, row[t].first, row[t].last)'
      /\ ~SlowRpc /\ row[t].status = "completed" => Landed(row[t].hash)'
  <2>1. row[t].hash # NoHash => row[t].hash \in Hashes /\ row[t].first \in Nat
    BY <1>1 DEF TableRow
  <2> QED
    BY <1>2, <2>1 DEF RowOK, RangeOf, Landed
<1>4. ASSUME NEW e \in row'[t].archive
      PROVE  (RangeOf(e.hash, t, e.first, e.last) /\ (~SlowRpc => Dead(e.hash)))'
  <2>1. e \in row[t].archive /\ e.hash \in Hashes /\ e.first \in Nat
    BY <1>1, <1>4 DEF TableRow, Attempt
  <2> QED
    BY <1>2, <2>1 DEF RowOK
<1> QED
  BY <1>3, <1>4 DEF RowOK

\* Row t shows what it showed, and its cash-in stays received.
ShowsOn(t) ==
    /\ row[t].cashin = "received" => row'[t].cashin = "received"
    /\ \A h \in Hashes : ~SlowRpc /\ Shows(row[t], h) => Shows(row'[t], h)

LEMMA SameRowShowsOn ==
    ASSUME NEW t, row'[t].cashin = row[t].cashin, row'[t].hash = row[t].hash,
           row[t].archive \subseteq row'[t].archive
    PROVE  ShowsOn(t)
BY DEF ShowsOn, Shows

\* A payment that did not move, with its row.
LEMMA PayKept ==
    ASSUME TypeOK, NEW h \in Hashes, PayOK(h), pay'[h] = pay[h], validated' >= validated,
           validated' \in Nat, \A t \in Rows : ShowsOn(t)
    PROVE  PayOK(h)'
BY DEF PayOK, ShowsOn, TypeOK, LedgerTypeOK, Payment

\* A request that did not move.  It may have been outdated, and must have been if
\* its row was written or taken by a worker.
LEMMA RequestKept ==
    ASSUME TypeOK, TypeOK', PaymentsEvolve, NEW a \in Admins, RequestOK(session[a]),
           SameRequest(session'[a], session[a]),
           ~SlowRpc /\ session[a].at \in {"latest", "range"} => Unrevealing
    PROVE  RequestOK(session[a])'
<1>1. /\ session[a].hash # NoHash => session[a].hash \in Hashes
      /\ session[a].first \in Nat /\ session[a].last \in Nat
      /\ validated \in Nat /\ validated' \in Nat /\ validated' >= validated
  BY DEF TypeOK, LedgerTypeOK, Request, PaymentsEvolve
<1>2. ASSUME NEW h \in Hashes, NEW t, NEW f \in Nat, NEW l, RangeOf(h, t, f, l)
      PROVE  RangeOf(h, t, f, l)' /\ (Landed(h) => Landed(h)') /\ (Dead(h) => Dead(h)')
  BY <1>2, RangeKept DEF RangeOf, PaymentsEvolve, Evolves
<1>3. Deciding(session[a])' <=> Deciding(session[a])
  BY DEF Deciding, SameRequest
<1>4. Deciding(session[a]) /\ session[a].hash # NoHash =>
         /\ RangeOf(session[a].hash, session[a].row, session[a].first, session[a].last)'
         /\ Landed(session[a].hash) => Landed(session[a].hash)'
         /\ Dead(session[a].hash) => Dead(session[a].hash)'
  BY <1>1, <1>2 DEF RequestOK, RangeOf, Landed, Dead, SameRequest
<1>5. ~SlowRpc /\ session[a].at \in {"latest", "range"} => ~Sees(session[a].hash)'
  BY <1>1 DEF RequestOK, Unrevealing, Sees, SameRequest
<1>6. session'[a].at = "range" => session'[a].last < validated'
  BY <1>1 DEF RequestOK, SameRequest
<1>7. session'[a].at = "idle" <=> session'[a].row = NoRow
  BY DEF RequestOK, SameRequest
<1>8. Deciding(session[a])' => session'[a].from \in {"failed", "processing"}
  BY <1>3 DEF RequestOK, SameRequest
<1>9. session'[a].at \in {"lookup", "latest", "range", "reconcile"} => session'[a].hash # NoHash
  BY DEF RequestOK, SameRequest
<1>10. /\ ~SlowRpc /\ session'[a].at = "reset" /\ session'[a].hash # NoHash => Dead(session[a].hash)'
       /\ session'[a].at = "reconcile" => Landed(session[a].hash)'
  BY <1>4 DEF RequestOK, Deciding, SameRequest
<1>11. Deciding(session[a])' /\ session'[a].hash # NoHash =>
          RangeOf(session[a].hash, session[a].row, session[a].first, session[a].last)'
  BY <1>3, <1>4 DEF SameRequest
<1>12. ~SlowRpc /\ session'[a].at \in {"latest", "range"} => ~Sees(session[a].hash)'
  BY <1>5 DEF SameRequest
<1> QED
  BY <1>6, <1>7, <1>8, <1>9, <1>10, <1>11, <1>12 DEF RequestOK

LEMMA UndisputedKept ==
    ASSUME NEW a \in Admins, SameRequest(session'[a], session[a]), Undisputed(session[a]),
           \A w \in Workers :
              job'[w].hash \in {NoHash, job[w].hash} \/ job'[w].hash # session[a].hash
    PROVE  Undisputed(session[a])'
BY DEF Undisputed, Deciding, SameRequest

LEMMA FreshKept ==
    ASSUME NEW a \in Admins, SameRequest(session'[a], session[a]), FreshOK(session[a]),
           Deciding(session[a]) /\ session'[a].fresh =>
              /\ session[a].fresh
              /\ row'[session[a].row].hash = row[session[a].row].hash
              /\ row'[session[a].row].status = row[session[a].row].status
              /\ \A w \in Workers : Working(job'[w]) /\ job'[w].row = session[a].row
                                       => Working(job[w]) /\ job[w].row = session[a].row
    PROVE  FreshOK(session[a])'
BY DEF FreshOK, Deciding, SameRequest

\* A request that decides nothing.
LEMMA Undecided ==
    ASSUME NEW a \in Admins, ~Deciding(session'[a]),
           session'[a].at = "idle" <=> session'[a].row = NoRow
    PROVE  (RequestOK(session[a]) /\ Undisputed(session[a]) /\ FreshOK(session[a]))'
BY DEF RequestOK, Undisputed, FreshOK, Deciding

LEMMA OwnerKept ==
    ASSUME OwnerInv, NoRowAssumption,
           \A w \in Workers : /\ Working(job'[w]) => Working(job[w]) /\ job'[w].row = job[w].row
                              /\ job'[w].row \in {job[w].row, NoRow},
           \A t \in Rows : row'[t].status = "processing" /\ row'[t].old =>
                              row[t].status = "processing" /\ row[t].old
    PROVE  OwnerInv'
BY DEF OwnerInv, NobodyOwns, Owns, NoRowAssumption

-----------------------------------------------------------------------------
(* The steps, by what they change.  Core is Inductive without the types    *)
(* and the lock.                                                           *)

Core == JobInv /\ OwnerInv /\ RowInv /\ PayInv /\ SessionInv

LEMMA CoreInit == Init => Core
<1> SUFFICES ASSUME Init PROVE Core
  OBVIOUS
<1>1. JobInv
  BY DEF Init, IdleJob, JobInv, JobOK, Working
<1>2. OwnerInv
  BY DEF Init, IdleJob, NewRow, OwnerInv, Working
<1>3. RowInv
  BY DEF Init, NewRow, RowInv, RowOK
<1>4. PayInv
  BY DEF Init, LedgerInit, PayInv, PayOK
<1>5. SessionInv
  BY DEF Init, IdleRequest, SessionInv, RequestOK, Undisputed, FreshOK, Deciding
<1> QED
  BY <1>1, <1>2, <1>3, <1>4, <1>5 DEF Core

\* All requests and all rows of a step that touches none of them.
LEMMA RequestsKept ==
    ASSUME TypeOK, TypeOK', Core, PaymentsEvolve, UNCHANGED session,
           \A a \in Admins : ~SlowRpc /\ session[a].at \in {"latest", "range"} => Unrevealing,
           UNCHANGED row,
           \A w \in Workers : /\ Working(job'[w]) => Working(job[w]) /\ job'[w].row = job[w].row
                              /\ job'[w].hash \in {NoHash, job[w].hash}
    PROVE  SessionInv'
<1> SUFFICES ASSUME NEW a \in Admins
             PROVE  (RequestOK(session[a]) /\ Undisputed(session[a]) /\ FreshOK(session[a]))'
  BY DEF SessionInv
<1>1. /\ RequestOK(session[a]) /\ Undisputed(session[a]) /\ FreshOK(session[a])
      /\ SameRequest(session'[a], session[a])
  BY DEF Core, SessionInv, SameRequest
<1>2. RequestOK(session[a])'
  BY <1>1, RequestKept
<1>3. Undisputed(session[a])'
  BY <1>1, UndisputedKept
<1>4. FreshOK(session[a])'
  BY <1>1, FreshKept
<1> QED
  BY <1>2, <1>3, <1>4

LEMMA RowsKept ==
    ASSUME TypeOK, TypeOK', Core, PaymentsEvolve, UNCHANGED <<row, credited>>
    PROVE  RowInv'
BY RowKept DEF Core, RowInv

LEMMA SameRowsShow == UNCHANGED row => \A t \in Rows : ShowsOn(t)
BY SameRowShowsOn

\* Nothing but the queue, the lock and the count of faults.
LEMMA NothingElse ==
    ASSUME TypeOK, TypeOK', Core, UNCHANGED <<row, job, session, credited, ledgerVars>>
    PROVE  Core'
BY DEF Core, JobInv, OwnerInv, RowInv, PayInv, SessionInv, JobOK, Working, NobodyOwns, Owns, RowOK,
       RangeOf, Landed, Dead, PayOK, Shows, RequestOK, Deciding, Sees, Undisputed, FreshOK, ledgerVars

\* A job goes on or ends.
LEMMA JobOnly ==
    ASSUME TypeOK, TypeOK', Core, NEW w \in Workers,
           UNCHANGED <<row, session, credited, ledgerVars>>,
           \A v \in Workers \ {w} : job'[v] = job[v],
           Working(job'[w]) => Working(job[w]) /\ job'[w].row = job[w].row,
           job'[w].row \in {job[w].row, NoRow},
           job'[w].hash \in {NoHash, job[w].hash},
           JobOK(job[w])'
    PROVE  Core'
<1>1. PaymentsEvolve
  BY StillLedger
<1>2. JobInv'
  <2> SUFFICES ASSUME NEW v \in Workers PROVE JobOK(job[v])'
    BY DEF JobInv
  <2>1. CASE v = w
    BY <2>1
  <2>2. CASE v # w
    BY <1>1, <2>2, JobKept DEF Core, JobInv, ledgerVars
  <2> QED
    BY <2>1, <2>2
<1>3. OwnerInv'
  BY OwnerKept, NoRowAssumption DEF Core
<1>4. RowInv'
  BY <1>1, RowsKept
<1>5. PayInv'
  BY DEF Core, PayInv, PayOK, ledgerVars, Shows
<1>6. SessionInv'
  BY <1>1, RequestsKept, StillUnseen
<1> QED
  BY <1>2, <1>3, <1>4, <1>5, <1>6 DEF Core

\* A request goes on or ends without writing.
LEMMA RequestOnly ==
    ASSUME TypeOK, TypeOK', Core, NEW a \in Admins,
           UNCHANGED <<row, job, credited, ledgerVars>>,
           \A b \in Admins \ {a} : session'[b] = session[b],
           (RequestOK(session[a]) /\ Undisputed(session[a]) /\ FreshOK(session[a]))'
    PROVE  Core'
<1>1. JobInv' /\ OwnerInv' /\ RowInv' /\ PayInv'
  BY DEF Core, JobInv, OwnerInv, RowInv, PayInv, JobOK, Working, NobodyOwns, Owns, RowOK,
         RangeOf, Landed, Dead, PayOK, Shows, ledgerVars
<1>2. ASSUME NEW b \in Admins
      PROVE  (RequestOK(session[b]) /\ Undisputed(session[b]) /\ FreshOK(session[b]))'
  <2>1. CASE b = a
    BY <2>1
  <2>2. CASE b # a
    BY <2>2 DEF Core, SessionInv, RequestOK, Undisputed, FreshOK, Deciding, RangeOf, Sees,
                Landed, Dead, ledgerVars
  <2> QED
    BY <2>1, <2>2
<1> QED
  BY <1>1, <1>2 DEF Core, SessionInv

\* A write to row t contradicts nothing that a job on it knows.
SparesJobs(t) ==
    \/ \A w \in Workers : Working(job[w]) => job[w].row # t
    \/ row'[t].status = row[t].status /\ row'[t].hash = row[t].hash
    \/ SlowRpc /\ row'[t].status = "completed"

\* A write to rows ts by nobody's job, maybe by request a (the others are outdated).
LEMMA Outside ==
    ASSUME TypeOK, TypeOK', Core, NEW ts \in SUBSET Rows, NEW as \in SUBSET Admins,
           UNCHANGED <<job, ledgerVars>>,
           \A t \in Rows \ ts : row'[t] = row[t] /\ credited'[t] = credited[t],
           \A t \in ts : /\ RowOK(t, row[t], credited[t])'
                         /\ ShowsOn(t)
                         /\ row'[t].old => row[t].old /\ row'[t].status = row[t].status
                         /\ SparesJobs(t),
           \A b \in Admins \ as : /\ SameRequest(session'[b], session[b])
                                  /\ Deciding(session[b]) /\ session'[b].fresh =>
                                        session[b].fresh /\ session[b].row \notin ts,
           \A a \in as : /\ ~Deciding(session'[a])
                         /\ session'[a].at = "idle" <=> session'[a].row = NoRow
    PROVE  Core'
<1>1. PaymentsEvolve
  BY StillLedger
<1>2. JobInv'
  <2> SUFFICES ASSUME NEW w \in Workers PROVE JobOK(job[w])'
    BY DEF JobInv
  <2>1. JobOK(job[w]) /\ job'[w] = job[w]
    BY DEF Core, JobInv
  <2>2. Working(job[w]) => job[w].row \in Rows
    BY <2>1 DEF JobOK, Working, TypeOK, Job
  <2>3. Working(job[w]) => \/ /\ row'[job[w].row].status = row[job[w].row].status
                              /\ row'[job[w].row].hash = row[job[w].row].hash
                           \/ SlowRpc /\ row'[job[w].row].status = "completed"
    BY <2>1, <2>2 DEF SparesJobs
  <2>4. \A h \in Hashes : pay'[h].state = pay[h].state
    BY DEF ledgerVars
  <2> QED
    BY <1>1, <2>1, <2>3, <2>4, JobKept
<1>3. OwnerInv'
  BY OwnerKept, NoRowAssumption DEF Core
<1>4. RowInv'
  <2> SUFFICES ASSUME NEW t \in Rows PROVE RowOK(t, row[t], credited[t])'
    BY DEF RowInv
  <2>1. CASE t \in ts
    BY <2>1
  <2>2. CASE t \notin ts
    BY <1>1, <2>2, RowKept DEF Core, RowInv
  <2> QED
    BY <2>1, <2>2
<1>5. PayInv'
  <2>1. \A t \in Rows : ShowsOn(t)
    BY SameRowShowsOn
  <2>2. /\ \A h \in Hashes : pay'[h] = pay[h]
        /\ validated' >= validated /\ validated' \in Nat
    BY <1>1 DEF ledgerVars, PaymentsEvolve, TypeOK, LedgerTypeOK
  <2> QED
    BY <2>1, <2>2, PayKept DEF Core, PayInv
<1>6. SessionInv'
  <2> SUFFICES ASSUME NEW b \in Admins
               PROVE  (RequestOK(session[b]) /\ Undisputed(session[b]) /\ FreshOK(session[b]))'
    BY DEF SessionInv
  <2>1. CASE b \in as
    BY <2>1, Undecided
  <2>2. CASE b \notin as
    <3>1. RequestOK(session[b]) /\ Undisputed(session[b]) /\ FreshOK(session[b])
      BY DEF Core, SessionInv
    <3>2. RequestOK(session[b])'
      BY <1>1, <2>2, <3>1, RequestKept, StillUnseen
    <3>3. Undisputed(session[b])'
      BY <2>2, <3>1, UndisputedKept
    <3>4. Deciding(session[b]) => session[b].row \in Rows
      BY <3>1 DEF RequestOK, Deciding, TypeOK, Request
    <3>5. FreshOK(session[b])'
      BY <2>2, <3>1, <3>4, FreshKept
    <3> QED
      BY <3>2, <3>3, <3>5
  <2> QED
    BY <2>1, <2>2
<1> QED
  BY <1>2, <1>3, <1>4, <1>5, <1>6 DEF Core

\* The same for the one UPDATE of a row by an actor that is no job: new is what it
\* writes, and it outdates the requests that have read the row.
UpdatesRow(t, new) ==
    /\ Write(t, new)
    /\ new \in TableRow
    /\ RowOK(t, new, credited'[t])
    /\ \A u \in Rows \ {t} : credited'[u] = credited[u]
    /\ row[t].cashin = "received" => new.cashin = "received"
    /\ \A h \in Hashes : ~SlowRpc /\ Shows(row[t], h) => Shows(new, h)
    /\ \/ \A w \in Workers : Working(job[w]) => job[w].row # t
       \/ new.status = row[t].status /\ new.hash = row[t].hash
       \/ SlowRpc /\ new.status = "completed"

LEMMA UpdateEffect ==
    ASSUME TypeOK, NEW t \in Rows, NEW new, UpdatesRow(t, new), UNCHANGED ledgerVars
    PROVE  /\ \A u \in Rows \ {t} : row'[u] = row[u] /\ credited'[u] = credited[u]
           /\ RowOK(t, row[t], credited[t])'
           /\ ShowsOn(t)
           /\ ~row'[t].old
           /\ SparesJobs(t)
<1>1. new \in TableRow /\ Write(t, new)
  BY DEF UpdatesRow
<1>2. /\ \A u \in Rows \ {t} : row'[u] = row[u]
      /\ row'[t].cashin = new.cashin /\ row'[t].status = new.status
      /\ row'[t].hash = new.hash /\ row'[t].first = new.first /\ row'[t].last = new.last
      /\ row'[t].archive = new.archive /\ row'[t].old = FALSE
  BY <1>1, WriteEffect
<1>3. RowOK(t, row[t], credited[t])'
  <2>1. RowOK(t, new, credited'[t])
    BY DEF UpdatesRow
  <2> QED
    BY <1>2, <2>1 DEF RowOK, RangeOf, Landed, Dead, ledgerVars
<1>4. ShowsOn(t)
  BY <1>2 DEF UpdatesRow, ShowsOn, Shows
<1> QED
  BY <1>2, <1>3, <1>4 DEF UpdatesRow, SparesJobs

LEMMA OutsideUpdate ==
    ASSUME TypeOK, TypeOK', Core, NEW t \in Rows, NEW new, UpdatesRow(t, new),
           UNCHANGED <<job, ledgerVars>>, Outdate(t)
    PROVE  Core'
<1> DEFINE ts == {t}
           as == {}
<1>1. /\ \A u \in Rows \ ts : row'[u] = row[u] /\ credited'[u] = credited[u]
      /\ \A u \in ts : /\ RowOK(u, row[u], credited[u])'
                       /\ ShowsOn(u)
                       /\ row'[u].old => row[u].old /\ row'[u].status = row[u].status
                       /\ SparesJobs(u)
  BY UpdateEffect
<1>2. \A b \in Admins \ as : /\ SameRequest(session'[b], session[b])
                             /\ Deciding(session[b]) /\ session'[b].fresh =>
                                   session[b].fresh /\ session[b].row \notin ts
  BY OutdateEffect
<1>3. ts \in SUBSET Rows /\ as \in SUBSET Admins /\ as = {}
  OBVIOUS
<1> HIDE DEF ts, as
<1> QED
  BY <1>1, <1>2, <1>3, Outside

LEMMA RequestUpdate ==
    ASSUME TypeOK, TypeOK', Core, NEW t \in Rows, NEW new, UpdatesRow(t, new),
           UNCHANGED <<job, ledgerVars>>, NEW a \in Admins,
           OutdateAndGo(t, a, "publish") \/ OutdateAndEnd(t, a)
    PROVE  Core'
<1> DEFINE ts == {t}
           as == {a}
<1>1. /\ \A u \in Rows \ ts : row'[u] = row[u] /\ credited'[u] = credited[u]
      /\ \A u \in ts : /\ RowOK(u, row[u], credited[u])'
                       /\ ShowsOn(u)
                       /\ row'[u].old => row[u].old /\ row'[u].status = row[u].status
                       /\ SparesJobs(u)
  BY UpdateEffect
<1>2. /\ \A b \in Admins \ as : /\ SameRequest(session'[b], session[b])
                                /\ Deciding(session[b]) /\ session'[b].fresh =>
                                      session[b].fresh /\ session[b].row \notin ts
      /\ ~Deciding(session'[a])
      /\ session'[a].at = "idle" <=> session'[a].row = NoRow
  <2>1. CASE OutdateAndGo(t, a, "publish")
    BY <2>1, OutdateAndGoEffect, NoRowAssumption DEF Deciding
  <2>2. CASE OutdateAndEnd(t, a)
    BY <2>2, OutdateAndEndEffect DEF Deciding
  <2> QED
    BY <2>1, <2>2
<1>3. ts \in SUBSET Rows /\ as \in SUBSET Admins /\ \A b \in as : b = a
  OBVIOUS
<1> HIDE DEF ts, as
<1> QED
  BY <1>1, <1>2, <1>3, Outside

-----------------------------------------------------------------------------
(* Creation, cash-in, and the passing of time.                             *)

LEMMA CreateRemittanceStep ==
    ASSUME TypeOK, TypeOK', Core, NEW t \in Rows, CreateRemittance(t)
    PROVE  Core'
<1>1. PICK c \in {"pending", "failed"} : row' = [row EXCEPT ![t] = [@ EXCEPT !.cashin = c]]
  BY DEF CreateRemittance
<1>2. /\ \A u \in Rows \ {t} : row'[u] = row[u]
      /\ row'[t].cashin = c /\ row'[t].status = row[t].status /\ row'[t].hash = row[t].hash
      /\ row'[t].first = row[t].first /\ row'[t].last = row[t].last
      /\ row'[t].archive = row[t].archive /\ row'[t].old = row[t].old
  BY <1>1 DEF TypeOK, TableRow
<1>3. row[t].cashin = "absent" /\ row[t].status = "not_queued"
  BY DEF CreateRemittance, Core, RowInv, RowOK
<1>4. UNCHANGED <<job, session, credited, ledgerVars>>
  BY DEF CreateRemittance
<1>5. RowOK(t, row[t], credited[t])'
  <2>1. RowOK(t, row[t], credited[t])
    BY DEF Core, RowInv
  <2> QED
    BY <1>2, <1>3, <1>4, <2>1 DEF RowOK, RangeOf, Landed, Dead, ledgerVars
<1>6. ShowsOn(t)
  BY <1>2, <1>3 DEF ShowsOn, Shows
<1>7. \A b \in Admins : /\ SameRequest(session'[b], session[b])
                        /\ Deciding(session[b]) /\ session[b].fresh => session[b].row # t
  BY <1>3, <1>4 DEF Core, SessionInv, FreshOK, RequestOK, SameRequest
<1> DEFINE ts == {t}
           as == {}
<1>8. /\ \A u \in Rows \ ts : row'[u] = row[u] /\ credited'[u] = credited[u]
      /\ \A u \in ts : /\ RowOK(u, row[u], credited[u])'
                       /\ ShowsOn(u)
                       /\ row'[u].old => row[u].old /\ row'[u].status = row[u].status
                       /\ SparesJobs(u)
  BY <1>2, <1>4, <1>5, <1>6 DEF SparesJobs
<1>9. \A b \in Admins : Deciding(session[b]) /\ session'[b].fresh =>
                           session[b].fresh /\ session[b].row \notin ts
  BY <1>4, <1>7
<1>10. ts \in SUBSET Rows /\ as \in SUBSET Admins /\ as = {}
  OBVIOUS
<1> HIDE DEF ts, as
<1> QED
  BY <1>4, <1>7, <1>8, <1>9, <1>10, Outside

LEMMA MarkCashinReceivedStep ==
    ASSUME TypeOK, TypeOK', Core, NEW a \in Admins, NEW t \in Rows, MarkCashinReceived(a, t)
    PROVE  Core'
<1> DEFINE new == [row[t] EXCEPT !.cashin = "received", !.status = "queued"]
<1>1. new \in TableRow /\ Write(t, new)
  BY RowTypes DEF MarkCashinReceived, TypeOK
<1>2. /\ new.cashin = "received" /\ new.status = "queued" /\ new.hash = row[t].hash
      /\ new.first = row[t].first /\ new.last = row[t].last /\ new.archive = row[t].archive
  BY DEF TypeOK, TableRow
<1> HIDE DEF new
<1>3. RowOK(t, row[t], credited[t]) /\ row[t].status = "not_queued" /\ row[t].hash = NoHash
  BY DEF MarkCashinReceived, Core, RowInv, RowOK
<1>4. UNCHANGED <<job, credited, ledgerVars>> /\ OutdateAndGo(t, a, "publish")
  BY DEF MarkCashinReceived
<1>5. RowOK(t, new, credited'[t])
  BY <1>2, <1>3, <1>4 DEF RowOK
<1>6. \A w \in Workers : Working(job[w]) => job[w].row # t
  BY <1>3 DEF Core, JobInv, JobOK
<1>7. UpdatesRow(t, new)
  BY <1>1, <1>2, <1>4, <1>5, <1>6 DEF UpdatesRow, Shows
<1> QED
  BY <1>4, <1>7, RequestUpdate

LEMMA MarkCashinFailedStep ==
    ASSUME TypeOK, TypeOK', Core, NEW t \in Rows, MarkCashinFailed(t)
    PROVE  Core'
<1> DEFINE new == [row[t] EXCEPT !.cashin = "failed"]
<1>1. new \in TableRow /\ Write(t, new)
  BY RowTypes DEF MarkCashinFailed, TypeOK, CashIn
<1>2. /\ new.cashin = "failed" /\ new.status = row[t].status /\ new.hash = row[t].hash
      /\ new.first = row[t].first /\ new.last = row[t].last /\ new.archive = row[t].archive
  BY DEF TypeOK, TableRow
<1> HIDE DEF new
<1>3. RowOK(t, row[t], credited[t]) /\ row[t].status = "not_queued" /\ row[t].cashin = "pending"
  BY DEF MarkCashinFailed, Core, RowInv, RowOK
<1>4. UNCHANGED <<job, credited, ledgerVars>> /\ Outdate(t)
  BY DEF MarkCashinFailed
<1>5. RowOK(t, new, credited'[t])
  BY <1>2, <1>3, <1>4 DEF RowOK
<1>6. UpdatesRow(t, new)
  BY <1>1, <1>2, <1>3, <1>4, <1>5 DEF UpdatesRow, Shows
<1> QED
  BY <1>4, <1>6, OutsideUpdate

LEMMA SetAmlFlagStep ==
    ASSUME TypeOK, TypeOK', Core, NEW t \in Rows, SetAmlFlag(t)
    PROVE  Core'
<1>1. row[t] \in TableRow /\ RowOK(t, row[t], credited[t])
  BY DEF TypeOK, Core, RowInv
<1>2. UNCHANGED <<job, credited, ledgerVars>> /\ Outdate(t) /\ Write(t, row[t])
  BY DEF SetAmlFlag
<1>3. UpdatesRow(t, row[t])
  BY <1>1, <1>2 DEF UpdatesRow
<1> QED
  BY <1>2, <1>3, OutsideUpdate

LEMMA ExpireStaleCashinsStep ==
    ASSUME TypeOK, TypeOK', Core, NEW stale \in SUBSET Rows, ExpireStaleCashins(stale)
    PROVE  Core'
<1>1. UNCHANGED <<job, credited, ledgerVars>>
  BY DEF ExpireStaleCashins
<1>2. ASSUME NEW t \in stale
      PROVE  /\ RowOK(t, row[t], credited[t])'
             /\ ShowsOn(t)
             /\ ~row'[t].old
             /\ SparesJobs(t)
  <2>1. RowOK(t, row[t], credited[t]) /\ row[t].cashin = "pending"
    BY DEF ExpireStaleCashins, Core, RowInv
  <2>2. row'[t] = [row[t] EXCEPT !.cashin = "failed", !.old = FALSE]
    BY DEF ExpireStaleCashins
  <2>3. /\ row'[t].cashin = "failed" /\ row'[t].status = row[t].status
        /\ row'[t].hash = row[t].hash /\ row'[t].first = row[t].first
        /\ row'[t].last = row[t].last /\ row'[t].archive = row[t].archive /\ ~row'[t].old
    BY <2>2 DEF TypeOK, TableRow
  <2> QED
    BY <1>1, <2>1, <2>3
       DEF RowOK, RangeOf, Landed, Dead, ShowsOn, Shows, SparesJobs, ledgerVars
<1>3. \A t \in Rows \ stale : row'[t] = row[t]
  BY DEF ExpireStaleCashins
<1>4. ASSUME NEW b \in Admins
      PROVE  /\ SameRequest(session'[b], session[b])
             /\ session'[b].fresh => session[b].fresh /\ session[b].row \notin stale
  <2>1. CASE session[b].row \in stale
    BY <2>1, OutdatedRequest DEF ExpireStaleCashins
  <2>2. CASE session[b].row \notin stale
    BY <2>2 DEF ExpireStaleCashins, SameRequest
  <2> QED
    BY <2>1, <2>2
<1> DEFINE as == {}
<1>5. as \in SUBSET Admins /\ as = {}
  OBVIOUS
<1> HIDE DEF as
<1> QED
  BY <1>1, <1>2, <1>3, <1>4, <1>5, Outside

LEMMA GrowOldStep ==
    ASSUME TypeOK, TypeOK', Core, NEW t \in Rows, GrowOld(t)
    PROVE  Core'
<1>1. UNCHANGED <<job, session, credited, ledgerVars>> /\ NobodyOwns(t)
  BY DEF GrowOld
<1>2. PaymentsEvolve
  BY <1>1, StillLedger
<1>3. \A u \in Rows :
         /\ row'[u].cashin = row[u].cashin /\ row'[u].status = row[u].status
         /\ row'[u].hash = row[u].hash /\ row'[u].first = row[u].first
         /\ row'[u].last = row[u].last /\ row'[u].archive = row[u].archive
         /\ u # t => row'[u].old = row[u].old
  BY DEF GrowOld, TypeOK, TableRow
<1>4. JobInv'
  <2> SUFFICES ASSUME NEW w \in Workers PROVE JobOK(job[w])'
    BY DEF JobInv
  <2>1. JobOK(job[w]) /\ job'[w] = job[w] /\ (Working(job[w]) => job[w].row \in Rows)
    BY <1>1 DEF Core, JobInv, JobOK, Working, TypeOK, Job
  <2> QED
    BY <1>1, <1>2, <1>3, <2>1, JobKept DEF ledgerVars
<1>5. OwnerInv'
  BY <1>1, <1>3 DEF Core, OwnerInv, NobodyOwns, Owns
<1>6. RowInv'
  BY <1>1, <1>2, <1>3, RowKept DEF Core, RowInv
<1>7. PayInv'
  <2>1. \A u \in Rows : ShowsOn(u)
    BY <1>3, SameRowShowsOn
  <2>2. /\ \A h \in Hashes : pay'[h] = pay[h]
        /\ validated' >= validated /\ validated' \in Nat
    BY <1>1, <1>2 DEF ledgerVars, PaymentsEvolve, TypeOK, LedgerTypeOK
  <2> QED
    BY <2>1, <2>2, PayKept DEF Core, PayInv
<1>8. SessionInv'
  <2> SUFFICES ASSUME NEW a \in Admins
               PROVE  (RequestOK(session[a]) /\ Undisputed(session[a]) /\ FreshOK(session[a]))'
    BY DEF SessionInv
  <2>1. /\ RequestOK(session[a]) /\ Undisputed(session[a]) /\ FreshOK(session[a])
        /\ SameRequest(session'[a], session[a])
        /\ Deciding(session[a]) => session[a].row \in Rows
    BY <1>1 DEF Core, SessionInv, SameRequest, RequestOK, Deciding, TypeOK, Request
  <2>2. RequestOK(session[a])'
    BY <1>1, <1>2, <2>1, RequestKept, StillUnseen
  <2>3. Undisputed(session[a])'
    BY <1>1, <2>1, UndisputedKept
  <2>4. FreshOK(session[a])'
    BY <1>1, <1>3, <2>1, FreshKept
  <2> QED
    BY <2>2, <2>3, <2>4
<1> QED
  BY <1>4, <1>5, <1>6, <1>7, <1>8 DEF Core

-----------------------------------------------------------------------------
(* The admin's requests.                                                   *)

LEMMA EndStep ==
    ASSUME TypeOK, TypeOK', Core, NEW a \in Admins, End(a) \/ (Goto(a, "unpublish") /\ session[a].at # "idle"),
           UNCHANGED <<row, job, credited, ledgerVars>>
    PROVE  Core'
<1>1. /\ \A b \in Admins \ {a} : session'[b] = session[b]
      /\ ~Deciding(session'[a])
      /\ session'[a].at = "idle" <=> session'[a].row = NoRow
  <2>1. CASE End(a)
    BY <2>1, EndEffect DEF Deciding
  <2>2. CASE Goto(a, "unpublish") /\ session[a].at # "idle"
    BY <2>2, GotoEffect DEF Deciding, Core, SessionInv, RequestOK
  <2> QED
    BY <2>1, <2>2
<1> QED
  BY <1>1, Undecided, RequestOnly

LEMMA StartRequeueStep ==
    ASSUME TypeOK, TypeOK', Core, NEW a \in Admins, NEW t \in Rows, StartRequeue(a, t)
    PROVE  Core'
<1>1. /\ \A b \in Admins \ {a} : session'[b] = session[b]
      /\ session'[a].at = "publish" /\ session'[a].row = t
  BY DEF StartRequeue, IdleRequest, TypeOK
<1>2. UNCHANGED <<row, job, credited, ledgerVars>>
  BY DEF StartRequeue
<1> QED
  BY <1>1, <1>2, Undecided, RequestOnly, NoRowAssumption DEF Deciding

LEMMA StartRetryStep ==
    ASSUME TypeOK, TypeOK', Core, NEW a \in Admins, NEW t \in Rows, StartRetry(a, t)
    PROVE  Core'
<1>1. /\ \A b \in Admins \ {a} : session'[b] = session[b]
      /\ session'[a].at = IF row[t].hash = NoHash THEN "reset" ELSE "lookup"
      /\ session'[a].row = t /\ session'[a].from = row[t].status
      /\ session'[a].hash = row[t].hash /\ session'[a].first = row[t].first
      /\ session'[a].last = row[t].last
  BY DEF StartRetry, ReadRow, TypeOK
<1>2. UNCHANGED <<row, job, credited, ledgerVars>>
  BY DEF StartRetry
<1>3. row[t].status = "failed" \/ (row[t].status = "processing" /\ row[t].old)
  BY DEF StartRetry, IsStuck
<1>4. \A w \in Workers : Working(job[w]) => job[w].row # t
  BY <1>3 DEF Core, JobInv, JobOK, OwnerInv, NobodyOwns, Owns
<1>5. RowOK(t, row[t], credited[t])
  BY DEF Core, RowInv
<1>6. RequestOK(session[a])'
  BY <1>1, <1>2, <1>3, <1>5, NoRowAssumption
     DEF RequestOK, Deciding, RowOK, RangeOf, ledgerVars
<1>7. Undisputed(session[a])'
  <2> SUFFICES ASSUME row[t].hash # NoHash, NEW w \in Workers PROVE job[w].hash # row[t].hash
    BY <1>1, <1>2 DEF Undisputed
  <2>1. pay[row[t].hash].row = t
    BY <1>3, <1>5 DEF RowOK, RangeOf
  <2>2. JobOK(job[w])
    BY DEF Core, JobInv
  <2>3. CASE job[w].hash = NoHash
    BY <2>3
  <2>4. CASE job[w].hash # NoHash
    <3>1. Working(job[w]) /\ pay[job[w].hash].row = job[w].row
      BY <2>2, <2>4 DEF JobOK, Working, TypeOK, Job, JobStep
    <3> QED
      BY <1>4, <2>1, <3>1
  <2> QED
    BY <2>3, <2>4
<1>8. FreshOK(session[a])'
  BY <1>1, <1>2, <1>4 DEF FreshOK
<1> QED
  BY <1>1, <1>2, <1>6, <1>7, <1>8, RequestOnly

\* A request that learns something from the ledger and goes on to step s.
LEMMA GoOn ==
    ASSUME TypeOK, TypeOK', Core, NEW a \in Admins, NEW s \in {"reconcile", "reset", "latest", "range"},
           session[a].at \in {"lookup", "latest", "range"}, Goto(a, s),
           ~SlowRpc /\ s \in {"latest", "range"} => ~Sees(session[a].hash),
           s = "range" => session[a].last < validated,
           ~SlowRpc /\ s = "reset" => Dead(session[a].hash),
           s = "reconcile" => Landed(session[a].hash),
           UNCHANGED <<row, job, credited, ledgerVars>>
    PROVE  Core'
<1>1. /\ \A b \in Admins \ {a} : session'[b] = session[b]
      /\ session'[a].at = s /\ session'[a].row = session[a].row
      /\ session'[a].from = session[a].from /\ session'[a].hash = session[a].hash
      /\ session'[a].first = session[a].first /\ session'[a].last = session[a].last
      /\ session'[a].fresh = session[a].fresh
  BY GotoEffect
<1>2. /\ RequestOK(session[a]) /\ Undisputed(session[a]) /\ FreshOK(session[a])
      /\ Deciding(session[a]) /\ session[a].hash # NoHash
  BY DEF Core, SessionInv, RequestOK, Deciding
<1>3. RequestOK(session[a])'
  BY <1>1, <1>2 DEF RequestOK, Deciding, RangeOf, Sees, Dead, Landed, ledgerVars
<1>4. Undisputed(session[a])'
  BY <1>1, <1>2 DEF Undisputed
<1>5. FreshOK(session[a])'
  BY <1>1, <1>2 DEF FreshOK
<1> QED
  BY <1>1, <1>3, <1>4, <1>5, RequestOnly

LEMMA LookUpStep ==
    ASSUME TypeOK, TypeOK', Core, NEW a \in Admins, LookUp(a)
    PROVE  Core'
<1>1. session[a].at = "lookup" /\ UNCHANGED <<row, job, credited, ledgerVars>>
  BY DEF LookUp
<1>2. CASE SeesTes(session[a].hash) /\ Goto(a, "reconcile")
  BY <1>1, <1>2, GoOn DEF SeesTes, Landed
<1>3. CASE SeesTec(session[a].hash) /\ Goto(a, "reset")
  BY <1>1, <1>3, GoOn DEF SeesTec, Dead
<1>4. CASE ~Sees(session[a].hash) /\ Goto(a, "latest")
  BY <1>1, <1>4, GoOn
<1> QED
  BY <1>2, <1>3, <1>4 DEF LookUp

LEMMA CheckLatestStep ==
    ASSUME TypeOK, TypeOK', Core, NEW a \in Admins, CheckLatest(a)
    PROVE  Core'
<1>1. session[a].at = "latest" /\ UNCHANGED <<row, job, credited, ledgerVars>>
  BY DEF CheckLatest
<1>2. CASE End(a)
  BY <1>1, <1>2, EndStep
<1>3. CASE ~(validated <= session[a].last) /\ Goto(a, "range")
  <2>1. session[a].last < validated
    BY <1>3 DEF TypeOK, LedgerTypeOK, Request
  <2>2. ~SlowRpc => ~Sees(session[a].hash)
    BY <1>1 DEF Core, SessionInv, RequestOK
  <2> QED
    BY <1>1, <1>3, <2>1, <2>2, GoOn
<1> QED
  BY <1>2, <1>3 DEF CheckLatest

\* The heart of the retry: not found, the window closed, and no ledger of it missing,
\* together prove that the payment can never move funds.
LEMMA ProvablyDead ==
    ASSUME ~SlowRpc, TypeOK, Core, NEW a \in Admins, session[a].at = "range",
           Unbroken(session[a].first, session[a].last)
    PROVE  Dead(session[a].hash)
<1> DEFINE h == session[a].hash
<1>1. RequestOK(session[a])
  BY DEF Core, SessionInv
<1>2. /\ h \in Hashes /\ RangeOf(h, session[a].row, session[a].first, session[a].last)
      /\ ~Sees(h) /\ session[a].last < validated
  BY <1>1 DEF RequestOK, Deciding, TypeOK, Request
<1>3. PayOK(h) /\ pay[h] \in Payment
  BY <1>2 DEF Core, PayInv, TypeOK, LedgerTypeOK
<1>4. /\ session[a].first \in Nat /\ session[a].last \in Nat /\ validated \in Nat
      /\ pay[h].ledger \in Nat /\ pay[h].last = session[a].last
  BY <1>2, <1>3 DEF TypeOK, LedgerTypeOK, Request, Payment, RangeOf
<1> HIDE DEF h
<1>5. pay[h].state \notin {"tes", "tec"}
  <2> SUFFICES ASSUME pay[h].state \in {"tes", "tec"} PROVE FALSE
    OBVIOUS
  <2>1. pay[h].ledger > 0 /\ pay[h].ledger <= session[a].last
    BY <1>3, <1>4 DEF PayOK
  <2>2. session[a].first <= pay[h].ledger
    BY <1>2, <2>1 DEF RangeOf
  <2>3. pay[h].ledger \in session[a].first .. session[a].last
    BY <1>4, <2>1, <2>2
  <2> QED
    BY <1>2, <2>3 DEF Unbroken, Sees
<1>6. pay[h].state \in {"void", "signed", "submitted"}
  BY <1>2, <1>3, <1>5 DEF RangeOf, Payment, PayState
<1>7. Dead(h)
  BY <1>2, <1>4, <1>6 DEF Dead
<1> QED
  BY <1>7 DEF h

LEMMA CheckRangeStep ==
    ASSUME TypeOK, TypeOK', Core, NEW a \in Admins, CheckRange(a)
    PROVE  Core'
<1>1. session[a].at = "range" /\ UNCHANGED <<row, job, credited, ledgerVars>>
  BY DEF CheckRange
<1>2. CASE End(a)
  BY <1>1, <1>2, EndStep
<1>3. CASE Unbroken(session[a].first, session[a].last) /\ Goto(a, "reset")
  BY <1>1, <1>3, ProvablyDead, GoOn
<1> QED
  BY <1>2, <1>3 DEF CheckRange

LEMMA ResetStep ==
    ASSUME TypeOK, TypeOK', Core, NEW a \in Admins, Reset(a)
    PROVE  Core'
<1> DEFINE t == session[a].row
           new == [row[t] EXCEPT !.status = "queued", !.attempts = 0, !.hash = NoHash,
                                 !.first = 0, !.last = 0, !.archive = ArchivedAttempts(a)]
<1>1. /\ session[a].at = "reset" /\ Deciding(session[a])
      /\ UNCHANGED <<job, credited, ledgerVars>>
      /\ RequestOK(session[a]) /\ FreshOK(session[a]) /\ t \in Rows
  BY DEF Reset, Deciding, Core, SessionInv, RequestOK, TypeOK, Request
<1>2. CASE End(a) /\ UNCHANGED row
  BY <1>1, <1>2, EndStep
<1>3. CASE /\ row[t].status = session[a].from /\ session[a].fresh
           /\ Write(t, new) /\ OutdateAndGo(t, a, "publish")
  <2>1. /\ session[a].hash = row[t].hash
        /\ row[t].status \in {"failed", "processing"}
        /\ \A w \in Workers : Working(job[w]) => job[w].row # t
    BY <1>1, <1>3 DEF FreshOK, RequestOK
  <2>2. row[t] \in TableRow /\ RowOK(t, row[t], credited[t])
    BY <1>1 DEF TypeOK, Core, RowInv
  <2>3. ArchivedAttempts(a) \in SUBSET Attempt
    BY <1>1, <2>2 DEF ArchivedAttempts, Attempt, TypeOK, TableRow, Request
  <2>4. /\ row[t].archive \subseteq ArchivedAttempts(a)
        /\ \A e \in ArchivedAttempts(a) :
              RangeOf(e.hash, t, e.first, e.last) /\ (~SlowRpc => Dead(e.hash))
        /\ row[t].hash # NoHash => \E e \in ArchivedAttempts(a) : e.hash = row[t].hash
    <3>1. CASE session[a].hash = NoHash
      <4>1. ArchivedAttempts(a) = row[t].archive
        BY <3>1 DEF ArchivedAttempts
      <4> QED
        BY <2>1, <2>2, <3>1, <4>1 DEF RowOK
    <3>2. CASE session[a].hash # NoHash
      <4> DEFINE e == [hash |-> session[a].hash, first |-> session[a].first,
                       last |-> session[a].last]
      <4>1. ArchivedAttempts(a) = row[t].archive \cup {e}
        BY <3>2 DEF ArchivedAttempts
      <4>2. /\ RangeOf(session[a].hash, t, session[a].first, session[a].last)
            /\ ~SlowRpc => Dead(session[a].hash)
        BY <1>1, <3>2 DEF RequestOK
      <4>3. e.hash = session[a].hash /\ e.first = session[a].first /\ e.last = session[a].last
        OBVIOUS
      <4> HIDE DEF e
      <4>4. RangeOf(e.hash, t, e.first, e.last) /\ (~SlowRpc => Dead(e.hash))
        BY <4>2, <4>3
      <4> QED
        BY <2>1, <2>2, <4>1, <4>3, <4>4 DEF RowOK
    <3> QED
      BY <3>1, <3>2
  <2>5. new \in TableRow
    BY <2>2, <2>3, RowTypes
  <2>6. /\ new.cashin = row[t].cashin /\ new.status = "queued" /\ new.hash = NoHash
        /\ new.archive = ArchivedAttempts(a)
    BY <2>2 DEF TableRow
  <2> HIDE DEF new
  <2>7. RowOK(t, new, credited'[t])
    BY <1>1, <2>1, <2>2, <2>4, <2>6 DEF RowOK
  <2>8. \A h \in Hashes : Shows(row[t], h) => Shows(new, h)
    BY <2>4, <2>6, NoHashAssumption DEF Shows
  <2>9. UpdatesRow(t, new)
    BY <1>1, <1>3, <2>1, <2>5, <2>6, <2>7, <2>8 DEF UpdatesRow
  <2> QED
    BY <1>1, <1>3, <2>9, RequestUpdate
<1> QED
  BY <1>2, <1>3 DEF Reset

\* A payment that landed is its row's own hash, so no live job can be on that row.
LEMMA LandedIsShown ==
    ASSUME ~SlowRpc, TypeOK, Core, NEW h \in Hashes, NEW t \in Rows, pay[h].row = t, Landed(h)
    PROVE  row[t].hash = h
<1>1. pay[h].state = "tes" /\ ~Dead(h)
  BY DEF Landed, Dead
<1>2. PayOK(h) /\ RowOK(t, row[t], credited[t])
  BY DEF Core, PayInv, RowInv
<1> QED
  BY <1>1, <1>2 DEF PayOK, Shows, RowOK

LEMMA ReconcileStep ==
    ASSUME TypeOK, TypeOK', Core, NEW a \in Admins, Reconcile(a)
    PROVE  Core'
<1> DEFINE t == session[a].row
           h == session[a].hash
           new == [row[t] EXCEPT !.status = "completed", !.hash = h]
<1>1. /\ session[a].at = "reconcile" /\ Deciding(session[a])
      /\ UNCHANGED <<job, ledgerVars>>
      /\ RequestOK(session[a]) /\ Undisputed(session[a]) /\ t \in Rows
  BY DEF Reconcile, Deciding, Core, SessionInv, RequestOK, TypeOK, Request
<1>2. CASE End(a) /\ UNCHANGED <<row, credited>>
  BY <1>1, <1>2, EndStep
<1>3. CASE /\ row[t].status = session[a].from
           /\ Write(t, new) /\ OutdateAndEnd(t, a)
           /\ credited' = [credited EXCEPT ![t] = @ + 1]
  <2>1. h \in Hashes /\ RangeOf(h, t, session[a].first, session[a].last) /\ Landed(h)
    BY <1>1 DEF RequestOK, TypeOK, Request
  <2>2. ~SlowRpc => row[t].hash = h
    BY <1>1, <2>1, LandedIsShown DEF RangeOf
  <2>3. row[t].status \in {"failed", "processing"}
    BY <1>1, <1>3 DEF RequestOK
  <2>4. ASSUME ~SlowRpc, NEW w \in Workers, Working(job[w]) PROVE job[w].row # t
    <3>1. JobOK(job[w]) /\ job[w].hash # h
      BY <1>1, <2>1, NoHashAssumption DEF Core, JobInv, Undisputed
    <3>2. job[w] \in Job
      BY DEF TypeOK
    <3> QED
      BY <2>1, <2>2, <2>4, <3>1, <3>2, NoHashAssumption DEF JobOK, Working, Job, JobStep
  <2>5. row[t] \in TableRow /\ RowOK(t, row[t], credited[t])
    BY <1>1 DEF TypeOK, Core, RowInv
  <2>6. new \in TableRow
    BY <2>1, <2>5, RowTypes DEF Settlements
  <2>7. /\ new.cashin = row[t].cashin /\ new.status = "completed" /\ new.hash = h
        /\ new.first = row[t].first /\ new.last = row[t].last /\ new.archive = row[t].archive
    BY <2>5 DEF TableRow
  <2>8. credited'[t] = 1 /\ \A u \in Rows \ {t} : credited'[u] = credited[u]
    BY <1>1, <1>3, <2>3, <2>5 DEF RowOK, TypeOK
  <2> HIDE DEF new
  <2>9. RowOK(t, new, credited'[t])
    BY <2>1, <2>2, <2>3, <2>5, <2>7, <2>8, NoHashAssumption DEF RowOK
  <2>10. UpdatesRow(t, new)
    BY <1>3, <2>2, <2>4, <2>6, <2>7, <2>8, <2>9 DEF UpdatesRow, Shows
  <2> QED
    BY <1>1, <1>3, <2>10, RequestUpdate
<1> QED
  BY <1>2, <1>3 DEF Reconcile

LEMMA UnpublishStep ==
    ASSUME TypeOK, TypeOK', Core, NEW a \in Admins, Unpublish(a)
    PROVE  Core'
<1> DEFINE t == session[a].row
           new == [row[t] EXCEPT !.status = "failed"]
<1>1. /\ session[a].at = "unpublish" /\ UNCHANGED <<job, credited, ledgerVars>>
      /\ RequestOK(session[a]) /\ t \in Rows
  BY DEF Unpublish, Core, SessionInv, RequestOK, TypeOK, Request
<1>2. CASE End(a) /\ UNCHANGED row
  BY <1>1, <1>2, EndStep
<1>3. CASE row[t].status = "queued" /\ Write(t, new) /\ OutdateAndEnd(t, a)
  <2>1. row[t] \in TableRow /\ RowOK(t, row[t], credited[t])
    BY <1>1 DEF TypeOK, Core, RowInv
  <2>2. new \in TableRow
    BY <2>1, RowTypes DEF Settlements
  <2>3. /\ new.cashin = row[t].cashin /\ new.status = "failed" /\ new.hash = row[t].hash
        /\ new.first = row[t].first /\ new.last = row[t].last /\ new.archive = row[t].archive
    BY <2>1 DEF TableRow
  <2> HIDE DEF new
  <2>4. \A w \in Workers : Working(job[w]) => job[w].row # t
    BY <1>3 DEF Core, JobInv, JobOK
  <2>5. RowOK(t, new, credited'[t])
    BY <1>1, <1>3, <2>1, <2>3 DEF RowOK
  <2>6. UpdatesRow(t, new)
    BY <1>1, <1>3, <2>2, <2>3, <2>4, <2>5 DEF UpdatesRow, Shows
  <2> QED
    BY <1>1, <1>3, <2>6, RequestUpdate
<1> QED
  BY <1>2, <1>3 DEF Unpublish

LEMMA RequestStepsKeepCore ==
    ASSUME TypeOK, TypeOK', Core, NEW a \in Admins, RequestSteps(a) \/ Abort(a)
    PROVE  Core'
<1>1. CASE Publish(a) \/ PublishRaises(a) \/ Abort(a)
  BY <1>1, EndStep DEF Publish, PublishRaises, Abort
<1> QED
  BY <1>1, LookUpStep, CheckLatestStep, CheckRangeStep, ResetStep, ReconcileStep, UnpublishStep
     DEF RequestSteps

-----------------------------------------------------------------------------
(* The worker's writes.                                                    *)

\* Worker w writes row t, which is or becomes its own.
LEMMA WorkerUpdate ==
    ASSUME TypeOK, TypeOK', Core, NEW w \in Workers, NEW t \in Rows,
           NEW new \in TableRow, Write(t, new), Outdate(t), PaymentsEvolve, Unrevealing,
           \A u \in Rows \ {t} : credited'[u] = credited[u],
           RowOK(t, row[t], credited[t])', PayInv', JobOK(job[w])',
           \A h \in Hashes : \/ pay'[h].state = pay[h].state
                             \/ pay[h].state = "unsigned",
           \A v \in Workers \ {w} : job'[v] = job[v] /\ (Working(job[v]) => job[v].row # t),
           Working(job'[w]) => job'[w].row = t,
           job'[w].row \in {NoRow, t},
           \A a \in Admins : Deciding(session[a]) /\ session[a].hash # NoHash =>
                                job'[w].hash # session[a].hash
    PROVE  Core'
<1>1. /\ \A u \in Rows \ {t} : row'[u] = row[u]
      /\ row'[t].old = FALSE
  BY WriteEffect
<1>2. JobInv'
  <2> SUFFICES ASSUME NEW v \in Workers PROVE JobOK(job[v])'
    BY DEF JobInv
  <2>1. CASE v = w
    BY <2>1
  <2>2. CASE v # w
    <3>1. /\ JobOK(job[v]) /\ job'[v] = job[v]
          /\ Working(job[v]) => job[v].row \in Rows \ {t}
      BY <2>2 DEF Core, JobInv, JobOK, Working, TypeOK, Job
    <3> QED
      BY <1>1, <3>1, JobKept
  <2> QED
    BY <2>1, <2>2
<1>3. OwnerInv'
  <2>1. \A v, x \in Workers :
           Working(job'[v]) /\ Working(job'[x]) /\ job'[v].row = job'[x].row => v = x
    BY DEF Core, OwnerInv
  <2>2. ASSUME NEW u \in Rows, row'[u].status = "processing", row'[u].old
        PROVE  \A v \in Workers : job'[v].row # u
    <3>1. u # t /\ row'[u] = row[u]
      BY <1>1, <2>2
    <3>2. \A v \in Workers : job[v].row # u
      BY <2>2, <3>1 DEF Core, OwnerInv, NobodyOwns, Owns
    <3> QED
      BY <3>1, <3>2, NoRowAssumption
  <2> QED
    BY <2>1, <2>2 DEF OwnerInv, NobodyOwns, Owns
<1>4. RowInv'
  <2> SUFFICES ASSUME NEW u \in Rows PROVE RowOK(u, row[u], credited[u])'
    BY DEF RowInv
  <2>1. CASE u = t
    BY <2>1
  <2>2. CASE u # t
    BY <1>1, <2>2, RowKept DEF Core, RowInv
  <2> QED
    BY <2>1, <2>2
<1>5. SessionInv'
  <2> SUFFICES ASSUME NEW b \in Admins
               PROVE  (RequestOK(session[b]) /\ Undisputed(session[b]) /\ FreshOK(session[b]))'
    BY DEF SessionInv
  <2>1. /\ RequestOK(session[b]) /\ Undisputed(session[b]) /\ FreshOK(session[b])
        /\ Deciding(session[b]) => session[b].row \in Rows
    BY DEF Core, SessionInv, RequestOK, Deciding, TypeOK, Request
  <2>2. /\ SameRequest(session'[b], session[b])
        /\ session'[b].fresh => session[b].fresh /\ session[b].row # t
    BY OutdateEffect
  <2>3. RequestOK(session[b])'
    BY <2>1, <2>2, RequestKept
  <2>4. Undisputed(session[b])'
    BY <2>1, <2>2 DEF Undisputed, Deciding, SameRequest
  <2>5. FreshOK(session[b])'
    BY <1>1, <2>1, <2>2, FreshKept
  <2> QED
    BY <2>3, <2>4, <2>5
<1> QED
  BY <1>2, <1>3, <1>4, <1>5 DEF Core

LEMMA ClaimStep ==
    ASSUME TypeOK, TypeOK', Core, NEW w \in Workers, NEW t \in Rows, Claim(w, t)
    PROVE  Core'
<1> DEFINE new == [row[t] EXCEPT !.status = "processing", !.attempts = @ + 1]
<1>1. /\ row[t] \in TableRow /\ RowOK(t, row[t], credited[t])
      /\ row[t].status = "queued" /\ row[t].hash = NoHash
      /\ UNCHANGED <<credited, ledgerVars>> /\ Outdate(t)
  BY DEF Claim, Claimable, TypeOK, Core, RowInv
<1>2. new \in TableRow /\ Write(t, new)
  BY <1>1, RowTypes DEF Claim
<1>3. /\ new.cashin = row[t].cashin /\ new.status = "processing" /\ new.hash = NoHash
      /\ new.first = row[t].first /\ new.last = row[t].last /\ new.archive = row[t].archive
  BY <1>1 DEF TableRow
<1> HIDE DEF new
<1>4. /\ \A u \in Rows \ {t} : row'[u] = row[u]
      /\ row'[t].cashin = new.cashin /\ row'[t].status = new.status
      /\ row'[t].hash = new.hash /\ row'[t].first = new.first /\ row'[t].last = new.last
      /\ row'[t].archive = new.archive
  BY <1>2, WriteEffect
<1>5. /\ job'[w].at = "provision" /\ job'[w].row = t /\ job'[w].hash = NoHash
      /\ \A v \in Workers \ {w} : job'[v] = job[v]
  BY DEF Claim, TypeOK
<1>6. \A v \in Workers : Working(job[v]) => job[v].row # t
  BY <1>1 DEF Core, JobInv, JobOK
<1>7. PaymentsEvolve /\ Unrevealing
  BY <1>1, StillLedger, StillUnseen
<1>8. RowOK(t, row[t], credited[t])'
  BY <1>1, <1>3, <1>4 DEF RowOK, RangeOf, Landed, Dead, ledgerVars
<1>9. JobOK(job[w])'
  BY <1>3, <1>4, <1>5, NoRowAssumption DEF JobOK, Working
<1>10. PayInv'
  <2>1. \A u \in Rows : ShowsOn(u)
    BY <1>1, <1>3, <1>4 DEF ShowsOn, Shows
  <2>2. /\ \A h \in Hashes : pay'[h] = pay[h]
        /\ validated' >= validated /\ validated' \in Nat
    BY <1>1, <1>7 DEF ledgerVars, PaymentsEvolve, TypeOK, LedgerTypeOK
  <2> QED
    BY <2>1, <2>2, PayKept DEF Core, PayInv
<1> QED
  BY <1>1, <1>2, <1>5, <1>6, <1>7, <1>8, <1>9, <1>10, WorkerUpdate DEF ledgerVars

\* A job whose row is completed under it ends without a write.
LEMMA DropStep ==
    ASSUME TypeOK, TypeOK', Core, NEW w \in Workers, NEW new, NEW c,
           row[job[w].row].status # "processing", IfProcessing(job[w].row, new, c),
           JobEnd(w), UNCHANGED ledgerVars
    PROVE  Core'
<1>1. /\ \A v \in Workers \ {w} : job'[v] = job[v]
      /\ job'[w].at = "idle" /\ job'[w].row = NoRow /\ job'[w].hash = NoHash
  BY JobEndEffect
<1>2. JobOK(job[w])' /\ ~Working(job'[w])
  BY <1>1 DEF JobOK, Working
<1>3. UNCHANGED <<row, session, credited>>
  BY DEF IfProcessing
<1> QED
  BY <1>1, <1>2, <1>3, JobOnly

\* A job's last write: its row is still processing, and moves to status s.
LEMMA FinishStep ==
    ASSUME TypeOK, TypeOK', Core, NEW w \in Workers, Working(job[w]),
           NEW t \in Rows, job[w].row = t, row[t].status = "processing",
           NEW s \in {"completed", "failed", "queued"}, NEW new,
           new \in TableRow, new.cashin = row[t].cashin, new.status = s,
           new.hash = row[t].hash, new.first = row[t].first,
           new.last = row[t].last, new.archive = row[t].archive,
           IfProcessing(t, new, IF s = "completed" THEN 1 ELSE 0),
           s = "completed" => new.hash # NoHash /\ (~SlowRpc => Landed(new.hash)),
           s = "queued" => new.hash = NoHash,
           \A v \in Workers \ {w} : job'[v] = job[v],
           \/ job'[w].at = "idle" /\ job'[w].row = NoRow
           \/ job'[w].at = "requeue" /\ job'[w].row = t,
           job'[w].hash = NoHash,
           UNCHANGED ledgerVars
    PROVE  Core'
<1>1. /\ t \in Rows /\ row[t].status = "processing" /\ RowOK(t, row[t], credited[t])
  BY DEF Core, JobInv, JobOK, RowInv, Working, TypeOK, Job
<1>2. /\ Write(t, new) /\ Outdate(t)
      /\ credited' = [credited EXCEPT ![t] = @ + (IF s = "completed" THEN 1 ELSE 0)]
  BY <1>1 DEF IfProcessing
<1>3. credited[t] = 0
  BY <1>1 DEF RowOK
<1>4. /\ credited'[t] = IF s = "completed" THEN 1 ELSE 0
      /\ \A u \in Rows \ {t} : credited'[u] = credited[u]
  BY <1>1, <1>2, <1>3 DEF TypeOK
<1>5. /\ \A u \in Rows \ {t} : row'[u] = row[u]
      /\ row'[t].cashin = new.cashin /\ row'[t].status = new.status
      /\ row'[t].hash = new.hash /\ row'[t].first = new.first /\ row'[t].last = new.last
      /\ row'[t].archive = new.archive
  BY <1>1, <1>2, WriteEffect
<1>6. PaymentsEvolve /\ Unrevealing
  BY StillLedger, StillUnseen
<1>7. RowOK(t, row[t], credited[t])'
  <2>1. RowOK(t, new, credited'[t])
    <3>1. /\ new.status \in {"not_queued", "queued"} => new.hash = NoHash
          /\ new.status = "completed" => new.hash # NoHash /\ (~SlowRpc => Landed(new.hash))
          /\ credited'[t] = IF new.status = "completed" THEN 1 ELSE 0
      BY <1>4
    <3> QED
      BY <1>1, <3>1 DEF RowOK
  <2> QED
    BY <1>5, <2>1 DEF RowOK, RangeOf, Landed, Dead, ledgerVars
<1>8. PayInv'
  <2>1. \A u \in Rows : ShowsOn(u)
    BY <1>1, <1>5 DEF ShowsOn, Shows
  <2>2. /\ \A h \in Hashes : pay'[h] = pay[h]
        /\ validated' >= validated /\ validated' \in Nat
    BY <1>6 DEF ledgerVars, PaymentsEvolve, TypeOK, LedgerTypeOK
  <2> QED
    BY <2>1, <2>2, PayKept DEF Core, PayInv
<1>9. JobOK(job[w])'
  BY <1>1, NoRowAssumption DEF JobOK, Working
<1>10. \A v \in Workers \ {w} : Working(job[v]) => job[v].row # t
  BY DEF Core, OwnerInv
<1>11. ~Working(job'[w]) /\ job'[w].row \in {NoRow, t}
  BY DEF Working
<1>12. /\ \A h \in Hashes : pay'[h].state = pay[h].state
       /\ \A a \in Admins : Deciding(session[a]) /\ session[a].hash # NoHash =>
                                job'[w].hash # session[a].hash
       /\ Working(job'[w]) => job'[w].row = t
  BY <1>11 DEF ledgerVars
<1> QED
  BY <1>1, <1>2, <1>4, <1>6, <1>7, <1>8, <1>9, <1>10, <1>11, <1>12, WorkerUpdate

LEMMA CompleteSettlementWrites ==
    ASSUME TypeOK, TypeOK', Core, NEW w \in Workers, CompleteSettlement(w),
           row[job[w].row].status = "processing"
    PROVE  Core'
<1> DEFINE t == job[w].row
           new == [row[t] EXCEPT !.status = "completed", !.hash = job[w].hash]
<1>1. /\ job[w].at = "succeeded" /\ JobOK(job[w]) /\ t \in Rows
      /\ IfProcessing(t, new, 1) /\ JobEnd(w) /\ UNCHANGED ledgerVars
  BY DEF CompleteSettlement, Core, JobInv, JobOK, TypeOK, Job
<1>2. Working(job[w]) /\ job[w].hash # NoHash /\ row[t].hash = job[w].hash /\ Landed(job[w].hash)
  BY <1>1 DEF JobOK, Working, Landed
<1>3. row[t] \in TableRow /\ job[w].hash \in Hashes \cup {NoHash}
  BY <1>1 DEF TypeOK, Job
<1>4. new \in TableRow
  BY <1>3, RowTypes DEF Settlements
<1>5. /\ new.cashin = row[t].cashin /\ new.status = "completed" /\ new.hash = row[t].hash
      /\ new.first = row[t].first /\ new.last = row[t].last /\ new.archive = row[t].archive
  BY <1>2, <1>3 DEF TableRow
<1> HIDE DEF new
<1>6. /\ \A v \in Workers \ {w} : job'[v] = job[v]
      /\ job'[w].at = "idle" /\ job'[w].row = NoRow /\ job'[w].hash = NoHash
  BY <1>1, JobEndEffect
<1>7. IfProcessing(job[w].row, new, IF "completed" = "completed" THEN 1 ELSE 0)
  BY <1>1
<1>8. new.hash # NoHash /\ Landed(new.hash)
  BY <1>2, <1>5
<1> QED
  BY <1>1, <1>2, <1>4, <1>5, <1>6, <1>7, <1>8, FinishStep

LEMMA FailSignedWrites ==
    ASSUME TypeOK, TypeOK', Core, NEW w \in Workers, FailSigned(w),
           row[job[w].row].status = "processing"
    PROVE  Core'
<1> DEFINE t == job[w].row
           new == [row[t] EXCEPT !.status = "failed", !.hash = job[w].hash]
<1>1. /\ job[w].at \in {"failed", "unknown"} /\ JobOK(job[w]) /\ t \in Rows
      /\ IfProcessing(t, new, 0) /\ JobEnd(w) /\ UNCHANGED ledgerVars
  BY DEF FailSigned, Core, JobInv, JobOK, TypeOK, Job
<1>2. Working(job[w]) /\ row[t].hash = job[w].hash
  BY <1>1 DEF JobOK, Working
<1>3. row[t] \in TableRow /\ job[w].hash \in Hashes \cup {NoHash}
  BY <1>1 DEF TypeOK, Job
<1>4. new \in TableRow
  BY <1>3, RowTypes DEF Settlements
<1>5. /\ new.cashin = row[t].cashin /\ new.status = "failed" /\ new.hash = row[t].hash
      /\ new.first = row[t].first /\ new.last = row[t].last /\ new.archive = row[t].archive
  BY <1>2, <1>3 DEF TableRow
<1> HIDE DEF new
<1>6. /\ \A v \in Workers \ {w} : job'[v] = job[v]
      /\ job'[w].at = "idle" /\ job'[w].row = NoRow /\ job'[w].hash = NoHash
  BY <1>1, JobEndEffect
<1>7. IfProcessing(job[w].row, new, IF "failed" = "completed" THEN 1 ELSE 0)
  BY <1>1
<1> QED
  BY <1>1, <1>2, <1>4, <1>5, <1>6, <1>7, FinishStep

LEMMA FailUnsignedWrites ==
    ASSUME TypeOK, TypeOK', Core, NEW w \in Workers, FailUnsigned(w),
           row[job[w].row].status = "processing"
    PROVE  Core'
<1> DEFINE t == job[w].row
           new == [row[t] EXCEPT !.status = "failed"]
<1>1. /\ job[w].at \in {"provision", "sign", "retry"} /\ JobOK(job[w]) /\ t \in Rows
      /\ IfProcessing(t, new, 0) /\ JobEnd(w) /\ UNCHANGED ledgerVars
  BY DEF FailUnsigned, Core, JobInv, JobOK, TypeOK, Job
<1>2. Working(job[w]) /\ row[t] \in TableRow
  BY <1>1 DEF Working, TypeOK
<1>3. new \in TableRow
  BY <1>2, RowTypes DEF Settlements
<1>4. /\ new.cashin = row[t].cashin /\ new.status = "failed" /\ new.hash = row[t].hash
      /\ new.first = row[t].first /\ new.last = row[t].last /\ new.archive = row[t].archive
  BY <1>2 DEF TableRow
<1> HIDE DEF new
<1>5. /\ \A v \in Workers \ {w} : job'[v] = job[v]
      /\ job'[w].at = "idle" /\ job'[w].row = NoRow /\ job'[w].hash = NoHash
  BY <1>1, JobEndEffect
<1>6. IfProcessing(job[w].row, new, IF "failed" = "completed" THEN 1 ELSE 0)
  BY <1>1
<1> QED
  BY <1>1, <1>2, <1>3, <1>4, <1>5, <1>6, FinishStep

LEMMA HandBackWrites ==
    ASSUME TypeOK, TypeOK', Core, NEW w \in Workers, HandBack(w),
           row[job[w].row].status = "processing"
    PROVE  Core'
<1> DEFINE t == job[w].row
           new == [row[t] EXCEPT !.status = "queued"]
<1>1. /\ job[w].at = "retry" /\ JobOK(job[w]) /\ t \in Rows
      /\ IfProcessing(t, new, 0) /\ UNCHANGED ledgerVars
      /\ row[t].status = "processing" /\ row[t].hash = NoHash
  BY DEF HandBack, Core, JobInv, JobOK, Working, TypeOK, Job
<1>2. job' = [job EXCEPT ![w] = [IdleJob EXCEPT !.at = "requeue", !.row = t]]
  BY <1>1 DEF HandBack
<1>3. Working(job[w]) /\ row[t] \in TableRow
  BY <1>1 DEF Working, TypeOK
<1>4. new \in TableRow
  BY <1>3, RowTypes DEF Settlements
<1>5. /\ new.cashin = row[t].cashin /\ new.status = "queued" /\ new.hash = row[t].hash
      /\ new.first = row[t].first /\ new.last = row[t].last /\ new.archive = row[t].archive
  BY <1>3 DEF TableRow
<1>6. /\ \A v \in Workers \ {w} : job'[v] = job[v]
      /\ job'[w].at = "requeue" /\ job'[w].row = t /\ job'[w].hash = NoHash
  BY <1>2 DEF IdleJob, TypeOK
<1> HIDE DEF new
<1>7. IfProcessing(job[w].row, new, IF "queued" = "completed" THEN 1 ELSE 0)
  BY <1>1
<1> QED
  BY <1>1, <1>3, <1>4, <1>5, <1>6, <1>7, FinishStep

LEMMA FinishingStep ==
    ASSUME TypeOK, TypeOK', Core, NEW w \in Workers,
           CompleteSettlement(w) \/ FailSigned(w) \/ FailUnsigned(w) \/ HandBack(w)
    PROVE  Core'
<1>1. CASE row[job[w].row].status = "processing"
  BY <1>1, CompleteSettlementWrites, FailSignedWrites, FailUnsignedWrites, HandBackWrites
<1>2. CASE row[job[w].row].status # "processing"
  BY <1>2, DropStep DEF CompleteSettlement, FailSigned, FailUnsigned, HandBack
<1> QED
  BY <1>1, <1>2

LEMMA SignStep ==
    ASSUME TypeOK, TypeOK', Core, NEW w \in Workers, NEW h \in Hashes, Sign(w, h)
    PROVE  Core'
<1>1. PICK t \in Rows : job[w].row = t
  BY DEF Sign, Core, JobInv, JobOK, TypeOK, Job
<1> DEFINE new == [row[t] EXCEPT !.hash = h, !.first = job[w].first, !.last = validated + Window]
<1>2. /\ JobOK(job[w]) /\ Working(job[w]) /\ job[w].at = "sign"
      /\ row[t].status = "processing" => row[t].hash = NoHash
      /\ row[t].status \in {"processing", "completed"} /\ (~SlowRpc => row[t].status = "processing")
      /\ job[w].first <= validated
      /\ RowOK(t, row[t], credited[t]) /\ row[t] \in TableRow
  BY <1>1 DEF Sign, Core, JobInv, JobOK, Working, RowInv, TypeOK
<1>3. SignPayment(h, t) /\ Write(t, new) /\ Outdate(t) /\ UNCHANGED credited
  BY <1>1 DEF Sign
<1>4. job[w].first \in Nat /\ validated \in Nat /\ validated + Window \in Nat
  BY WindowAssumption DEF TypeOK, LedgerTypeOK, Job
<1>5. new \in TableRow
  BY <1>2, <1>4, RowTypes
<1>6. /\ new.cashin = row[t].cashin /\ new.status = row[t].status /\ new.hash = h
      /\ new.first = job[w].first /\ new.last = validated + Window
      /\ new.archive = row[t].archive
  BY <1>2 DEF TableRow
<1> HIDE DEF new
<1>7. /\ \A u \in Rows \ {t} : row'[u] = row[u]
      /\ row'[t].cashin = row[t].cashin /\ row'[t].status = row[t].status /\ row'[t].hash = h
      /\ row'[t].first = job[w].first /\ row'[t].last = validated + Window
      /\ row'[t].archive = row[t].archive
  BY <1>3, <1>5, <1>6, WriteEffect
<1>8. /\ PaymentsEvolve /\ Unrevealing
      /\ \A k \in Hashes \ {h} : pay'[k] = pay[k]
      /\ pay[h].state = "unsigned"
      /\ pay'[h].row = t /\ pay'[h].state = "signed"
      /\ pay'[h].last = validated + Window /\ pay'[h].ledger = 0
      /\ validated' = validated
  BY <1>3, SignPaymentEffect
<1>9. /\ job'[w].at = "submit" /\ job'[w].row = t /\ job'[w].hash = h
      /\ \A v \in Workers \ {w} : job'[v] = job[v]
  BY <1>1 DEF Sign, TypeOK, Job
<1>10. PICK f \in Nat, l \in Nat : f = job[w].first /\ l = validated + Window
  BY <1>4
<1>11. RowOK(t, row[t], credited[t])'
  <2>1. RangeOf(h, t, f, l)'
    BY <1>2, <1>8, <1>10 DEF RangeOf
  <2>2. ASSUME NEW e \in row'[t].archive
        PROVE  (RangeOf(e.hash, t, e.first, e.last) /\ (~SlowRpc => Dead(e.hash)))'
    <3>1. e \in row[t].archive /\ e.hash \in Hashes /\ e.first \in Nat
      BY <1>2, <1>7, <2>2 DEF TableRow, Attempt
    <3>2. RangeOf(e.hash, t, e.first, e.last) /\ (~SlowRpc => Dead(e.hash))
      BY <1>2, <3>1 DEF RowOK
    <3>3. RangeOf(e.hash, t, e.first, e.last)'
      BY <1>8, <3>1, <3>2, RangeKept
    <3> QED
      BY <1>8, <3>1, <3>2, <3>3 DEF RangeOf, PaymentsEvolve, Evolves
  <2> QED
    BY <1>2, <1>3, <1>7, <1>10, <2>1, <2>2, NoHashAssumption DEF RowOK
<1>12. PayInv'
  <2>1. \A u \in Rows : ShowsOn(u)
    BY <1>2, <1>7, NoHashAssumption DEF ShowsOn, Shows
  <2>2. ASSUME NEW k \in Hashes, k # h PROVE PayOK(k)'
    BY <1>4, <1>8, <2>1, <2>2, PayKept DEF Core, PayInv
  <2>3. PayOK(h)'
    BY <1>2, <1>4, <1>7, <1>8 DEF PayOK, Shows, RowOK
  <2> QED
    BY <2>2, <2>3 DEF PayInv
<1>13. JobOK(job[w])'
  BY <1>2, <1>7, <1>8, <1>9, NoRowAssumption, NoHashAssumption DEF JobOK, Working
<1>14. \A v \in Workers \ {w} : job'[v] = job[v] /\ (Working(job[v]) => job[v].row # t)
  BY <1>1, <1>2, <1>9 DEF Core, OwnerInv
<1>15. ASSUME NEW a \in Admins, Deciding(session[a]), session[a].hash # NoHash
       PROVE  job'[w].hash # session[a].hash
  BY <1>8, <1>9, <1>15 DEF Core, SessionInv, RequestOK, RangeOf
<1>16. \A k \in Hashes : pay'[k].state = pay[k].state \/ pay[k].state = "unsigned"
  BY <1>8
<1>17. job'[w].row \in {NoRow, t} /\ (Working(job'[w]) => job'[w].row = t)
  BY <1>9
<1> QED
  BY <1>3, <1>5, <1>8, <1>11, <1>12, <1>13, <1>14, <1>15, <1>16, <1>17, WorkerUpdate

-----------------------------------------------------------------------------
(* The worker's other steps.                                               *)

\* Two jobs never pursue the same payment.
LEMMA OnePursuer ==
    ASSUME TypeOK, Core, NEW v \in Workers, NEW w \in Workers,
           job[v].hash # NoHash, job[w].hash = job[v].hash
    PROVE  v = w
<1>1. ASSUME NEW x \in Workers, job[x].hash # NoHash
      PROVE  Working(job[x]) /\ pay[job[x].hash].row = job[x].row
  BY <1>1 DEF Core, JobInv, JobOK, Working, TypeOK, Job, JobStep
<1> QED
  BY <1>1 DEF Core, OwnerInv

LEMMA SubmitStep ==
    ASSUME TypeOK, TypeOK', Core, NEW w \in Workers, Submit(w)
    PROVE  Core'
<1>1. PICK h \in Hashes : job[w].hash = h
  BY DEF Submit, Core, JobInv, JobOK, TypeOK, Job
<1>2. /\ job[w].at = "submit" /\ JobOK(job[w]) /\ pay[h].state = "signed" /\ Working(job[w])
      /\ UNCHANGED <<row, session, credited>>
  BY <1>1 DEF Submit, Core, JobInv, JobOK, Working
<1>3. PICK s \in {"submitted", "void"} :
         /\ SetState(h, s)
         /\ JobTo(w, IF s = "submitted" THEN "wait" ELSE "failed")
  BY <1>1 DEF Submit
<1>4. /\ PaymentsEvolve /\ Unrevealing
      /\ \A k \in Hashes \ {h} : pay'[k] = pay[k]
      /\ pay'[h].state = s /\ pay'[h].row = pay[h].row /\ pay'[h].last = pay[h].last
      /\ pay'[h].ledger = pay[h].ledger
      /\ validated' = validated
  BY <1>2, <1>3, SetStateEffect
<1>5. /\ \A v \in Workers \ {w} : job'[v] = job[v]
      /\ job'[w].at = IF s = "submitted" THEN "wait" ELSE "failed"
      /\ job'[w].row = job[w].row /\ job'[w].hash = h
  BY <1>1, <1>3, JobToEffect
<1>6. JobInv'
  <2> SUFFICES ASSUME NEW v \in Workers PROVE JobOK(job[v])'
    BY DEF JobInv
  <2>1. CASE v = w
    BY <1>1, <1>2, <1>4, <1>5, <2>1, NoHashAssumption DEF JobOK, Working
  <2>2. CASE v # w
    <3>1. JobOK(job[v]) /\ job'[v] = job[v] /\ job[v].hash \in Hashes \cup {NoHash}
      BY <1>5, <2>2 DEF Core, JobInv, TypeOK, Job
    <3>2. job[v].hash # h
      BY <1>1, <2>2, OnePursuer, NoHashAssumption
    <3>3. job[v].hash # NoHash => pay'[job[v].hash] = pay[job[v].hash]
      BY <1>4, <3>1, <3>2
    <3> QED
      BY <1>2, <1>4, <3>1, <3>3 DEF JobOK, Working
  <2> QED
    BY <2>1, <2>2
<1>7. OwnerInv'
  <2>1. \A v \in Workers : /\ Working(job'[v]) => Working(job[v]) /\ job'[v].row = job[v].row
                           /\ job'[v].row \in {job[v].row, NoRow}
    BY <1>2, <1>5
  <2> QED
    BY <1>2, <2>1, OwnerKept, NoRowAssumption DEF Core
<1>8. RowInv'
  BY <1>2, <1>4, RowsKept
<1>9. PayInv'
  <2>1. \A u \in Rows : ShowsOn(u)
    BY <1>2, SameRowsShow
  <2>2. validated' >= validated /\ validated' \in Nat
    BY <1>4 DEF PaymentsEvolve, TypeOK, LedgerTypeOK
  <2>3. ASSUME NEW k \in Hashes, k # h PROVE PayOK(k)'
    BY <1>4, <2>1, <2>2, <2>3, PayKept DEF Core, PayInv
  <2>4. PayOK(h)'
    <3>1. PayOK(h)
      BY DEF Core, PayInv
    <3> QED
      BY <1>2, <1>4, <3>1 DEF PayOK, Shows
  <2> QED
    BY <2>3, <2>4 DEF PayInv
<1>10. SessionInv'
  <2>1. \A v \in Workers : /\ Working(job'[v]) => Working(job[v]) /\ job'[v].row = job[v].row
                           /\ job'[v].hash \in {NoHash, job[v].hash}
    BY <1>1, <1>2, <1>5
  <2> QED
    BY <1>2, <1>4, <2>1, RequestsKept
<1> QED
  BY <1>6, <1>7, <1>8, <1>9, <1>10 DEF Core

\* Steps that change a job and nothing the rest of the invariant speaks of.
LEMMA ProvisionedStep ==
    ASSUME TypeOK, TypeOK', Core, NEW w \in Workers, Provisioned(w)
    PROVE  Core'
<1>1. /\ job[w].at = "provision" /\ JobTo(w, "lock") /\ JobOK(job[w])
      /\ UNCHANGED <<row, session, credited, ledgerVars>>
  BY DEF Provisioned, Core, JobInv
<1>2. /\ \A v \in Workers \ {w} : job'[v] = job[v]
      /\ job'[w].at = "lock" /\ job'[w].row = job[w].row /\ job'[w].hash = job[w].hash
  BY <1>1, JobToEffect
<1>3. JobOK(job[w])'
  BY <1>1, <1>2 DEF JobOK, Working
<1>4. Working(job'[w]) => Working(job[w])
  BY <1>1 DEF Working
<1> QED
  BY <1>1, <1>2, <1>3, <1>4, JobOnly

LEMMA AcquireLockStep ==
    ASSUME TypeOK, TypeOK', Core, NEW w \in Workers, AcquireLock(w)
    PROVE  Core'
<1>1. /\ job[w].at = "lock" /\ JobOK(job[w])
      /\ UNCHANGED <<row, session, credited, ledgerVars>>
  BY DEF AcquireLock, Core, JobInv
<1>2. /\ \A v \in Workers \ {w} : job'[v] = job[v]
      /\ job'[w].at = "sign" /\ job'[w].row = job[w].row /\ job'[w].hash = job[w].hash
      /\ job'[w].first = validated
  BY DEF AcquireLock, TypeOK, Job
<1>3. validated' = validated /\ validated \in Nat
  BY <1>1 DEF ledgerVars, TypeOK, LedgerTypeOK
<1>4. JobOK(job[w])'
  BY <1>1, <1>2, <1>3 DEF JobOK, Working
<1>5. Working(job'[w]) => Working(job[w])
  BY <1>1 DEF Working
<1> QED
  BY <1>1, <1>2, <1>4, <1>5, JobOnly

LEMMA AwaitStep ==
    ASSUME TypeOK, TypeOK', Core, NEW w \in Workers, Observe(w) \/ LoseSight(w)
    PROVE  Core'
<1>1. /\ job[w].at \in {"submit", "wait"} /\ JobOK(job[w])
      /\ UNCHANGED <<row, session, credited, ledgerVars>>
  BY DEF Observe, LoseSight, Core, JobInv
<1>2. PICK s \in {"succeeded", "failed", "unknown"} :
         JobTo(w, s) /\ (s = "succeeded" => pay[job[w].hash].state = "tes")
  BY DEF Observe, LoseSight
<1>3. /\ \A v \in Workers \ {w} : job'[v] = job[v]
      /\ job'[w].at = s /\ job'[w].row = job[w].row /\ job'[w].hash = job[w].hash
  BY <1>2, JobToEffect
<1>4. JobOK(job[w])'
  BY <1>1, <1>2, <1>3 DEF JobOK, Working, ledgerVars
<1>5. Working(job'[w]) => Working(job[w])
  BY <1>1 DEF Working
<1> QED
  BY <1>1, <1>3, <1>4, <1>5, JobOnly

LEMMA FailTransientlyStep ==
    ASSUME TypeOK, TypeOK', Core, NEW w \in Workers, FailTransiently(w)
    PROVE  Core'
<1>1. /\ job[w].at \in {"provision", "lock", "sign"} /\ JobTo(w, "retry") /\ JobOK(job[w])
      /\ UNCHANGED <<row, session, credited, ledgerVars>>
  BY DEF FailTransiently, Core, JobInv
<1>2. /\ \A v \in Workers \ {w} : job'[v] = job[v]
      /\ job'[w].at = "retry" /\ job'[w].row = job[w].row /\ job'[w].hash = job[w].hash
  BY <1>1, JobToEffect
<1>3. JobOK(job[w])'
  BY <1>1, <1>2 DEF JobOK, Working
<1>4. Working(job'[w]) => Working(job[w])
  BY <1>1 DEF Working
<1> QED
  BY <1>1, <1>2, <1>3, <1>4, JobOnly

LEMMA RequeueOrCrashStep ==
    ASSUME TypeOK, TypeOK', Core, NEW w \in Workers, Requeue(w) \/ Crash(w)
    PROVE  Core'
<1>1. JobEnd(w) /\ UNCHANGED <<row, session, credited, ledgerVars>>
  BY DEF Requeue, Crash
<1>2. /\ \A v \in Workers \ {w} : job'[v] = job[v]
      /\ job'[w].at = "idle" /\ job'[w].row = NoRow /\ job'[w].hash = NoHash
  BY <1>1, JobEndEffect
<1>3. JobOK(job[w])' /\ ~Working(job'[w])
  BY <1>2 DEF JobOK, Working
<1> QED
  BY <1>1, <1>2, <1>3, JobOnly

LEMMA JobStepsKeepCore ==
    ASSUME TypeOK, TypeOK', Core, NEW w \in Workers, JobSteps(w) \/ Crash(w)
    PROVE  Core'
BY ProvisionedStep, AcquireLockStep, SignStep, SubmitStep, AwaitStep, FailTransientlyStep,
   FinishingStep, RequeueOrCrashStep
   DEF JobSteps

-----------------------------------------------------------------------------
(* The ledger.                                                             *)

LEMMA LedgerClosesStep ==
    ASSUME TypeOK, TypeOK', Core, LedgerCloses
    PROVE  Core'
<1>1. /\ ~SlowRpc => \A a \in Admins : session[a].at \notin {"latest", "range"}
      /\ UNCHANGED <<row, job, session, credited>>
  BY DEF LedgerCloses, Querying
<1>2. PICK good \in SUBSET Hashes, bad \in SUBSET Hashes : CloseLedger(good, bad)
  BY DEF LedgerCloses
<1>3. /\ PaymentsEvolve
      /\ validated' = validated + 1
      /\ \A h \in Hashes :
            \/ pay'[h] = pay[h]
            \/ /\ pay[h].state = "submitted" /\ pay'[h].state \in {"tes", "tec"}
               /\ pay'[h].row = pay[h].row /\ pay'[h].last = pay[h].last
               /\ pay'[h].ledger = validated + 1 /\ validated + 1 <= pay[h].last
  BY <1>2, CloseLedgerEffect
<1>4. validated \in Nat
  BY DEF TypeOK, LedgerTypeOK
<1>5. JobInv'
  <2> SUFFICES ASSUME NEW w \in Workers PROVE JobOK(job[w])'
    BY DEF JobInv
  <2>1. JobOK(job[w]) /\ job'[w] = job[w] /\ row' = row
    BY <1>1 DEF Core, JobInv
  <2>2. /\ \A h \in Hashes : \/ pay'[h].state = pay[h].state
                             \/ pay[h].state = "submitted" /\ pay'[h].state \in {"tes", "tec"}
    BY <1>3, <1>4
  <2> QED
    BY <1>3, <2>1, <2>2, JobKept
<1>6. OwnerInv'
  BY <1>1, OwnerKept, NoRowAssumption DEF Core
<1>7. RowInv'
  BY <1>1, <1>3, RowsKept
<1>8. PayInv'
  <2> SUFFICES ASSUME NEW h \in Hashes PROVE PayOK(h)'
    BY DEF PayInv
  <2>1. PayOK(h) /\ \A t \in Rows : ShowsOn(t)
    BY <1>1, SameRowsShow DEF Core, PayInv
  <2>2. CASE pay'[h] = pay[h]
    BY <1>3, <1>4, <2>1, <2>2, PayKept
  <2>3. CASE /\ pay[h].state = "submitted" /\ pay'[h].state \in {"tes", "tec"}
             /\ pay'[h].row = pay[h].row /\ pay'[h].last = pay[h].last
             /\ pay'[h].ledger = validated + 1 /\ validated + 1 <= pay[h].last
    BY <1>1, <1>3, <1>4, <2>1, <2>3 DEF PayOK, Shows
  <2> QED
    BY <1>3, <2>2, <2>3
<1>9. SessionInv'
  BY <1>1, <1>3, RequestsKept DEF Working
<1> QED
  BY <1>5, <1>6, <1>7, <1>8, <1>9 DEF Core

LEMMA ServerBackfillsStep ==
    ASSUME TypeOK, TypeOK', Core, ServerBackfills
    PROVE  Core'
<1>1. /\ ~SlowRpc => \A a \in Admins : session[a].at \notin {"latest", "range"}
      /\ UNCHANGED <<row, job, session, credited, pay, validated>>
  BY DEF ServerBackfills, Querying, Backfill
<1>2. PaymentsEvolve
  BY <1>1 DEF PaymentsEvolve, Evolves, Landed, Dead, TypeOK, LedgerTypeOK, Payment
<1>3. JobInv' /\ OwnerInv'
  BY <1>1 DEF Core, JobInv, JobOK, Working, OwnerInv, NobodyOwns, Owns
<1>4. RowInv'
  BY <1>1, <1>2, RowsKept
<1>5. PayInv'
  BY <1>1 DEF Core, PayInv, PayOK, Shows
<1>6. SessionInv'
  BY <1>1, <1>2, RequestsKept DEF Working
<1> QED
  BY <1>3, <1>4, <1>5, <1>6 DEF Core

-----------------------------------------------------------------------------
(* The inductive invariant and what it implies.                            *)

LEMMA CoreStep ==
    ASSUME TypeOK, TypeOK', Core, [Next]_vars
    PROVE  Core'
<1>1. ASSUME NEW t \in Rows,
             \/ CreateRemittance(t) \/ MarkCashinFailed(t) \/ SetAmlFlag(t) \/ GrowOld(t)
             \/ LoseMessage(t) \/ Deliver(t)
      PROVE  Core'
  <2>1. CASE CreateRemittance(t) \/ MarkCashinFailed(t) \/ SetAmlFlag(t) \/ GrowOld(t)
    BY <2>1, CreateRemittanceStep, MarkCashinFailedStep, SetAmlFlagStep, GrowOldStep
  <2>2. CASE LoseMessage(t)
    BY <2>2, NothingElse DEF LoseMessage
  <2>3. CASE Deliver(t)
    <3>1. ASSUME NEW w \in Workers, Skip(w, t) PROVE Core'
      BY <3>1, NothingElse DEF Skip
    <3> QED
      BY <2>3, <3>1, ClaimStep DEF Deliver
  <2> QED
    BY <1>1, <2>1, <2>2, <2>3
<1>2. ASSUME NEW stale \in SUBSET Rows, ExpireStaleCashins(stale) PROVE Core'
  BY <1>2, ExpireStaleCashinsStep
<1>3. ASSUME NEW w \in Workers, JobSteps(w) \/ Crash(w) PROVE Core'
  BY <1>3, JobStepsKeepCore
<1>4. ASSUME NEW a \in Admins, NEW t \in Rows,
             MarkCashinReceived(a, t) \/ StartRequeue(a, t) \/ StartRetry(a, t)
      PROVE  Core'
  BY <1>4, MarkCashinReceivedStep, StartRequeueStep, StartRetryStep
<1>5. ASSUME NEW a \in Admins, RequestSteps(a) \/ Abort(a) PROVE Core'
  BY <1>5, RequestStepsKeepCore
<1>6. CASE LockExpires
  BY <1>6, NothingElse DEF LockExpires
<1>7. CASE LedgerCloses \/ ServerBackfills
  BY <1>7, LedgerClosesStep, ServerBackfillsStep
<1>8. CASE UNCHANGED vars
  BY <1>8, NothingElse DEF vars, ledgerVars
<1> QED
  BY <1>1, <1>2, <1>3, <1>4, <1>5, <1>6, <1>7, <1>8 DEF Next

\* The invariant holds of every reachable state: initially, and after every step of
\* the workers, the admins, the clock and the ledger (settlement_worker.py and
\* cashin_service.retry_settlement).
THEOREM Invariant == Spec => []Inductive
<1>1. Init => Core
  BY CoreInit
<1>2. TypeOK /\ TypeOK' /\ Core /\ [Next]_vars => Core'
  BY CoreStep
<1>3. Spec => []Core
  BY <1>1, <1>2, TypeCorrect, PTL DEF Spec
<1>4. Spec => []LockInv
  BY LockInit, LockStep, TypeCorrect, PTL DEF Spec
<1>5. TypeOK /\ Core /\ LockInv => Inductive
  BY DEF Core, Inductive
<1> QED
  BY <1>3, <1>4, <1>5, TypeCorrect, PTL

\* What a landed payment's row shows: the payment itself, live.
LEMMA LandedIsLive ==
    ASSUME ~SlowRpc, TypeOK, Inductive, NEW t \in Rows, NEW h \in LandedFor(t)
    PROVE  row[t].hash = h
<1>1. h \in Hashes /\ pay[h].row = t /\ Landed(h)
  BY DEF LandedFor
<1>2. Shows(row[t], h)
  BY <1>1 DEF Inductive, PayInv, PayOK, Landed
<1>3. \A e \in row[t].archive : e.hash # h
  BY <1>1 DEF Inductive, RowInv, RowOK, Dead, Landed
<1> QED
  BY <1>2, <1>3 DEF Shows

\* However jobs die, messages repeat and admins retry, at most one payment of a
\* remittance ever moves funds (retry_settlement).
THEOREM PaidAtMostOnce == ASSUME SlowRpc = FALSE PROVE Spec => []NoDoublePayment
<1>1. Inductive => NoDoublePayment
  BY LandedIsLive DEF NoDoublePayment, Inductive
<1> QED
  BY <1>1, Invariant, PTL

\* A remittance is credited once, and exactly when it is completed, even if two payments
\* of it landed (complete_settlement).
THEOREM CreditGoesWithStatus == Spec => []CreditFollowsStatus
<1>1. Inductive => CreditFollowsStatus
  BY DEF Inductive, RowInv, RowOK, CreditFollowsStatus
<1> QED
  BY <1>1, Invariant, PTL

\* A remittance is completed exactly when its amount was credited, once, and the hash
\* it shows is then its own payment that moved funds (complete_settlement).
THEOREM CreditMatchesPayment == ASSUME SlowRpc = FALSE PROVE Spec => []CreditedOnce
<1>1. Inductive => CreditedOnce
  <2> SUFFICES ASSUME Inductive, NEW t \in Rows
               PROVE  /\ credited[t] = IF row[t].status = "completed" THEN 1 ELSE 0
                      /\ row[t].status = "completed" => row[t].hash \in LandedFor(t)
    BY DEF CreditedOnce, CreditFollowsStatus
  <2>1. RowOK(t, row[t], credited[t]) /\ row[t].hash \in Hashes \cup {NoHash}
    BY DEF Inductive, RowInv, TypeOK, TableRow
  <2> QED
    BY <2>1 DEF RowOK, RangeOf, LandedFor
<1> QED
  BY <1>1, Invariant, PTL

\* Every payment ever signed is shown by its row with the ledger range it can land in
\* (remember_signed, _archived_attempts).
THEOREM PaymentsAreTraceable == ASSUME SlowRpc = FALSE PROVE Spec => []Traceable
<1>1. Inductive => Traceable
  <2> SUFFICES ASSUME Inductive, NEW h \in Hashes, pay[h].state # "unsigned"
               PROVE  LET r == row[pay[h].row] IN
                      /\ \/ /\ r.hash = h /\ r.last = pay[h].last
                            /\ pay[h].ledger > 0 => r.first <= pay[h].ledger
                         \/ \E e \in r.archive : /\ e.hash = h /\ e.last = pay[h].last
                                                 /\ pay[h].ledger > 0 => e.first <= pay[h].ledger
                      /\ pay[h].ledger <= pay[h].last
    BY DEF Traceable
  <2>1. PayOK(h) /\ pay[h].row \in Rows
    BY DEF Inductive, PayInv, PayOK
  <2>2. RowOK(pay[h].row, row[pay[h].row], credited[pay[h].row])
    BY <2>1 DEF Inductive, RowInv
  <2> QED
    BY <2>1, <2>2, NoHashAssumption DEF PayOK, Shows, RowOK, RangeOf
<1> QED
  BY <1>1, Invariant, PTL

\* An attempt is retired only when it can never move funds any more
\* (_refuse_unless_provably_dead).
THEOREM ArchiveIsDead == ASSUME SlowRpc = FALSE PROVE Spec => []RetiredAreDead
<1>1. Inductive => RetiredAreDead
  BY DEF Inductive, RetiredAreDead, RowInv, RowOK
<1> QED
  BY <1>1, Invariant, PTL

\* A queued row can be claimed when its message comes, and no job still works on it
\* (SettlementRepo.claim).
THEOREM QueuedRowsAreFree == Spec => []QueuedIsClaimable
<1>1. Inductive => QueuedIsClaimable
  <2> SUFFICES ASSUME Inductive, NEW t \in Rows, row[t].status = "queued"
               PROVE  Claimable(t) /\ \A w \in Workers : Owns(w, t) => job[w].at = "requeue"
    BY DEF QueuedIsClaimable
  <2>1. Claimable(t)
    BY DEF Inductive, RowInv, RowOK, Claimable
  <2>2. ASSUME NEW w \in Workers, job[w].row = t PROVE job[w].at = "requeue"
    BY <2>2, NoRowAssumption DEF Inductive, JobInv, JobOK, Working
  <2> QED
    BY <2>1, <2>2 DEF Owns
<1> QED
  BY <1>1, Invariant, PTL

\* Nothing is ever signed or queued for a remittance whose money did not come in
\* (mark_cashin_received racing expire_stale_cashins).
THEOREM PaidOnlyIfFunded == Spec => []CashBeforePayment
<1>1. Inductive => CashBeforePayment
  BY DEF Inductive, CashBeforePayment, RowInv, RowOK, PayInv, PayOK
<1> QED
  BY <1>1, Invariant, PTL
=============================================================================
