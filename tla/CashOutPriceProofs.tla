--------------------------- MODULE CashOutPriceProofs ---------------------------
(***************************************************************************)
(* One recipient's wallet and the prices agreed for its cash-outs, for any *)
(* number of transfers, cash-outs, sessions and fee configurations.  What  *)
(* is proved of WalletCache alone carries over to the composition.         *)
(***************************************************************************)
EXTENDS CashOutPrice, ArithmeticProofs

-----------------------------------------------------------------------------
(* The wallet.                                                             *)

LEMMA SessionRecord ==
    ASSUME NEW t \in Task, NEW i \in Transfers \cup CashOuts \cup {NoItem}, NEW n \in Int
    PROVE  [task |-> t, item |-> i, seen |-> n] \in Session
BY DEF Session

\* A session about a credit holds a transfer; any other task holds a cash-out.
SessionItems ==
    \A s \in Sessions :
        /\ session[s].task = "credit" => session[s].item \in Transfers
        /\ session[s].task \in {"approve", "undo", "restore"} => session[s].item \in CashOuts

WalletType == TypeOK /\ SessionItems

LEMMA WalletTypeInit == Init => WalletType
<1> SUFFICES ASSUME Init PROVE WalletType
  OBVIOUS
<1>1. Idle \in Session /\ Idle.task = "idle"
  BY DEF Idle, Session, Task
<1>2. session \in [Sessions -> Session]
  BY <1>1 DEF Init
<1>3. SessionItems
  BY <1>1 DEF Init, SessionItems
<1>4. balance \in Int
  BY DEF Init
<1>7. lost \in BOOLEAN
  BY DEF Init
<1>5. transfer \in [Transfers -> {"paid", "completed"}]
  BY DEF Init
<1>6. cashout \in [CashOuts -> {"absent", "requested", "approved", "completed", "failed"}]
  BY DEF Init
<1> QED
  BY <1>2, <1>3, <1>4, <1>5, <1>6, <1>7 DEF WalletType, TypeOK

\* What a session becomes, if it is well formed, keeps the types.
LEMMA SessionUpdate ==
    ASSUME WalletType, NEW s \in Sessions, NEW x \in Session,
           session' = [session EXCEPT ![s] = x],
           x.task = "credit" => x.item \in Transfers,
           x.task \in {"approve", "undo", "restore"} => x.item \in CashOuts
    PROVE  session' \in [Sessions -> Session] /\ SessionItems'
<1>1. session' \in [Sessions -> Session]
  BY DEF WalletType, TypeOK
<1>2. \A t \in Sessions : session'[t] = IF t = s THEN x ELSE session[t]
  BY DEF WalletType, TypeOK
<1> QED
  BY <1>1, <1>2 DEF SessionItems, WalletType

LEMMA EndUpdate ==
    ASSUME WalletType, NEW s \in Sessions, End(s)
    PROVE  session' \in [Sessions -> Session] /\ SessionItems'
<1>1. Idle \in Session /\ Idle.task = "idle"
  BY DEF Idle, Session, Task
<1> QED
  BY <1>1, SessionUpdate DEF End

LEMMA LoadUpdate ==
    ASSUME WalletType, NEW s \in Sessions, NEW t \in Task, NEW i, Load(s, t, i),
           (t = "credit" /\ i \in Transfers) \/ (t \in {"approve", "restore"} /\ i \in CashOuts)
    PROVE  WalletType'
<1> DEFINE x == [task |-> t, item |-> i, seen |-> balance]
<1>1. x \in Session /\ x.task = t /\ x.item = i
  BY SessionRecord DEF WalletType, TypeOK
<1>2. session' = [session EXCEPT ![s] = x]
  BY DEF Load
<1>3. session' \in [Sessions -> Session] /\ SessionItems'
  <2> HIDE DEF x
  <2> QED
    BY <1>1, <1>2, SessionUpdate
<1> QED
  BY <1>3 DEF Load, WalletType, TypeOK

LEMMA WriteBackType ==
    ASSUME WalletType, NEW s \in Sessions, NEW n \in Int, WriteBack(s, n)
    PROVE  balance' = session[s].seen + n /\ balance' \in Int /\ lost' \in BOOLEAN
<1>1. session[s].seen \in Int
  BY DEF WalletType, TypeOK, Session
<1>2. balance' = session[s].seen + n
  BY DEF WriteBack
<1>3. lost' \in BOOLEAN
  BY DEF WriteBack
<1> QED
  BY <1>1, <1>2, <1>3

LEMMA WalletTypeStep == WalletType /\ [Next]_vars => WalletType'
<1> SUFFICES ASSUME WalletType, [Next]_vars PROVE WalletType'
  OBVIOUS
<1>0. TypeOK /\ SessionItems
  BY DEF WalletType
<1>1. ASSUME NEW s \in Sessions, NEW p \in Transfers, LoadForCredit(s, p) PROVE WalletType'
  <2>1. Load(s, "credit", p)
    BY <1>1 DEF LoadForCredit
  <2>2. "credit" \in Task
    BY DEF Task
  <2> QED
    BY <2>1, <2>2, LoadUpdate
<1>2. ASSUME NEW s \in Sessions, NEW r \in CashOuts, LoadForApprove(s, r) \/ LoadForRestore(s, r)
      PROVE  WalletType'
  <2>1. Load(s, "approve", r) \/ Load(s, "restore", r)
    BY <1>2 DEF LoadForApprove, LoadForRestore
  <2>2. "approve" \in Task /\ "restore" \in Task
    BY DEF Task
  <2> QED
    BY <2>1, <2>2, LoadUpdate
<1>3. ASSUME NEW s \in Sessions, CompleteSettlement(s) PROVE WalletType'
  <2>1. session' \in [Sessions -> Session] /\ SessionItems'
    BY <1>3, EndUpdate DEF CompleteSettlement
  <2>2. PICK p \in Transfers : p = session[s].item
    BY <1>0, <1>3 DEF CompleteSettlement, SessionItems
  <2>3. UNCHANGED cashout /\ transfer' \in {transfer, [transfer EXCEPT ![p] = "completed"]}
    BY <1>3, <2>2 DEF CompleteSettlement
  <2>4. WriteBack(s, Amount[p]) \/ UNCHANGED <<balance, lost>>
    BY <1>3, <2>2 DEF CompleteSettlement
  <2>5. balance' \in Int /\ lost' \in BOOLEAN
    BY <1>0, <2>4, WriteBackType, AmountAssumption DEF TypeOK
  <2> QED
    BY <1>0, <2>1, <2>3, <2>5 DEF WalletType, TypeOK
<1>4. ASSUME NEW s \in Sessions, Approve(s) PROVE WalletType'
  <2>0. PICK r \in CashOuts : r = session[s].item
    BY <1>0, <1>4 DEF Approve, SessionItems
  <2>1. session[s].seen \in Int /\ Amount[r] \in Int /\ session[s] \in Session
    BY <1>0, AmountAssumption DEF TypeOK, Session
  <2>2. CASE Amount[r] <= session[s].seen /\ cashout[r] = "requested"
    <3> DEFINE x == [session[s] EXCEPT !.task = "undo", !.seen = balance']
    <3>1. session' = [session EXCEPT ![s] = x] /\ WriteBack(s, -Amount[r])
      BY <1>4, <2>0, <2>2 DEF Approve
    <3>2. balance' \in Int /\ lost' \in BOOLEAN
      <4>1. -Amount[r] \in Int
        BY <2>1
      <4> QED
        BY <3>1, <4>1, WriteBackType
    <3>3. x \in Session /\ x.task = "undo" /\ x.item = r
      BY <2>0, <2>1, <3>2 DEF Session, Task
    <3>4. session' \in [Sessions -> Session] /\ SessionItems'
      <4> HIDE DEF x
      <4> QED
        BY <2>0, <3>1, <3>3, SessionUpdate
    <3>5. UNCHANGED transfer /\ cashout' = [cashout EXCEPT ![r] = "approved"]
      BY <1>4, <2>0, <2>2 DEF Approve
    <3> QED
      BY <1>0, <3>2, <3>4, <3>5 DEF WalletType, TypeOK
  <2>3. CASE ~(Amount[r] <= session[s].seen /\ cashout[r] = "requested")
    <3>1. session' \in [Sessions -> Session] /\ SessionItems'
      BY <1>4, <2>0, <2>3, EndUpdate DEF Approve
    <3>2. UNCHANGED <<balance, transfer, cashout, lost>>
      BY <1>4, <2>0, <2>3 DEF Approve
    <3> QED
      BY <1>0, <3>1, <3>2 DEF WalletType, TypeOK
  <2> QED
    BY <2>2, <2>3
<1>5. ASSUME NEW s \in Sessions, FailAndRestore(s) PROVE WalletType'
  <2>1. session' \in [Sessions -> Session] /\ SessionItems'
    BY <1>5, EndUpdate DEF FailAndRestore
  <2>2. PICK r \in CashOuts : r = session[s].item
    BY <1>0, <1>5 DEF FailAndRestore, SessionItems
  <2>3. UNCHANGED transfer /\ cashout' \in {cashout, [cashout EXCEPT ![r] = "failed"]}
    BY <1>5, <2>2 DEF FailAndRestore
  <2>4. WriteBack(s, Amount[r]) \/ UNCHANGED <<balance, lost>>
    BY <1>5, <2>2 DEF FailAndRestore
  <2>5. balance' \in Int /\ lost' \in BOOLEAN
    BY <1>0, <2>4, WriteBackType, AmountAssumption DEF TypeOK
  <2> QED
    BY <1>0, <2>1, <2>3, <2>5 DEF WalletType, TypeOK
<1>6. ASSUME NEW s \in Sessions, Leave(s) PROVE WalletType'
  BY <1>0, <1>6, EndUpdate DEF Leave, WalletType, TypeOK
<1>7. ASSUME NEW p \in Transfers, ReconcileSettlement(p) PROVE WalletType'
  <2>1. balance' \in Int
    BY <1>0, <1>7, AmountAssumption DEF ReconcileSettlement, TypeOK
  <2> QED
    BY <1>0, <1>7, <2>1 DEF ReconcileSettlement, WalletType, TypeOK, SessionItems
<1>8. ASSUME NEW r \in CashOuts, CreateRequest(r) \/ Reject(r) \/ CompleteBurn(r) PROVE WalletType'
  BY <1>0, <1>8 DEF CreateRequest, Reject, CompleteBurn, WalletType, TypeOK, SessionItems
<1>9. CASE UNCHANGED vars
  BY <1>0, <1>9 DEF vars, WalletType, TypeOK, SessionItems
<1> QED
  BY <1>1, <1>2, <1>3, <1>4, <1>5, <1>6, <1>7, <1>8, <1>9 DEF Next, MoveMoney

-----------------------------------------------------------------------------
(* The balance.  A stale session may write back too much or too little,    *)
(* but never below zero: whatever balance it holds was read from the row   *)
(* when that was not negative, and a debit is checked against it.          *)

SeenNotNegative == \A s \in Sessions : session[s].seen >= 0

Solvent == NeverNegative /\ SeenNotNegative

LEMMA SolventStep == WalletType /\ Solvent /\ [Next]_vars => Solvent'
<1> SUFFICES ASSUME WalletType, Solvent, [Next]_vars PROVE Solvent'
  OBVIOUS
<1>0. TypeOK /\ SessionItems /\ balance >= 0 /\ SeenNotNegative
  BY DEF WalletType, Solvent, NeverNegative
<1>1. ASSUME NEW s \in Sessions, NEW t, NEW i, Load(s, t, i) PROVE Solvent'
  <2>1. \A u \in Sessions : session'[u].seen = IF u = s THEN balance ELSE session[u].seen
    BY <1>0, <1>1 DEF Load, TypeOK
  <2> QED
    BY <1>0, <1>1, <2>1 DEF Load, Solvent, NeverNegative, SeenNotNegative
<1>2. ASSUME NEW s \in Sessions, End(s) PROVE SeenNotNegative'
  <2>1. \A u \in Sessions : session'[u].seen = IF u = s THEN 0 ELSE session[u].seen
    BY <1>0, <1>2 DEF End, Idle, TypeOK
  <2> QED
    BY <1>0, <2>1 DEF SeenNotNegative
<1>3. ASSUME NEW s \in Sessions, CompleteSettlement(s) PROVE Solvent'
  <2>1. session[s].item \in Transfers /\ session[s].seen \in Int /\ session[s].seen >= 0
    BY <1>0, <1>3 DEF CompleteSettlement, SessionItems, TypeOK, Session, SeenNotNegative
  <2>2. balance' >= 0
    BY <1>0, <1>3, <2>1, AmountAssumption DEF CompleteSettlement, WriteBack
  <2> QED
    BY <1>2, <1>3, <2>2 DEF CompleteSettlement, Solvent, NeverNegative
<1>4. ASSUME NEW s \in Sessions, Approve(s) PROVE Solvent'
  <2>0. PICK r \in CashOuts : r = session[s].item
    BY <1>0, <1>4 DEF Approve, SessionItems
  <2>1. session[s].seen \in Int /\ Amount[r] \in Int /\ session[s] \in Session
    BY <1>0, AmountAssumption DEF TypeOK, Session
  <2>2. CASE Amount[r] <= session[s].seen /\ cashout[r] = "requested"
    <3>1. balance' = session[s].seen - Amount[r]
      BY <1>4, <2>0, <2>1, <2>2 DEF Approve, WriteBack
    <3> DEFINE x == [session[s] EXCEPT !.task = "undo", !.seen = balance']
    <3>2. x.seen = session[s].seen - Amount[r]
      BY <2>1, <3>1 DEF Session
    <3>3. session' = [session EXCEPT ![s] = x]
      BY <1>4, <2>0, <2>2 DEF Approve
    <3>4. \A u \in Sessions : session'[u] = IF u = s THEN x ELSE session[u]
      <4> HIDE DEF x
      <4> QED
        BY <1>0, <3>3 DEF TypeOK
    <3>5. \A u \in Sessions : session'[u].seen =
                IF u = s THEN session[s].seen - Amount[r] ELSE session[u].seen
      <4> HIDE DEF x
      <4> QED
        BY <3>2, <3>4
    <3> QED
      BY <1>0, <2>1, <2>2, <3>1, <3>5 DEF Solvent, NeverNegative, SeenNotNegative
  <2>3. CASE ~(Amount[r] <= session[s].seen /\ cashout[r] = "requested")
    <3>1. End(s) /\ UNCHANGED balance
      BY <1>4, <2>0, <2>3 DEF Approve
    <3> QED
      BY <1>0, <1>2, <3>1 DEF Solvent, NeverNegative
  <2> QED
    BY <2>2, <2>3
<1>5. ASSUME NEW s \in Sessions, FailAndRestore(s) PROVE Solvent'
  <2>1. session[s].item \in CashOuts /\ session[s].seen \in Int /\ session[s].seen >= 0
    BY <1>0, <1>5 DEF FailAndRestore, SessionItems, TypeOK, Session, SeenNotNegative
  <2>2. balance' >= 0
    BY <1>0, <1>5, <2>1, AmountAssumption DEF FailAndRestore, WriteBack
  <2> QED
    BY <1>2, <1>5, <2>2 DEF FailAndRestore, Solvent, NeverNegative
<1>6. ASSUME NEW s \in Sessions, Leave(s) PROVE Solvent'
  BY <1>0, <1>2, <1>6 DEF Leave, Solvent, NeverNegative
<1>7. ASSUME NEW p \in Transfers, ReconcileSettlement(p) PROVE Solvent'
  <2>1. Amount[p] \in Nat /\ balance \in Int
    BY <1>0, AmountAssumption DEF TypeOK
  <2>2. balance' >= 0
    BY <1>0, <1>7, <2>1 DEF ReconcileSettlement
  <2> QED
    BY <1>0, <1>7, <2>2 DEF ReconcileSettlement, Solvent, NeverNegative, SeenNotNegative
<1>8. ASSUME NEW r \in CashOuts, CreateRequest(r) \/ Reject(r) \/ CompleteBurn(r) PROVE Solvent'
  BY <1>0, <1>8 DEF CreateRequest, Reject, CompleteBurn, Solvent, NeverNegative, SeenNotNegative
<1>9. CASE UNCHANGED vars
  BY <1>0, <1>9 DEF vars, Solvent, NeverNegative, SeenNotNegative
<1> QED
  BY <1>1, <1>3, <1>4, <1>5, <1>6, <1>7, <1>8, <1>9
  DEF Next, MoveMoney, LoadForCredit, LoadForApprove, LoadForRestore

-----------------------------------------------------------------------------
(* The books.  Every step that moves money moves one item from one set of  *)
(* the books to another, and the balance with it unless an update is lost. *)

\* No update is lost by this step, and the balance moves by n.
Moves(n) == ~lost' => ~lost /\ balance' = balance + n

Credits(p) ==
    /\ transfer[p] = "paid"
    /\ transfer' = [transfer EXCEPT ![p] = "completed"]
    /\ UNCHANGED cashout
    /\ Moves(Amount[p])

Turns(r, from, to, n) ==
    /\ cashout[r] = from
    /\ cashout' = [cashout EXCEPT ![r] = to]
    /\ UNCHANGED transfer
    /\ Moves(n)

Turning(r) ==
    \/ Turns(r, "absent", "requested", 0) /\ Amount[r] <= balance - Held
    \/ Turns(r, "requested", "failed", 0)
    \/ Turns(r, "requested", "approved", -Amount[r])
    \/ Turns(r, "approved", "failed", Amount[r])
    \/ Turns(r, "approved", "completed", 0)

LEMMA WriteBackMoves ==
    ASSUME WalletType, NEW s \in Sessions, NEW n \in Int, WriteBack(s, n)
    PROVE  Moves(n)
BY DEF WriteBack, Moves, WalletType, TypeOK

LEMMA MoneySteps ==
    ASSUME WalletType, [Next]_vars
    PROVE  \/ UNCHANGED <<balance, transfer, cashout, lost>>
           \/ \E p \in Transfers : Credits(p)
           \/ \E r \in CashOuts : Turning(r)
<1>0. TypeOK /\ SessionItems
  BY DEF WalletType
<1>a. balance \in Int /\ balance + 0 = balance
  BY <1>0 DEF TypeOK
<1>b. \A i \in Transfers \cup CashOuts : Amount[i] \in Int /\ -Amount[i] \in Int
  BY AmountAssumption
<1>1. ASSUME NEW s \in Sessions, NEW t, NEW i, Load(s, t, i)
      PROVE  UNCHANGED <<balance, transfer, cashout, lost>>
  BY <1>1 DEF Load
<1>2. ASSUME NEW s \in Sessions, CompleteSettlement(s)
      PROVE  UNCHANGED <<balance, transfer, cashout, lost>> \/ \E p \in Transfers : Credits(p)
  <2>1. PICK p \in Transfers : p = session[s].item
    BY <1>0, <1>2 DEF CompleteSettlement, SessionItems
  <2>2. CASE transfer[p] = "paid"
    <3>1. WriteBack(s, Amount[p]) /\ transfer' = [transfer EXCEPT ![p] = "completed"] /\ UNCHANGED cashout
      BY <1>2, <2>1, <2>2 DEF CompleteSettlement
    <3>2. Moves(Amount[p])
      BY <1>b, <3>1, WriteBackMoves
    <3> QED
      BY <2>2, <3>1, <3>2 DEF Credits
  <2>3. CASE transfer[p] # "paid"
    BY <1>2, <2>1, <2>3 DEF CompleteSettlement
  <2> QED
    BY <2>2, <2>3
<1>3. ASSUME NEW s \in Sessions, Approve(s)
      PROVE  UNCHANGED <<balance, transfer, cashout, lost>> \/ \E r \in CashOuts : Turning(r)
  <2>1. PICK r \in CashOuts : r = session[s].item
    BY <1>0, <1>3 DEF Approve, SessionItems
  <2>2. CASE Amount[r] <= session[s].seen /\ cashout[r] = "requested"
    <3>1. WriteBack(s, -Amount[r]) /\ cashout' = [cashout EXCEPT ![r] = "approved"] /\ UNCHANGED transfer
      BY <1>3, <2>1, <2>2 DEF Approve
    <3>2. Moves(-Amount[r])
      BY <1>b, <3>1, WriteBackMoves
    <3> QED
      BY <2>2, <3>1, <3>2 DEF Turning, Turns
  <2>3. CASE ~(Amount[r] <= session[s].seen /\ cashout[r] = "requested")
    BY <1>3, <2>1, <2>3 DEF Approve
  <2> QED
    BY <2>2, <2>3
<1>4. ASSUME NEW s \in Sessions, FailAndRestore(s)
      PROVE  UNCHANGED <<balance, transfer, cashout, lost>> \/ \E r \in CashOuts : Turning(r)
  <2>1. PICK r \in CashOuts : r = session[s].item
    BY <1>0, <1>4 DEF FailAndRestore, SessionItems
  <2>2. CASE cashout[r] = "approved"
    <3>1. WriteBack(s, Amount[r]) /\ cashout' = [cashout EXCEPT ![r] = "failed"] /\ UNCHANGED transfer
      BY <1>4, <2>1, <2>2 DEF FailAndRestore
    <3>2. Moves(Amount[r])
      BY <1>b, <3>1, WriteBackMoves
    <3> QED
      BY <2>2, <3>1, <3>2 DEF Turning, Turns
  <2>3. CASE cashout[r] # "approved"
    BY <1>4, <2>1, <2>3 DEF FailAndRestore
  <2> QED
    BY <2>2, <2>3
<1>5. ASSUME NEW s \in Sessions, Leave(s) PROVE UNCHANGED <<balance, transfer, cashout, lost>>
  BY <1>5 DEF Leave
<1>6. ASSUME NEW p \in Transfers, ReconcileSettlement(p) PROVE Credits(p)
  BY <1>6 DEF ReconcileSettlement, Credits, Moves
<1>7. ASSUME NEW r \in CashOuts, CreateRequest(r) \/ Reject(r) \/ CompleteBurn(r) PROVE Turning(r)
  <2>1. Moves(0)
    BY <1>a, <1>7 DEF CreateRequest, Reject, CompleteBurn, Moves
  <2> QED
    BY <1>7, <2>1 DEF CreateRequest, Reject, CompleteBurn, Turning, Turns
<1>8. CASE UNCHANGED vars
  BY <1>8 DEF vars
<1> QED
  BY <1>1, <1>2, <1>3, <1>4, <1>5, <1>6, <1>7, <1>8
  DEF Next, MoveMoney, LoadForCredit, LoadForApprove, LoadForRestore

\* The sums of the books are over finite sets, since only finitely many steps have
\* been taken, and they agree with the balance.
Books ==
    /\ IsFiniteSet(Credited) /\ IsFiniteSet(Reserved) /\ IsFiniteSet(Requested)
    /\ BooksBalanceUnlessLost
    /\ RequestsCovered

LEMMA TotalIsNat ==
    ASSUME NEW items \in SUBSET (Transfers \cup CashOuts), IsFiniteSet(items)
    PROVE  Total(items) \in Nat
<1>1. \A i \in items : Amount[i] \in Nat
  BY AmountAssumption
<1> QED
  BY <1>1, SumNat DEF Total

\* An item that joins a set of the books, or leaves it, brings or takes its amount.
LEMMA TotalJoins ==
    ASSUME NEW items \in SUBSET (Transfers \cup CashOuts), IsFiniteSet(items),
           NEW i \in Transfers \cup CashOuts, i \notin items
    PROVE  IsFiniteSet(items \cup {i}) /\ Total(items \cup {i}) = Total(items) + Amount[i]
<1>1. \A x \in items \cup {i} : Amount[x] \in Int
  BY AmountAssumption
<1> QED
  BY <1>1, SumAdd DEF Total

LEMMA TotalLeaves ==
    ASSUME NEW items \in SUBSET (Transfers \cup CashOuts), IsFiniteSet(items), NEW i \in items
    PROVE  IsFiniteSet(items \ {i}) /\ Total(items \ {i}) = Total(items) - Amount[i]
<1>1. \A x \in items : Amount[x] \in Int
  BY AmountAssumption
<1>2. IsFiniteSet(items \ {i})
  BY FS_RemoveElement
<1>3. Total(items) = Amount[i] + Total(items \ {i})
  BY <1>1, SumRemove DEF Total
<1> DEFINE rest == Total(items \ {i})
           all  == Total(items)
           a    == Amount[i]
<1>4. rest \in Nat /\ a \in Nat /\ all = a + rest
  BY <1>2, <1>3, TotalIsNat, AmountAssumption
<1>5. rest = all - a
  <2> HIDE DEF rest, all, a
  <2> QED
    BY <1>4
<1> QED
  BY <1>2, <1>5

LEMMA BooksCredit ==
    ASSUME WalletType, Books, NEW p \in Transfers, Credits(p)
    PROVE  Books'
<1>0. TypeOK /\ balance \in Int
  BY DEF WalletType, TypeOK
<1>1. p \notin Credited /\ Credited' = Credited \cup {p}
  BY <1>0 DEF Credits, Credited, TypeOK
<1>2. Reserved' = Reserved /\ Requested' = Requested
  BY DEF Credits, Reserved, Requested
<1>3. /\ Credited \in SUBSET (Transfers \cup CashOuts) /\ Reserved \in SUBSET (Transfers \cup CashOuts)
      /\ Requested \in SUBSET (Transfers \cup CashOuts)
      /\ IsFiniteSet(Credited) /\ IsFiniteSet(Reserved) /\ IsFiniteSet(Requested)
  BY DEF Credited, Reserved, Requested, Books
<1> DEFINE c == Total(Credited)
           v == Total(Reserved)
           h == Total(Requested)
           a == Amount[p]
<1>4. IsFiniteSet(Credited') /\ Total(Credited') = c + a
  BY <1>1, <1>3, TotalJoins
<1>5. c \in Nat /\ v \in Nat /\ h \in Nat /\ a \in Nat
  BY <1>3, TotalIsNat, AmountAssumption
<1>6. Total(Reserved') = v /\ Total(Requested') = h
  BY <1>2
<1>7. ~lost' => ~lost /\ balance' = balance + a
  BY DEF Credits, Moves
<1>8. ~lost => balance = c - v /\ h <= balance
  BY DEF Books, BooksBalanceUnlessLost, BooksBalance, RequestsCovered, Held
<1>9. ~lost' => balance' = (c + a) - v /\ h <= balance'
  <2> HIDE DEF c, v, h, a
  <2> QED
    BY <1>0, <1>5, <1>7, <1>8
<1>10. BooksBalanceUnlessLost' /\ RequestsCovered'
  <2>1. /\ BooksBalanceUnlessLost' <=> (~lost' => balance' = Total(Credited') - Total(Reserved'))
        /\ RequestsCovered' <=> (~lost' => Total(Requested') <= balance')
    BY DEF BooksBalanceUnlessLost, BooksBalance, RequestsCovered, Held, Total, Credited, Reserved, Requested
  <2> QED
    BY <1>4, <1>6, <1>9, <2>1
<1> QED
  BY <1>2, <1>3, <1>4, <1>10 DEF Books

\* A cash-out's status decides which sets of the books it is in.
LEMMA TurnedSets ==
    ASSUME WalletType, NEW r \in CashOuts, NEW from, NEW to, NEW n, Turns(r, from, to, n)
    PROVE  /\ Credited' = Credited
           /\ Requested' = IF to = "requested" THEN Requested \cup {r} ELSE Requested \ {r}
           /\ Reserved' = IF to \in {"approved", "completed"} THEN Reserved \cup {r}
                                                             ELSE Reserved \ {r}
           /\ r \in Requested <=> from = "requested"
           /\ r \in Reserved <=> from \in {"approved", "completed"}
<1>1. \A q \in CashOuts : cashout'[q] = IF q = r THEN to ELSE cashout[q]
  BY DEF Turns, WalletType, TypeOK
<1>2. cashout[r] = from /\ transfer' = transfer
  BY DEF Turns
<1>3. Requested' = {q \in CashOuts : cashout'[q] = "requested"}
      /\ Reserved' = {q \in CashOuts : cashout'[q] \in {"approved", "completed"}}
  BY DEF Requested, Reserved
<1>4. Requested' = IF to = "requested" THEN Requested \cup {r} ELSE Requested \ {r}
  BY <1>1, <1>3 DEF Requested
<1>5. Reserved' = IF to \in {"approved", "completed"} THEN Reserved \cup {r} ELSE Reserved \ {r}
  BY <1>1, <1>3 DEF Reserved
<1> QED
  BY <1>2, <1>4, <1>5 DEF Credited, Requested, Reserved

\* Books from the sums of the next state.
LEMMA BooksClosed ==
    ASSUME IsFiniteSet(Credited'), IsFiniteSet(Reserved'), IsFiniteSet(Requested'),
           ~lost' => /\ balance' = Total(Credited') - Total(Reserved')
                     /\ Total(Requested') <= balance'
    PROVE  Books'
BY DEF Books, BooksBalanceUnlessLost, BooksBalance, RequestsCovered, Held, Total

LEMMA BooksTurn ==
    ASSUME WalletType, Books, NEW r \in CashOuts, Turning(r)
    PROVE  Books'
<1>0. balance \in Int
  BY DEF WalletType, TypeOK
<1>1. /\ Credited \in SUBSET (Transfers \cup CashOuts) /\ Reserved \in SUBSET (Transfers \cup CashOuts)
      /\ Requested \in SUBSET (Transfers \cup CashOuts) /\ r \in Transfers \cup CashOuts
      /\ IsFiniteSet(Credited) /\ IsFiniteSet(Reserved) /\ IsFiniteSet(Requested)
  BY DEF Credited, Reserved, Requested, Books
<1> DEFINE c == Total(Credited)
           v == Total(Reserved)
           h == Total(Requested)
           a == Amount[r]
<1>2. c \in Nat /\ v \in Nat /\ h \in Nat /\ a \in Nat
  BY <1>1, TotalIsNat, AmountAssumption
<1>3. ~lost => balance = c - v /\ h <= balance
  BY DEF Books, BooksBalanceUnlessLost, BooksBalance, RequestsCovered, Held
<1>4. CASE Turns(r, "absent", "requested", 0) /\ Amount[r] <= balance - Held
  <2>1. /\ Credited' = Credited /\ Requested' = Requested \cup {r} /\ Reserved' = Reserved \ {r}
        /\ r \notin Requested /\ r \notin Reserved
    BY <1>4, TurnedSets
  <2>2. Reserved' = Reserved
    BY <2>1
  <2>3. IsFiniteSet(Requested') /\ Total(Requested') = h + a
    BY <1>1, <2>1, TotalJoins
  <2>4. (~lost' => ~lost /\ balance' = balance + 0) /\ a <= balance - h
    BY <1>4 DEF Turns, Moves, Held
  <2>5. ~lost' => balance' = c - v /\ h + a <= balance'
    <3> HIDE DEF c, v, h, a
    <3> QED
      BY <1>0, <1>2, <1>3, <2>4
  <2> QED
    BY <1>1, <2>1, <2>2, <2>3, <2>5, BooksClosed
<1>5. CASE Turns(r, "requested", "failed", 0)
  <2>1. /\ Credited' = Credited /\ Requested' = Requested \ {r} /\ Reserved' = Reserved \ {r}
        /\ r \in Requested /\ r \notin Reserved
    BY <1>5, TurnedSets
  <2>2. Reserved' = Reserved
    BY <2>1
  <2>3. IsFiniteSet(Requested') /\ Total(Requested') = h - a
    BY <1>1, <2>1, TotalLeaves
  <2>4. ~lost' => ~lost /\ balance' = balance + 0
    BY <1>5 DEF Turns, Moves
  <2>5. ~lost' => balance' = c - v /\ h - a <= balance'
    <3> HIDE DEF c, v, h, a
    <3> QED
      BY <1>0, <1>2, <1>3, <2>4
  <2> QED
    BY <1>1, <2>1, <2>2, <2>3, <2>5, BooksClosed
<1>6. CASE Turns(r, "requested", "approved", -Amount[r])
  <2>1. /\ Credited' = Credited /\ Requested' = Requested \ {r} /\ Reserved' = Reserved \cup {r}
        /\ r \in Requested /\ r \notin Reserved
    BY <1>6, TurnedSets
  <2>2. IsFiniteSet(Requested') /\ Total(Requested') = h - a
    BY <1>1, <2>1, TotalLeaves
  <2>3. IsFiniteSet(Reserved') /\ Total(Reserved') = v + a
    BY <1>1, <2>1, TotalJoins
  <2>4. ~lost' => ~lost /\ balance' = balance + -a
    BY <1>6 DEF Turns, Moves
  <2>5. ~lost' => balance' = c - (v + a) /\ h - a <= balance'
    <3> HIDE DEF c, v, h, a
    <3> QED
      BY <1>0, <1>2, <1>3, <2>4
  <2> QED
    BY <1>1, <2>1, <2>2, <2>3, <2>5, BooksClosed
<1>7. CASE Turns(r, "approved", "failed", Amount[r])
  <2>1. /\ Credited' = Credited /\ Requested' = Requested \ {r} /\ Reserved' = Reserved \ {r}
        /\ r \notin Requested /\ r \in Reserved
    BY <1>7, TurnedSets
  <2>2. Requested' = Requested
    BY <2>1
  <2>3. IsFiniteSet(Reserved') /\ Total(Reserved') = v - a
    BY <1>1, <2>1, TotalLeaves
  <2>4. ~lost' => ~lost /\ balance' = balance + a
    BY <1>7 DEF Turns, Moves
  <2>5. ~lost' => balance' = c - (v - a) /\ h <= balance'
    <3> HIDE DEF c, v, h, a
    <3> QED
      BY <1>0, <1>2, <1>3, <2>4
  <2> QED
    BY <1>1, <2>1, <2>2, <2>3, <2>5, BooksClosed
<1>8. CASE Turns(r, "approved", "completed", 0)
  <2>1. /\ Credited' = Credited /\ Requested' = Requested \ {r} /\ Reserved' = Reserved \cup {r}
        /\ r \notin Requested /\ r \in Reserved
    BY <1>8, TurnedSets
  <2>2. Requested' = Requested /\ Reserved' = Reserved
    BY <2>1
  <2>3. ~lost' => ~lost /\ balance' = balance + 0
    BY <1>8 DEF Turns, Moves
  <2>4. ~lost' => balance' = c - v /\ h <= balance'
    <3> HIDE DEF c, v, h, a
    <3> QED
      BY <1>0, <1>2, <1>3, <2>3
  <2> QED
    BY <1>1, <2>1, <2>2, <2>4, BooksClosed
<1> QED
  BY <1>4, <1>5, <1>6, <1>7, <1>8 DEF Turning

LEMMA BooksInit == Init => Books
<1> SUFFICES ASSUME Init PROVE Books
  OBVIOUS
<1>1. Credited = {} /\ Reserved = {} /\ Requested = {} /\ balance = 0
  BY DEF Init, Credited, Reserved, Requested
<1>2. Total({}) = 0 /\ IsFiniteSet({})
  BY SumEmpty, FS_EmptySet DEF Total
<1> QED
  BY <1>1, <1>2 DEF Books, BooksBalanceUnlessLost, BooksBalance, RequestsCovered, Held

LEMMA BooksStep == WalletType /\ Books /\ [Next]_vars => Books'
<1> SUFFICES ASSUME WalletType, Books, [Next]_vars PROVE Books'
  OBVIOUS
<1>1. CASE UNCHANGED <<balance, transfer, cashout, lost>>
  <2>1. Credited' = Credited /\ Reserved' = Reserved /\ Requested' = Requested
    BY <1>1 DEF Credited, Reserved, Requested
  <2> QED
    BY <1>1, <2>1 DEF Books, BooksBalanceUnlessLost, BooksBalance, RequestsCovered, Held, Total
<1> QED
  BY <1>1, MoneySteps, BooksCredit, BooksTurn

-----------------------------------------------------------------------------
(* The composition implements WalletCache: previews and fee changes are    *)
(* stuttering steps there, and a request is one of its requests.           *)

LEMMA PriceStepRefines == [PriceNext]_allVars => [Next]_vars
<1> SUFFICES ASSUME [PriceNext]_allVars PROVE [Next]_vars
  OBVIOUS
<1>1. ASSUME NEW r \in CashOuts, Preview(r) \/ LeavePage(r) PROVE UNCHANGED vars
  BY <1>1 DEF Preview, LeavePage
<1>2. ASSUME NEW r \in CashOuts, Request(r) PROVE Next
  BY <1>2 DEF Request, Next
<1>3. ASSUME NEW c \in Configs, UpdateFees(c) PROVE UNCHANGED vars
  BY <1>3 DEF UpdateFees
<1>4. CASE UNCHANGED allVars
  BY <1>4 DEF allVars
<1> QED
  BY <1>1, <1>2, <1>3, <1>4 DEF PriceNext, Next

\* Agreeing a price and changing the fees never disturb the wallet: WalletCache's
\* theorems hold of the composition.
THEOREM RefinesWalletCache == PriceSpec => Spec
<1>1. PriceInit => Init
  BY DEF PriceInit
<1> QED
  BY <1>1, PriceStepRefines, PTL DEF PriceSpec, Spec

\* Every variable of the wallet keeps its type, and a session about a credit holds a
\* transfer, any other a cash-out.
THEOREM WalletTypeCorrect == Spec => []WalletType
  BY WalletTypeInit, WalletTypeStep, PTL DEF Spec

\* The wallet's balance is never negative, whatever stale copies of it sessions
\* write back.
THEOREM BalanceNeverNegative == Spec => []NeverNegative
<1>1. Init => Solvent
  BY DEF Init, Idle, Solvent, NeverNegative, SeenNotNegative
<1>2. Solvent => NeverNegative
  BY DEF Solvent
<1> QED
  BY <1>1, <1>2, SolventStep, WalletTypeCorrect, PTL DEF Spec

\* However many transfers are credited and cash-outs requested, approved, restored or
\* burnt, the cached balance is what was credited less what is reserved or burnt, as
\* long as no session wrote back a balance that had moved since it read it.
THEOREM BooksAlwaysBalance == Spec => []BooksBalanceUnlessLost
<1>1. Books => BooksBalanceUnlessLost
  BY DEF Books
<1> QED
  BY <1>1, BooksInit, BooksStep, WalletTypeInit, WalletTypeStep, PTL DEF Spec

\* Under the same proviso the requests that wait for an approval never exceed the
\* balance together: create_request's check under the wallet's lock holds back what
\* earlier requests have claimed.
THEOREM RequestsAreCovered == Spec => []RequestsCovered
<1>1. Books => RequestsCovered
  BY DEF Books
<1> QED
  BY <1>1, BooksInit, BooksStep, WalletTypeInit, WalletTypeStep, PTL DEF Spec

-----------------------------------------------------------------------------
(* Prices.                                                                 *)

\* What a cash-out costs and pays under a legal configuration.
LEMMA PriceType ==
    ASSUME NEW c \in Configs, NEW u \in Nat, NEW currency
    PROVE  c.market \in Nat /\ CashoutFee(c, u) \in Nat /\ Payout(c, u, currency) \in Int
<1>1. c.market \in Nat /\ CashoutFee(c, u) \in Nat
  BY CashoutTypes, ConfigsAssumption
<1>2. Payout(c, u, currency) \in Int
  <2> DEFINE a == (u - CashoutFee(c, u)) * c.market * ZarUnit
  <2>1. u - CashoutFee(c, u) \in Int
    BY <1>1
  <2>2. a \in Int
    BY <1>1, <2>1, UnitsArePositive
  <2>3. Rounded(a, Unit * Unit) \in Int
    <3> HIDE DEF a
    <3> QED
      BY <2>2, UnitsArePositive, RoundedInt
  <2> QED
    BY <2>1, <2>3 DEF Payout
<1> QED
  BY <1>1, <1>2

PriceTypes ==
    /\ config \in Configs
    /\ page \in [CashOuts -> CashOutFigures]
    /\ row \in [CashOuts -> CashOutFigures]

LEMMA PricedType ==
    ASSUME config \in Configs, NEW r \in CashOuts
    PROVE  Priced(r) \in CashOutFigures
<1>1. Amount[r] \in Nat
  BY AmountAssumption
<1>2. /\ config.market \in Nat
      /\ CashoutFee(config, Amount[r]) \in Nat
      /\ Payout(config, Amount[r], Currency[r]) \in Int
  BY <1>1, PriceType
<1>3. config.coPct \in Nat /\ config.coMin \in Nat
  BY ConfigsAssumption DEF LegalConfig
<1> QED
  BY <1>2, <1>3 DEF Priced, CashOutFigures

LEMMA NoFiguresType == NoFigures \in CashOutFigures
  BY DEF NoFigures, CashOutFigures

LEMMA PriceTypesStep == PriceTypes /\ [PriceNext]_allVars => PriceTypes'
<1> SUFFICES ASSUME PriceTypes, [PriceNext]_allVars PROVE PriceTypes'
  OBVIOUS
<1> USE DEF PriceTypes
<1>1. ASSUME NEW r \in CashOuts, Preview(r) PROVE PriceTypes'
  BY <1>1, PricedType DEF Preview
<1>2. ASSUME NEW r \in CashOuts, Request(r) PROVE PriceTypes'
  BY <1>2, PricedType DEF Request
<1>3. ASSUME NEW r \in CashOuts, LeavePage(r) PROVE PriceTypes'
  BY <1>3, NoFiguresType DEF LeavePage
<1>4. ASSUME NEW c \in Configs, UpdateFees(c) PROVE PriceTypes'
  BY <1>4 DEF UpdateFees
<1>5. CASE UNCHANGED priceVars
  BY <1>5 DEF priceVars
<1>6. CASE UNCHANGED allVars
  BY <1>5, <1>6 DEF allVars
<1> QED
  BY <1>1, <1>2, <1>3, <1>4, <1>5, <1>6 DEF PriceNext

LEMMA PriceTypesInit == PriceInit => PriceTypes
  BY NoFiguresType DEF PriceInit, PriceTypes

\* Every variable of the wallet and of the agreed prices keeps its type.
THEOREM PriceTypeCorrect == PriceSpec => []PriceTypeOK
<1>1. WalletType /\ PriceTypes => PriceTypeOK
  BY DEF WalletType, PriceTypes, PriceTypeOK
<1> QED
  BY <1>1, PriceTypesInit, PriceTypesStep, RefinesWalletCache, WalletTypeCorrect, PTL DEF PriceSpec

\* Only a request brings a cash-out into being.
LEMMA AbsentStays ==
    ASSUME WalletType, MoveMoney, NEW r \in CashOuts, cashout[r] = "absent"
    PROVE  cashout'[r] = "absent"
<1>0. TypeOK /\ SessionItems
  BY DEF WalletType
<1>1. ASSUME NEW s \in Sessions, Approve(s) PROVE cashout'[r] = "absent"
  BY <1>0, <1>1 DEF Approve, TypeOK
<1>2. ASSUME NEW s \in Sessions, FailAndRestore(s) PROVE cashout'[r] = "absent"
  BY <1>0, <1>2 DEF FailAndRestore, TypeOK
<1>3. ASSUME NEW q \in CashOuts, Reject(q) \/ CompleteBurn(q) PROVE cashout'[r] = "absent"
  BY <1>0, <1>3 DEF Reject, CompleteBurn, TypeOK
<1>4. ASSUME NEW s \in Sessions, NEW t, NEW i, Load(s, t, i) PROVE UNCHANGED cashout
  BY <1>4 DEF Load
<1>5. ASSUME NEW s \in Sessions, CompleteSettlement(s) \/ Leave(s) PROVE UNCHANGED cashout
  BY <1>5 DEF CompleteSettlement, Leave
<1>6. ASSUME NEW p \in Transfers, ReconcileSettlement(p) PROVE UNCHANGED cashout
  BY <1>6 DEF ReconcileSettlement
<1> QED
  BY <1>1, <1>2, <1>3, <1>4, <1>5, <1>6
  DEF MoveMoney, LoadForCredit, LoadForApprove, LoadForRestore

\* What was agreed for cash-out r.
Agreed(r) ==
    /\ row[r].rate = page[r].rate
    /\ row[r].fee = page[r].fee
    /\ row[r].payout = page[r].payout
    /\ row[r].payout > 0
    /\ page[r].fee = Rounded(Larger(row[r].pct * Amount[r], row[r].min * PctUnit), PctUnit)
    /\ Currency[r] = "USD" => row[r].fee + row[r].payout = Amount[r]

LEMMA AgreedStep ==
    ASSUME WalletType, PriceTypes, AgreedPayout, [PriceNext]_allVars
    PROVE  AgreedPayout'
<1> SUFFICES ASSUME NEW r \in CashOuts, cashout'[r] # "absent" PROVE Agreed(r)'
  BY DEF AgreedPayout, Agreed
<1>0. cashout[r] # "absent" => Agreed(r)
  BY DEF AgreedPayout, Agreed
<1>1. CASE MoveMoney /\ UNCHANGED priceVars
  BY <1>0, <1>1, AbsentStays DEF priceVars, Agreed
<1>2. ASSUME NEW q \in CashOuts, Preview(q) \/ LeavePage(q) PROVE Agreed(r)'
  <2>1. cashout[q] = "absent" /\ cashout' = cashout /\ row' = row
    BY <1>2 DEF Preview, LeavePage, vars
  <2>2. page'[r] = page[r]
    BY <1>2, <2>1 DEF Preview, LeavePage, PriceTypes
  <2> QED
    BY <1>0, <2>1, <2>2 DEF Agreed
<1>3. ASSUME NEW q \in CashOuts, Request(q) PROVE Agreed(r)'
  <2>1. page' = page /\ row' = [row EXCEPT ![q] = Priced(q)]
    BY <1>3 DEF Request
  <2>2. CASE r = q
    <3>1. /\ row'[r] = Priced(r) /\ Priced(r).rate = page[r].rate
          /\ Priced(r).fee = page[r].fee /\ Priced(r).payout = page[r].payout
      BY <1>3, <2>1, <2>2 DEF Request, PricingMatches, PriceTypes
    <3>2. Priced(r).payout = Payout(config, Amount[r], Currency[r])
          /\ Priced(r).fee = CashoutFee(config, Amount[r])
          /\ Priced(r).pct = config.coPct /\ Priced(r).min = config.coMin
      BY DEF Priced
    <3>3. Priced(r).payout > 0
      BY <1>3, <2>2, <3>2 DEF Request, CashoutQuotable
    <3>4. Currency[r] = "USD" => Priced(r).fee + Priced(r).payout = Amount[r]
      <4>1. Amount[r] \in Nat
        BY AmountAssumption
      <4>2. CashoutFee(config, Amount[r]) \in Nat
        BY <4>1, PriceType DEF PriceTypes
      <4> QED
        BY <3>2, <4>1, <4>2 DEF Payout
    <3>5. Priced(r).fee = Rounded(Larger(Priced(r).pct * Amount[r], Priced(r).min * PctUnit), PctUnit)
      BY <3>2 DEF CashoutFee
    <3> QED
      BY <2>1, <3>1, <3>3, <3>4, <3>5 DEF Agreed
  <2>3. CASE r # q
    <3>1. row'[r] = row[r]
      BY <2>1, <2>3 DEF PriceTypes
    <3>2. cashout'[r] = cashout[r]
      BY <1>3, <2>3 DEF Request, CreateRequest, WalletType, TypeOK
    <3> QED
      BY <1>0, <2>1, <3>1, <3>2 DEF Agreed
  <2> QED
    BY <2>2, <2>3
<1>4. ASSUME NEW c \in Configs, UpdateFees(c) PROVE Agreed(r)'
  BY <1>0, <1>4 DEF UpdateFees, vars, Agreed
<1>5. CASE UNCHANGED allVars
  BY <1>0, <1>5 DEF allVars, vars, priceVars, Agreed
<1> QED
  BY <1>1, <1>2, <1>3, <1>4, <1>5 DEF PriceNext

\* Every cash-out has the rate, the fee and the payout its review page showed, however
\* often the fees change; the payout is positive, fee and payout add up to the amount
\* debited, and the percentage and minimum booked give the fee (_pricing_matches).
THEOREM PayoutIsAsAgreed == PriceSpec => []AgreedPayout
<1>1. PriceInit => AgreedPayout
  BY DEF PriceInit, Init, AgreedPayout
<1> QED
  BY <1>1, AgreedStep, PriceTypesInit, PriceTypesStep, RefinesWalletCache, WalletTypeCorrect,
     PTL DEF PriceSpec
=============================================================================
