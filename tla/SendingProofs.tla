----------------------------- MODULE SendingProofs -----------------------------
(***************************************************************************)
(* Proofs about Sending for any tabs, contacts, amounts, tiers, days and   *)
(* legal fees: its types, that what is booked is the price shown, converts  *)
(* fairly and fits the allowance, and that a payment follows the           *)
(* beneficiary's contact.                                                  *)
(***************************************************************************)
EXTENDS Sending, ArithmeticProofs, SequenceTheorems

-----------------------------------------------------------------------------
(* The price.                                                              *)

\* q is what some configuration asks for a send of zar.
Priced(q, zar) == \E c \in Configs : Quotable(c, zar) /\ q = Figures(c, zar)

LEMMA FeeTypes ==
    ASSUME NEW c \in Configs, NEW zar \in Amounts
    PROVE  TransactionFee(c, zar) \in Nat /\ EffectiveRate(c) \in Nat /\ NetZar(c, zar) \in Int
<1>1. /\ c.fixed \in Nat /\ c.pct \in Nat /\ c.margin \in Nat /\ c.market \in Nat
      /\ zar \in Nat /\ PctUnit \in Nat \ {0}
  BY ConfigsAssumption, AmountsAssumption, UnitsAssumption DEF LegalConfig
<1>2. /\ c.fixed * PctUnit + c.pct * zar \in Nat
      /\ c.market * (PctUnit + c.margin) \in Nat
  BY <1>1
<1>3. TransactionFee(c, zar) \in Nat /\ EffectiveRate(c) \in Nat
  BY <1>1, <1>2, RoundedNearest DEF TransactionFee, EffectiveRate
<1> QED
  BY <1>1, <1>3 DEF NetZar

\* The figures of a price, and how near its dollars are to its rand.
LEMMA PriceIsFair ==
    ASSUME NEW q, NEW zar \in Amounts, Priced(q, zar)
    PROVE  /\ q \in AllFigures
           /\ q.uctusd > 0 /\ zar - q.fee > 0
           /\ LET error == q.uctusd * ZarUnit * q.rate - (zar - q.fee) * Unit * Unit
              IN 2 * Larger(error, -error) <= ZarUnit * q.rate
           /\ q.rate = Rounded(q.market * (PctUnit + q.margin), PctUnit)
<1>1. PICK c \in Configs : Quotable(c, zar) /\ q = Figures(c, zar)
  BY DEF Priced
<1> DEFINE net == NetZar(c, zar)
           rate == EffectiveRate(c)
           u == Uctusd(c, zar)
<1>2. TransactionFee(c, zar) \in Nat /\ rate \in Nat /\ net \in Int /\ rate > 0 /\ net > 0 /\ u > 0
  BY <1>1, FeeTypes DEF Quotable
<1>3. ZarUnit \in Nat \ {0} /\ Unit \in Nat \ {0}
  BY UnitsAssumption
<1>4. zar \in Nat /\ net = zar - TransactionFee(c, zar)
  BY AmountsAssumption DEF NetZar
<1>5. q.rate = rate /\ q.fee = TransactionFee(c, zar) /\ q.uctusd = u
  BY <1>1 DEF Figures
<1>6. u = Rounded(net * Unit * Unit, ZarUnit * rate)
  BY DEF Uctusd
<1> HIDE DEF net, rate, u
<1>7. net * Unit * Unit \in Int /\ ZarUnit * rate \in Nat \ {0}
  BY <1>2, <1>3
<1>8. /\ u \in Int
      /\ 2 * (u * (ZarUnit * rate) - net * Unit * Unit) <= ZarUnit * rate
      /\ 2 * (net * Unit * Unit - u * (ZarUnit * rate)) <= ZarUnit * rate
  <2> DEFINE a == net * Unit * Unit
             b == ZarUnit * rate
  <2>1. a \in Int /\ b \in Nat \ {0} /\ u = Rounded(a, b)
    BY <1>6, <1>7
  <2> HIDE DEF a, b
  <2>2. u \in Int /\ 2 * (u * b - a) <= b /\ 2 * (a - u * b) <= b
    BY <2>1, RoundedNearest
  <2> QED
    BY <2>2 DEF a, b
<1>9. u * (ZarUnit * rate) = u * ZarUnit * rate
  BY <1>2, <1>3, <1>8
<1>10. q \in AllFigures
  <2>1. c.market \in Nat /\ c.margin \in Nat
    BY ConfigsAssumption DEF LegalConfig
  <2> QED
    BY <1>1, <1>2, <1>5, <1>8, <2>1 DEF Figures, AllFigures
<1>11. q.uctusd > 0 /\ zar - q.fee > 0
  BY <1>2, <1>4, <1>5
<1>12. LET error == q.uctusd * ZarUnit * q.rate - (zar - q.fee) * Unit * Unit
       IN 2 * Larger(error, -error) <= ZarUnit * q.rate
  <2> DEFINE e == u * ZarUnit * rate - net * Unit * Unit
             b == ZarUnit * rate
  <2>1. b \in Nat /\ e \in Int
    BY <1>2, <1>3, <1>7, <1>8
  <2>2. 2 * e <= b /\ 2 * (-e) <= b
    <3> DEFINE m == u * ZarUnit * rate
               n == net * Unit * Unit
    <3>1. m \in Int /\ n \in Int
      BY <1>2, <1>3, <1>7, <1>8
    <3>2. 2 * (m - n) <= b /\ 2 * (n - m) <= b
      BY <1>8, <1>9
    <3>3. e = m - n
      OBVIOUS
    <3> HIDE DEF m, n, b, e
    <3> QED
      BY <2>1, <3>1, <3>2, <3>3
  <2>3. q.uctusd * ZarUnit * q.rate - (zar - q.fee) * Unit * Unit = e /\ ZarUnit * q.rate = b
    BY <1>4, <1>5
  <2> HIDE DEF e, b
  <2> QED
    BY <2>1, <2>2, <2>3 DEF Larger
<1>13. q.rate = Rounded(q.market * (PctUnit + q.margin), PctUnit)
  <2>1. q.market = c.market /\ q.margin = c.margin /\ q.rate = EffectiveRate(c)
    BY <1>1 DEF Figures
  <2> QED
    BY <2>1 DEF EffectiveRate
<1> QED
  BY <1>10, <1>11, <1>12, <1>13

-----------------------------------------------------------------------------
(* What is known of a request at each stage, and of what is booked.        *)

\* The price lock compares these figures of a quote with the page's.
Agrees(quote, shown) ==
    /\ quote.rate = shown.rate
    /\ quote.fee = shown.fee
    /\ quote.uctusd = shown.uctusd

Sound(r) ==
    /\ r.stage \in {"page", "loaded", "priced", "allowed"} => r.amount \in Amounts
    /\ r.stage \in {"loaded", "priced", "allowed"} => r.recipient \in Contacts
    /\ r.stage \in {"priced", "allowed"} => Agrees(r.quote, r.shown) /\ Priced(r.quote, r.amount)
    /\ r.stage = "allowed" => r.limits \in Tiers

SoundTabs == \A t \in Tabs : Sound(tab[t])

FairlyBooked(x) == Agrees(x.quote, x.shown) /\ Priced(x.quote, x.amount)
Booked == \A i \in DOMAIN sends : FairlyBooked(sends[i])

\* SoundTabs and Booked carry each other and the types.
PriceInv == TypeOK /\ SoundTabs /\ Booked

LEMMA IdleTypes ==
    /\ Absent \in BeneficiaryRow
    /\ Idle \in Request /\ Sound(Idle)
BY DEF Absent, BeneficiaryRow, MaybeContact, Idle, Request, Stages, NoFigures, AllFigures,
       NoLimits, Sound

LEMMA BecomeKeeps ==
    ASSUME TypeOK, SoundTabs, NEW t \in Tabs, NEW r \in Request, Sound(r), Become(t, r)
    PROVE  tab' \in [Tabs -> Request] /\ SoundTabs'
<1>1. tab' \in [Tabs -> Request]
  BY DEF Become, TypeOK
<1>2. ASSUME NEW u \in Tabs PROVE Sound(tab'[u])
  BY DEF Become, TypeOK, SoundTabs
<1>3. SoundTabs'
  BY <1>2 DEF SoundTabs, Sound, Priced
<1> QED
  BY <1>1, <1>3

LEMMA RecipientType == TypeOK => Recipient(beneficiary) \in MaybeContact
BY DEF Recipient, Resolve, TypeOK, BeneficiaryRow, MaybeContact

LEMMA PriceInit == Init => PriceInv
<1> SUFFICES ASSUME Init PROVE PriceInv
  OBVIOUS
<1>1. TypeOK
  BY IdleTypes, DaysAssumption DEF Init, TypeOK
<1>2. SoundTabs /\ Booked
  BY IdleTypes DEF Init, SoundTabs, Booked
<1> QED
  BY <1>1, <1>2 DEF PriceInv

\* A step that books nothing.
LEMMA Unbooked ==
    ASSUME PriceInv, UNCHANGED sends, tab' \in [Tabs -> Request], SoundTabs',
           config' \in Configs, tier' \in Tiers, day' \in Days,
           registered' \in SUBSET Contacts, beneficiary' \in BeneficiaryRow
    PROVE  PriceInv'
BY DEF PriceInv, TypeOK, Booked, FairlyBooked

\* A request moves on, and nothing else does.
LEMMA RequestMoves ==
    ASSUME PriceInv, NEW t \in Tabs, NEW r \in Request, Sound(r), Become(t, r),
           UNCHANGED <<config, tier, day, registered, beneficiary, sends>>
    PROVE  PriceInv'
BY BecomeKeeps, Unbooked DEF PriceInv, TypeOK

-----------------------------------------------------------------------------
(* A send, step by step.                                                   *)

LEMMA ShowQuoteTypes ==
    ASSUME PriceInv, NEW t \in Tabs, NEW zar \in Amounts, ShowQuote(t, zar)
    PROVE  PriceInv'
<1> DEFINE f == Figures(config, zar)
           r == [Idle EXCEPT !.stage = "page", !.amount = zar, !.shown = f]
<1>1. Priced(f, zar)
  BY DEF ShowQuote, Priced, PriceInv, TypeOK
<1>2. f \in AllFigures
  BY <1>1, PriceIsFair
<1>3. Become(t, r) /\ UNCHANGED <<config, tier, day, registered, beneficiary, sends>>
  BY DEF ShowQuote
<1> HIDE DEF f
<1>4. r \in Request /\ r.stage = "page" /\ r.amount = zar
  BY <1>2, IdleTypes DEF Idle, Request, Stages
<1>5. Sound(r)
  BY <1>4 DEF Sound
<1> HIDE DEF r
<1> QED
  BY <1>3, <1>4, <1>5, RequestMoves

LEMMA LoadTypes ==
    ASSUME PriceInv, NEW t \in Tabs, LockAndLoad(t)
    PROVE  PriceInv'
<1> DEFINE r == [tab[t] EXCEPT !.stage = "loaded", !.read = beneficiary,
                               !.recipient = Recipient(beneficiary)]
<1>1. tab[t] \in Request /\ beneficiary \in BeneficiaryRow /\ Sound(tab[t])
  BY DEF PriceInv, TypeOK, SoundTabs
<1>2. Recipient(beneficiary) \in Contacts
  BY RecipientType DEF LockAndLoad, PriceInv, MaybeContact
<1>3. /\ Become(t, r) /\ tab[t].stage = "page"
      /\ UNCHANGED <<config, tier, day, registered, beneficiary, sends>>
  BY DEF LockAndLoad
<1>4. /\ r \in Request /\ r.stage = "loaded" /\ r.amount = tab[t].amount
      /\ r.recipient = Recipient(beneficiary)
  BY <1>1, <1>2 DEF Request, Stages, MaybeContact
<1>5. Sound(r)
  BY <1>1, <1>2, <1>3, <1>4 DEF Sound
<1> HIDE DEF r
<1> QED
  BY <1>3, <1>4, <1>5, RequestMoves

LEMMA RepriceTypes ==
    ASSUME PriceInv, NEW t \in Tabs, Reprice(t)
    PROVE  PriceInv'
<1> DEFINE f == Figures(config, tab[t].amount)
           r == [tab[t] EXCEPT !.stage = "priced", !.quote = f]
<1>1. /\ tab[t] \in Request /\ Sound(tab[t]) /\ tab[t].stage = "loaded"
      /\ config \in Configs
  BY DEF Reprice, PriceInv, TypeOK, SoundTabs
<1>2. tab[t].amount \in Amounts /\ tab[t].recipient \in Contacts
  BY <1>1 DEF Sound
<1>3. Priced(f, tab[t].amount)
  BY <1>1 DEF Reprice, QuotedAsShown, Priced
<1>4. f \in AllFigures
  BY <1>2, <1>3, PriceIsFair
<1>5. /\ Become(t, r) /\ PricingMatches(f, tab[t].shown)
      /\ UNCHANGED <<config, tier, day, registered, beneficiary, sends>>
  BY DEF Reprice, QuotedAsShown
<1> HIDE DEF f
<1>6. Agrees(f, tab[t].shown)
  BY <1>5 DEF PricingMatches, Agrees
<1>7. /\ r \in Request /\ r.stage = "priced" /\ r.amount = tab[t].amount
      /\ r.recipient = tab[t].recipient /\ r.quote = f /\ r.shown = tab[t].shown
  BY <1>1, <1>4 DEF Request, Stages
<1> HIDE DEF r
<1>8. Sound(r)
  BY <1>2, <1>3, <1>6, <1>7 DEF Sound
<1> QED
  BY <1>5, <1>7, <1>8, RequestMoves

LEMMA CheckLimitTypes ==
    ASSUME PriceInv, NEW t \in Tabs, CheckLimit(t)
    PROVE  PriceInv'
<1> DEFINE r == [tab[t] EXCEPT !.stage = "allowed", !.limits = tier]
<1>1. /\ tab[t] \in Request /\ Sound(tab[t]) /\ tab[t].stage = "priced"
      /\ tier \in Tiers
  BY DEF CheckLimit, PriceInv, TypeOK, SoundTabs
<1>2. Become(t, r) /\ UNCHANGED <<config, tier, day, registered, beneficiary, sends>>
  BY DEF CheckLimit
<1>3. /\ r \in Request /\ r.stage = "allowed" /\ r.amount = tab[t].amount
      /\ r.recipient = tab[t].recipient /\ r.quote = tab[t].quote /\ r.shown = tab[t].shown
      /\ r.limits = tier
  BY <1>1 DEF Request, Stages
<1> HIDE DEF r
<1>4. Sound(r)
  BY <1>1, <1>3 DEF Sound
<1> QED
  BY <1>2, <1>3, <1>4, RequestMoves

LEMMA IdleAgain ==
    ASSUME PriceInv, NEW t \in Tabs, Become(t, Idle),
           UNCHANGED <<config, tier, day, registered, beneficiary, sends>>
    PROVE  PriceInv'
BY IdleTypes, RequestMoves

LEMMA InsertTypes ==
    ASSUME PriceInv, NEW t \in Tabs, NEW cashin \in {"pending", "failed"}, Insert(t, cashin)
    PROVE  PriceInv'
<1> DEFINE r == tab[t]
           x == [amount |-> r.amount, day |-> day, cashin |-> cashin, recipient |-> r.recipient,
                 shown |-> r.shown, quote |-> r.quote, limits |-> r.limits]
<1>1. /\ r \in Request /\ Sound(r) /\ r.stage = "allowed" /\ day \in Days
      /\ sends \in Seq(Transaction)
  BY DEF Insert, PriceInv, TypeOK, SoundTabs
<1>2. /\ r.amount \in Amounts /\ r.recipient \in Contacts /\ r.limits \in Tiers
      /\ Agrees(r.quote, r.shown) /\ Priced(r.quote, r.amount)
  BY <1>1 DEF Sound
<1>3. r.shown \in AllFigures /\ r.quote \in AllFigures
  BY <1>1 DEF Request
<1>4. sends' = Append(sends, x) /\ Become(t, Idle) /\ UNCHANGED <<config, tier, day, registered>>
  BY DEF Insert
<1>5. beneficiary' \in BeneficiaryRow
  BY <1>2 DEF Insert, PriceInv, TypeOK, BeneficiaryRow, MaybeContact
<1> HIDE DEF r
<1>6. x \in Transaction
  BY <1>1, <1>2, <1>3 DEF Transaction
<1>7. FairlyBooked(x)
  BY <1>2 DEF FairlyBooked
<1> HIDE DEF x
<1>8. sends' \in Seq(Transaction)
  BY <1>1, <1>4, <1>6
<1>9. \A i \in DOMAIN sends' : sends'[i] = x \/ (i \in DOMAIN sends /\ sends'[i] = sends[i])
  BY <1>1, <1>4, <1>6
<1>10. \A i \in DOMAIN sends' : FairlyBooked(sends'[i])
  BY <1>7, <1>9 DEF PriceInv, Booked
<1>11. Booked'
  BY <1>10 DEF Booked, FairlyBooked, Priced
<1>12. tab' \in [Tabs -> Request] /\ SoundTabs'
  BY <1>4, IdleTypes, BecomeKeeps DEF PriceInv
<1> QED
  BY <1>4, <1>5, <1>8, <1>11, <1>12 DEF PriceInv, TypeOK

-----------------------------------------------------------------------------
(* The others.                                                             *)

LEMMA OpenEditTypes ==
    ASSUME PriceInv, NEW t \in Tabs, OpenEdit(t)
    PROVE  PriceInv'
<1> DEFINE r == [Idle EXCEPT !.stage = "editing", !.read = beneficiary]
<1>1. Become(t, r) /\ UNCHANGED <<config, tier, day, registered, beneficiary, sends>>
  BY DEF OpenEdit
<1>2. beneficiary \in BeneficiaryRow
  BY DEF PriceInv, TypeOK
<1>3. r \in Request /\ r.stage = "editing"
  BY <1>2, IdleTypes DEF Idle, Request, Stages
<1> HIDE DEF r
<1>4. Sound(r)
  BY <1>3 DEF Sound
<1> QED
  BY <1>1, <1>3, <1>4, RequestMoves

LEMMA SaveEditTypes ==
    ASSUME PriceInv, NEW t \in Tabs, NEW c \in Contacts, SaveEdit(t, c)
    PROVE  PriceInv'
<1>1. /\ beneficiary \in BeneficiaryRow /\ Resolve(c) \in MaybeContact /\ c \in MaybeContact
  BY DEF PriceInv, TypeOK, Resolve, MaybeContact
<1>2. beneficiary' \in BeneficiaryRow
  BY <1>1 DEF SaveEdit, BeneficiaryRow
<1>3. Become(t, Idle) /\ UNCHANGED <<config, tier, day, registered, sends>>
  BY DEF SaveEdit
<1>4. tab' \in [Tabs -> Request] /\ SoundTabs'
  BY <1>3, IdleTypes, BecomeKeeps DEF PriceInv
<1> QED
  BY <1>2, <1>3, <1>4, Unbooked DEF PriceInv, TypeOK

\* A step of nobody's request that books nothing.
LEMMA OtherTypes ==
    ASSUME PriceInv,
           \/ \E c \in Contacts : AddBeneficiary(c) \/ Register(c)
           \/ DeleteBeneficiary
           \/ \E c \in Configs : UpdateFees(c)
           \/ \E r \in Tiers : UpdateTierLimits(r)
           \/ NextDay
    PROVE  PriceInv'
<1>1. UNCHANGED <<sends, tab>>
  BY DEF AddBeneficiary, Register, DeleteBeneficiary, UpdateFees, UpdateTierLimits, NextDay
<1>2. tab' \in [Tabs -> Request] /\ SoundTabs'
  BY <1>1 DEF PriceInv, TypeOK, SoundTabs, Sound, Priced
<1>3. ASSUME NEW c \in Contacts, AddBeneficiary(c) PROVE PriceInv'
  <2>1. beneficiary' \in BeneficiaryRow
    BY <1>3 DEF AddBeneficiary, BeneficiaryRow, MaybeContact, Resolve
  <2> QED
    BY <1>1, <1>2, <1>3, <2>1, Unbooked DEF AddBeneficiary, PriceInv, TypeOK
<1>4. ASSUME NEW c \in Contacts, Register(c) PROVE PriceInv'
  BY <1>1, <1>2, <1>4, Unbooked DEF Register, PriceInv, TypeOK
<1>5. CASE DeleteBeneficiary
  <2>1. beneficiary' \in BeneficiaryRow
    BY <1>5 DEF DeleteBeneficiary, BeneficiaryRow, PriceInv, TypeOK
  <2> QED
    BY <1>1, <1>2, <1>5, <2>1, Unbooked DEF DeleteBeneficiary, PriceInv, TypeOK
<1>6. ASSUME NEW c \in Configs, UpdateFees(c) PROVE PriceInv'
  BY <1>1, <1>2, <1>6, Unbooked DEF UpdateFees, PriceInv, TypeOK
<1>7. ASSUME NEW r \in Tiers, UpdateTierLimits(r) PROVE PriceInv'
  BY <1>1, <1>2, <1>7, Unbooked DEF UpdateTierLimits, PriceInv, TypeOK
<1>8. CASE NextDay
  BY <1>1, <1>2, <1>8, Unbooked DEF NextDay, PriceInv, TypeOK
<1> QED
  BY <1>3, <1>4, <1>5, <1>6, <1>7, <1>8

\* Only the cash-ins of what is booked move.
LEMMA CashinsMove ==
    ASSUME PriceInv, UNCHANGED <<config, tier, day, registered, beneficiary, tab>>,
           DOMAIN sends' = DOMAIN sends, sends' = [i \in DOMAIN sends |-> sends'[i]],
           \A i \in DOMAIN sends :
              /\ sends'[i] \in Transaction
              /\ sends'[i].amount = sends[i].amount
              /\ sends'[i].shown = sends[i].shown /\ sends'[i].quote = sends[i].quote
    PROVE  PriceInv'
<1>1. sends \in Seq(Transaction) /\ Len(sends) \in Nat /\ DOMAIN sends = 1 .. Len(sends)
  BY DEF PriceInv, TypeOK
<1>2. sends' \in [1 .. Len(sends) -> Transaction]
  BY <1>1
<1>3. sends' \in Seq(Transaction)
  BY <1>1, <1>2, SeqDef
<1>4. \A i \in DOMAIN sends' : FairlyBooked(sends'[i])
  BY DEF PriceInv, Booked, FairlyBooked
<1>5. Booked'
  BY <1>4 DEF Booked, FairlyBooked, Priced
<1>6. SoundTabs'
  BY DEF PriceInv, SoundTabs, Sound, Priced
<1> QED
  BY <1>3, <1>5, <1>6 DEF PriceInv, TypeOK

LEMMA DecideTypes ==
    ASSUME PriceInv, NEW i \in DOMAIN sends, NEW cashin \in {"received", "failed"},
           DecideCashin(i, cashin)
    PROVE  PriceInv'
<1>1. \A j \in DOMAIN sends : sends[j] \in Transaction
  BY DEF PriceInv, TypeOK
<1>2. sends' = [sends EXCEPT ![i].cashin = cashin]
  BY DEF DecideCashin
<1>3. /\ DOMAIN sends' = DOMAIN sends /\ sends' = [j \in DOMAIN sends |-> sends'[j]]
      /\ \A j \in DOMAIN sends \ {i} : sends'[j] = sends[j]
      /\ sends'[i] = [sends[i] EXCEPT !.cashin = cashin]
  BY <1>2 DEF PriceInv, TypeOK
<1>4. /\ sends'[i] \in Transaction /\ sends'[i].amount = sends[i].amount
      /\ sends'[i].shown = sends[i].shown /\ sends'[i].quote = sends[i].quote
  BY <1>1, <1>3 DEF Transaction
<1> QED
  BY <1>1, <1>3, <1>4, CashinsMove DEF DecideCashin

LEMMA ExpireTypes ==
    ASSUME PriceInv, NEW d \in Days, ExpireBefore(d)
    PROVE  PriceInv'
<1>1. \A j \in DOMAIN sends : sends[j] \in Transaction
  BY DEF PriceInv, TypeOK
<1>2. ASSUME NEW i \in DOMAIN sends
      PROVE  /\ sends'[i] \in Transaction /\ sends'[i].amount = sends[i].amount
             /\ sends'[i].shown = sends[i].shown /\ sends'[i].quote = sends[i].quote
  <2>1. sends'[i] \in {sends[i], [sends[i] EXCEPT !.cashin = "failed"]}
    BY DEF ExpireBefore
  <2> QED
    BY <1>1, <2>1 DEF Transaction
<1>3. DOMAIN sends' = DOMAIN sends /\ sends' = [i \in DOMAIN sends |-> sends'[i]]
  BY DEF ExpireBefore
<1> QED
  BY <1>2, <1>3, CashinsMove DEF ExpireBefore

LEMMA PriceStep == PriceInv /\ [Next]_vars => PriceInv'
<1> SUFFICES ASSUME PriceInv, [Next]_vars PROVE PriceInv'
  OBVIOUS
<1>1. ASSUME NEW t \in Tabs, Send(t) PROVE PriceInv'
  BY <1>1, ShowQuoteTypes, LoadTypes, RepriceTypes, CheckLimitTypes, InsertTypes, IdleAgain
     DEF Send, LeavePage, Refuse
<1>2. CASE UNCHANGED vars
  <2>1. SoundTabs'
    BY <1>2 DEF vars, PriceInv, SoundTabs, Sound, Priced
  <2> QED
    BY <1>2, <2>1, Unbooked DEF vars, PriceInv, TypeOK
<1> QED
  BY <1>1, <1>2, OpenEditTypes, SaveEditTypes, OtherTypes, DecideTypes, ExpireTypes DEF Next

\* Every variable keeps its type, what is booked included (create_remittance).
THEOREM TypeCorrect == Spec => []TypeOK
<1>1. PriceInv => TypeOK
  BY DEF PriceInv
<1> QED
  BY <1>1, PriceInit, PriceStep, PTL DEF Spec

\* The rate, the fee and the dollars booked are those the page showed, and the market
\* rate and margin booked give that rate, however often the fees were edited in between
\* (_pricing_matches).
THEOREM BookedAsShown == Spec => []PricedAsShown
<1>1. PriceInv => PricedAsShown
  <2> SUFFICES ASSUME PriceInv, NEW i \in DOMAIN sends
               PROVE  LET booked == sends[i].quote
                          page == sends[i].shown
                      IN /\ Agrees(booked, page)
                         /\ page.rate = Rounded(booked.market * (PctUnit + booked.margin), PctUnit)
    BY DEF PricedAsShown, Agrees
  <2>1. sends[i] \in Transaction
    BY DEF PriceInv, TypeOK
  <2>2. Agrees(sends[i].quote, sends[i].shown) /\ Priced(sends[i].quote, sends[i].amount)
    BY DEF PriceInv, Booked, FairlyBooked
  <2> QED
    BY <2>1, <2>2, PriceIsFair DEF Agrees, Transaction
<1> QED
  BY <1>1, PriceInit, PriceStep, PTL DEF Spec

\* What is booked pays the recipient something, within half a unit of the net rand at
\* the quoted rate, for all units and all legal fees (calculate_quote, quote_for).
THEOREM BookedFairly == Spec => []ConvertedFairly
<1>1. PriceInv => ConvertedFairly
  <2> SUFFICES ASSUME PriceInv, NEW i \in DOMAIN sends
               PROVE  LET q == sends[i].quote
                          net == sends[i].amount - q.fee
                          error == q.uctusd * ZarUnit * q.rate - net * Unit * Unit
                      IN q.uctusd > 0 /\ net > 0 /\ 2 * Larger(error, -error) <= ZarUnit * q.rate
    BY DEF ConvertedFairly
  <2>1. sends[i] \in Transaction
    BY DEF PriceInv, TypeOK
  <2>2. sends[i].amount \in Amounts /\ Priced(sends[i].quote, sends[i].amount)
    BY <2>1 DEF PriceInv, Booked, FairlyBooked, Transaction
  <2> QED
    BY <2>2, PriceIsFair
<1> QED
  BY <1>1, PriceInit, PriceStep, PTL DEF Spec

-----------------------------------------------------------------------------
(* The allowance.                                                          *)

LEMMA CountedType ==
    ASSUME NEW txns \in Seq(Transaction), NEW days
    PROVE  /\ IsFiniteSet(Counted(txns, days))
           /\ Counted(txns, days) \subseteq DOMAIN txns
           /\ DOMAIN txns = 1 .. Len(txns) /\ Len(txns) \in Nat
           /\ \A i \in DOMAIN txns : txns[i] \in Transaction /\ txns[i].amount \in Nat
<1>1. DOMAIN txns = 1 .. Len(txns) /\ Len(txns) \in Nat
  OBVIOUS
<1>2. \A i \in DOMAIN txns : txns[i] \in Transaction
  OBVIOUS
<1>3. \A x \in Transaction : x.amount \in Nat
  BY AmountsAssumption DEF Transaction
<1>4. IsFiniteSet(1 .. Len(txns))
  BY <1>1, FS_Interval
<1>5. Counted(txns, days) \subseteq 1 .. Len(txns)
  BY <1>1 DEF Counted
<1>6. IsFiniteSet(Counted(txns, days))
  BY <1>4, <1>5, FS_Subset
<1> QED
  BY <1>1, <1>2, <1>3, <1>5, <1>6

LEMMA UsedIsNat ==
    ASSUME NEW txns \in Seq(Transaction), NEW days
    PROVE  Used(txns, days) \in Nat
<1> DEFINE f == [i \in DOMAIN txns |-> txns[i].amount]
<1>1. \A i \in Counted(txns, days) : f[i] \in Nat
  BY CountedType
<1>2. SumFunctionOnSet(f, Counted(txns, days)) \in Nat
  <2> HIDE DEF f
  <2> QED
    BY <1>1, CountedType, SumNat
<1> QED
  BY <1>2 DEF Used

\* Fewer transactions, of which no more count, on fewer days use no more.
LEMMA UsedFalls ==
    ASSUME NEW txns \in Seq(Transaction), NEW less \in Seq(Transaction),
           NEW days, NEW fewer \in SUBSET days,
           DOMAIN less \subseteq DOMAIN txns,
           \A i \in DOMAIN less :
              /\ less[i].amount = txns[i].amount /\ less[i].day = txns[i].day
              /\ txns[i].cashin = "failed" => less[i].cashin = "failed"
    PROVE  Used(less, fewer) <= Used(txns, days)
<1> DEFINE f == [i \in DOMAIN txns |-> txns[i].amount]
           g == [i \in DOMAIN less |-> less[i].amount]
           S == Counted(txns, days)
           T == Counted(less, fewer)
<1>1. IsFiniteSet(S) /\ \A i \in S : f[i] \in Nat
  BY CountedType
<1>2. T \in SUBSET S
  BY DEF Counted
<1>3. \A i \in T : g[i] \in Nat /\ g[i] <= f[i]
  <2> SUFFICES ASSUME NEW i \in T PROVE g[i] \in Nat /\ g[i] <= f[i]
    OBVIOUS
  <2>1. i \in DOMAIN less /\ i \in DOMAIN txns
    BY DEF Counted
  <2>2. less[i].amount \in Nat /\ less[i].amount = txns[i].amount
    BY <2>1, CountedType
  <2> QED
    BY <2>1, <2>2
<1>4. SumFunctionOnSet(g, T) <= SumFunctionOnSet(f, S)
  <2> HIDE DEF f, g, S, T
  <2> QED
    BY <1>1, <1>2, <1>3, SumMonotone
<1> QED
  BY <1>4 DEF Used

\* One more transaction uses at most its amount more.
LEMMA UsedAppend ==
    ASSUME NEW txns \in Seq(Transaction), NEW x \in Transaction, NEW days
    PROVE  Used(Append(txns, x), days) <= Used(txns, days) + x.amount
<1> DEFINE more == Append(txns, x)
           n == Len(txns) + 1
           f == [i \in DOMAIN txns |-> txns[i].amount]
           g == [i \in DOMAIN more |-> more[i].amount]
           S == Counted(txns, days)
           T == Counted(more, days)
<1>1. /\ more \in Seq(Transaction) /\ DOMAIN more = DOMAIN txns \cup {n}
      /\ DOMAIN txns = 1 .. Len(txns) /\ Len(txns) \in Nat
      /\ more[n] = x /\ \A i \in DOMAIN txns : more[i] = txns[i]
  OBVIOUS
<1>2. IsFiniteSet(S) /\ S \subseteq DOMAIN txns /\ \A i \in S : f[i] \in Nat
  BY CountedType
<1>3. n \notin S /\ n \in DOMAIN more
  BY <1>1, <1>2
<1>4. g[n] = x.amount /\ x.amount \in Nat
  <2>1. x.amount \in Nat
    BY AmountsAssumption DEF Transaction
  <2> QED
    BY <1>1, <1>3, <2>1
<1>5. \A i \in S : g[i] = f[i] /\ g[i] \in Nat
  <2> SUFFICES ASSUME NEW i \in S PROVE g[i] = f[i] /\ g[i] \in Nat
    OBVIOUS
  <2>1. i \in DOMAIN txns /\ i \in DOMAIN more /\ more[i] = txns[i]
    BY <1>1, <1>2
  <2>2. g[i] = more[i].amount /\ f[i] = txns[i].amount
    BY <2>1
  <2> QED
    BY <1>2, <2>1, <2>2
<1>6. T \in SUBSET (S \cup {n})
  BY <1>1 DEF Counted
<1> HIDE DEF n, f, g, S, T, more
<1>7. IsFiniteSet(S \cup {n}) /\ SumFunctionOnSet(g, S \cup {n}) = SumFunctionOnSet(g, S) + g[n]
  <2>1. (\A i \in S : g[i] \in Int) /\ g[n] \in Int
    BY <1>4, <1>5
  <2> QED
    BY <1>2, <1>3, <2>1, SumAdd
<1>8. SumFunctionOnSet(g, T) <= SumFunctionOnSet(g, S \cup {n})
  <2>1. \A i \in S \cup {n} : g[i] \in Nat
    BY <1>4, <1>5
  <2>2. \A i \in T : g[i] \in Nat /\ g[i] <= g[i]
    BY <1>6, <2>1
  <2> QED
    BY <1>6, <1>7, <2>1, <2>2, SumMonotone
<1>9. SumFunctionOnSet(g, S) <= SumFunctionOnSet(f, S)
  <2>1. \A i \in S : g[i] \in Nat /\ g[i] <= f[i]
    BY <1>5
  <2> QED
    BY <1>2, <2>1, SumMonotone
<1>10. /\ Used(txns, days) = SumFunctionOnSet(f, S)
       /\ Used(Append(txns, x), days) = SumFunctionOnSet(g, T)
  BY DEF Used, f, g, S, T, more
<1> DEFINE a == SumFunctionOnSet(f, S)
           b == SumFunctionOnSet(g, T)
           c == SumFunctionOnSet(g, S \cup {n})
           d == SumFunctionOnSet(g, S)
           e == x.amount
<1>11. a \in Nat /\ b \in Int /\ d \in Nat /\ c = d + e /\ e \in Nat /\ b <= c /\ d <= a
  <2>1. a \in Nat
    BY <1>2, SumNat
  <2>2. d \in Nat
    BY <1>2, <1>5, SumNat
  <2>3. b \in Nat
    <3>1. Append(txns, x) \in Seq(Transaction)
      BY <1>1 DEF more
    <3> QED
      BY <1>10, <3>1, UsedIsNat
  <2> QED
    BY <1>4, <1>7, <1>8, <1>9, <2>1, <2>2, <2>3
<1>12. b <= a + e
  <2> HIDE DEF a, b, c, d, e
  <2> QED
    BY <1>11
<1> QED
  BY <1>10, <1>12

\* A payment that holds the sender's row; there is one at most.
Pays(r) == r.stage \in {"loaded", "priced", "allowed"}
OnePays == \A t, u \in Tabs : Pays(tab[t]) /\ Pays(tab[u]) => t = u

\* A request that passed check_limit still fits the limits it was checked against.
Room(r) ==
    r.stage = "allowed" =>
        /\ DailyUsage + r.amount <= r.limits.daily
        /\ MonthlyUsage + r.amount <= r.limits.monthly

AllowanceInv ==
    /\ OnePays
    /\ \A t \in Tabs : Room(tab[t])
    /\ FitsAllowance

\* Transactions stop counting at most, and days pass at most.
Relaxes ==
    /\ DOMAIN sends' = DOMAIN sends
    /\ \A i \in DOMAIN sends :
          /\ sends'[i].amount = sends[i].amount /\ sends'[i].day = sends[i].day
          /\ sends'[i].limits = sends[i].limits
          /\ sends[i].cashin = "failed" => sends'[i].cashin = "failed"
    /\ day <= day'

LEMMA UsageType ==
    ASSUME TypeOK
    PROVE  DailyUsage \in Nat /\ MonthlyUsage \in Nat
BY UsedIsNat DEF TypeOK, DailyUsage, MonthlyUsage

LEMMA UsageFalls ==
    ASSUME TypeOK, TypeOK', Relaxes
    PROVE  DailyUsage' <= DailyUsage /\ MonthlyUsage' <= MonthlyUsage
<1>1. sends \in Seq(Transaction) /\ sends' \in Seq(Transaction) /\ day \in Days /\ day' \in Days
  BY DEF TypeOK
<1>2. {e \in Days : e >= day'} \in SUBSET {e \in Days : e >= day}
  <2>1. day \in Nat /\ day' \in Nat /\ day <= day'
    BY <1>1, DaysAssumption DEF Relaxes
  <2>2. ASSUME NEW e \in Days, e >= day' PROVE e >= day
    BY <2>1, <2>2, DaysAssumption
  <2> QED
    BY <2>2
<1>3. {e \in Days : MonthOf[e] >= MonthOf[day']} \in SUBSET {e \in Days : MonthOf[e] >= MonthOf[day]}
  <2>1. MonthOf[day] <= MonthOf[day'] /\ MonthOf[day] \in Nat /\ MonthOf[day'] \in Nat
    BY <1>1, MonthAssumption DEF Relaxes
  <2>2. \A e \in Days : MonthOf[e] \in Nat
    BY MonthAssumption
  <2>3. \A x, y, z \in Nat : x >= y /\ z <= y => x >= z
    OBVIOUS
  <2>4. ASSUME NEW e \in Days, MonthOf[e] >= MonthOf[day'] PROVE MonthOf[e] >= MonthOf[day]
    BY <2>1, <2>2, <2>3, <2>4
  <2> QED
    BY <2>4
<1>4. ASSUME NEW days, NEW fewer \in SUBSET days PROVE Used(sends', fewer) <= Used(sends, days)
  BY <1>1, UsedFalls DEF Relaxes
<1>5. /\ DailyUsage' = Used(sends', {e \in Days : e >= day'})
      /\ MonthlyUsage' = Used(sends', {e \in Days : MonthOf[e] >= MonthOf[day']})
  BY DEF DailyUsage, MonthlyUsage, Used, Counted
<1>6. DailyUsage' <= DailyUsage
  BY <1>2, <1>4, <1>5 DEF DailyUsage
<1>7. MonthlyUsage' <= MonthlyUsage
  BY <1>3, <1>4, <1>5 DEF MonthlyUsage
<1> QED
  BY <1>6, <1>7

LEMMA Prefix ==
    ASSUME NEW txns \in Seq(Transaction), NEW i \in DOMAIN txns
    PROVE  /\ SubSeq(txns, 1, i) \in Seq(Transaction)
           /\ DOMAIN SubSeq(txns, 1, i) = 1 .. i
           /\ \A j \in 1 .. i : j \in DOMAIN txns /\ SubSeq(txns, 1, i)[j] = txns[j]
<1>1. i \in Int /\ 1 <= i /\ i <= Len(txns) /\ Len(txns) \in Nat /\ DOMAIN txns = 1 .. Len(txns)
  OBVIOUS
<1>2. \A j \in 1 .. i : j \in DOMAIN txns /\ txns[j] \in Transaction
  BY <1>1
<1>3. /\ SubSeq(txns, 1, i) \in Seq(Transaction)
      /\ Len(SubSeq(txns, 1, i)) = IF 1 <= i THEN i - 1 + 1 ELSE 0
      /\ \A j \in 1 .. i - 1 + 1 : SubSeq(txns, 1, i)[j] = txns[1 + j - 1]
  BY <1>1, <1>2, SubSeqProperties
<1>4. \A j \in 1 .. i : SubSeq(txns, 1, i)[j] = txns[j]
  <2> TAKE j \in 1 .. i
  <2>1. j \in Int /\ j \in 1 .. i - 1 + 1 /\ 1 + j - 1 = j
    BY <1>1
  <2> QED
    BY <1>3, <2>1
<1>5. DOMAIN SubSeq(txns, 1, i) = 1 .. i
  BY <1>1, <1>3
<1> QED
  BY <1>2, <1>3, <1>4, <1>5

\* What is booked for transaction i, up to it, fits its limits.
Fits(txns, i) ==
    txns[i].cashin # "failed" =>
        /\ Used(SubSeq(txns, 1, i), {txns[i].day}) <= txns[i].limits.daily
        /\ Used(SubSeq(txns, 1, i), SameMonth(txns[i].day)) <= txns[i].limits.monthly

LEMMA FitsEach ==
    /\ FitsAllowance <=> \A i \in DOMAIN sends : Fits(sends, i)
    /\ FitsAllowance' <=> \A i \in DOMAIN sends' : Fits(sends', i)
BY DEF FitsAllowance, Fits, Used, Counted, SameMonth

LEMMA FitsFalls ==
    ASSUME NEW txns \in Seq(Transaction), NEW less \in Seq(Transaction),
           NEW i \in DOMAIN txns, i \in DOMAIN less,
           \A j \in 1 .. i :
              /\ less[j].amount = txns[j].amount /\ less[j].day = txns[j].day
              /\ less[j].limits = txns[j].limits
              /\ txns[j].cashin = "failed" => less[j].cashin = "failed",
           Fits(txns, i)
    PROVE  Fits(less, i)
<1> SUFFICES ASSUME less[i].cashin # "failed" PROVE Fits(less, i)
  BY DEF Fits
<1>1. i \in 1 .. i
  OBVIOUS
<1>2. less[i].day = txns[i].day /\ less[i].limits = txns[i].limits /\ txns[i].cashin # "failed"
  BY <1>1
<1> DEFINE p == SubSeq(txns, 1, i)
           q == SubSeq(less, 1, i)
<1>3. /\ p \in Seq(Transaction) /\ q \in Seq(Transaction)
      /\ DOMAIN p = 1 .. i /\ DOMAIN q = 1 .. i
      /\ \A j \in 1 .. i : p[j] = txns[j] /\ q[j] = less[j]
  BY Prefix
<1>4. ASSUME NEW days PROVE Used(q, days) <= Used(p, days) /\ Used(q, days) \in Nat /\ Used(p, days) \in Nat
  <2> HIDE DEF p, q
  <2>1. \A j \in DOMAIN q : /\ q[j].amount = p[j].amount /\ q[j].day = p[j].day
                            /\ p[j].cashin = "failed" => q[j].cashin = "failed"
    BY <1>3
  <2>2. DOMAIN q \subseteq DOMAIN p /\ days \in SUBSET days
    BY <1>3
  <2> QED
    BY <1>3, <2>1, <2>2, UsedFalls, UsedIsNat
<1>5. txns[i].limits \in Tiers /\ txns[i].limits.daily \in Nat /\ txns[i].limits.monthly \in Nat
  <2>1. txns[i] \in Transaction
    OBVIOUS
  <2> QED
    BY <2>1, TiersAssumption DEF Transaction
<1>6. /\ Used(p, {txns[i].day}) <= txns[i].limits.daily
      /\ Used(p, SameMonth(txns[i].day)) <= txns[i].limits.monthly
  BY <1>2 DEF Fits
<1>7. /\ Used(q, {txns[i].day}) <= txns[i].limits.daily
      /\ Used(q, SameMonth(txns[i].day)) <= txns[i].limits.monthly
  <2> HIDE DEF p, q
  <2> QED
    BY <1>4, <1>5, <1>6
<1> QED
  BY <1>2, <1>7 DEF Fits

\* A step that only relaxes, and leaves one payment and room for those allowed.
LEMMA AllowanceRelaxes ==
    ASSUME TypeOK, TypeOK', AllowanceInv, Relaxes, OnePays',
           \A t \in Tabs : Room(tab'[t]),
           \A t \in Tabs : tab'[t].stage = "allowed" =>
               tab'[t].amount \in Nat /\ tab'[t].limits \in Tiers
    PROVE  AllowanceInv'
<1>1. ASSUME NEW i \in DOMAIN sends' PROVE Fits(sends', i)
  <2>1. sends \in Seq(Transaction) /\ sends' \in Seq(Transaction) /\ i \in DOMAIN sends
    BY DEF TypeOK, Relaxes
  <2>2. \A j \in 1 .. i : j \in DOMAIN sends
    BY <2>1
  <2>3. Fits(sends, i)
    BY <2>1, FitsEach DEF AllowanceInv
  <2> QED
    BY <2>1, <2>2, <2>3, FitsFalls DEF Relaxes
<1>2. FitsAllowance'
  BY <1>1, FitsEach
<1>3. ASSUME NEW t \in Tabs, tab'[t].stage = "allowed"
      PROVE  /\ DailyUsage' + tab'[t].amount <= tab'[t].limits.daily
             /\ MonthlyUsage' + tab'[t].amount <= tab'[t].limits.monthly
  <2> DEFINE a == tab'[t].amount
             d == tab'[t].limits.daily
             m == tab'[t].limits.monthly
  <2>1. a \in Nat /\ d \in Nat /\ m \in Nat
    BY <1>3, TiersAssumption
  <2>2. DailyUsage + a <= d /\ MonthlyUsage + a <= m
    BY <1>3 DEF Room
  <2>3. DailyUsage \in Nat /\ MonthlyUsage \in Nat /\ DailyUsage' \in Nat /\ MonthlyUsage' \in Nat
    <3>1. DailyUsage' \in Nat /\ MonthlyUsage' \in Nat
      <4>1. sends' \in Seq(Transaction)
        BY DEF TypeOK
      <4>2. /\ DailyUsage' = Used(sends', {e \in Days : e >= day'})
            /\ MonthlyUsage' = Used(sends', {e \in Days : MonthOf[e] >= MonthOf[day']})
        BY DEF DailyUsage, MonthlyUsage, Used, Counted
      <4> QED
        BY <4>1, <4>2, UsedIsNat
    <3> QED
      BY <3>1, UsageType
  <2>4. DailyUsage' <= DailyUsage /\ MonthlyUsage' <= MonthlyUsage
    BY UsageFalls
  <2>5. \A u, v, x, y \in Nat : u + x <= y /\ v <= u => v + x <= y
    OBVIOUS
  <2> QED
    BY <2>1, <2>2, <2>3, <2>4, <2>5
<1>4. \A t \in Tabs : Room(tab[t])'
  BY <1>3 DEF Room
<1> QED
  BY <1>2, <1>4 DEF AllowanceInv

\* Request t becomes r; nothing else of the allowance moves.
LEMMA RequestFits ==
    ASSUME PriceInv, PriceInv', AllowanceInv, NEW t \in Tabs, NEW r, Become(t, r),
           Pays(r) => \A u \in Tabs \ {t} : ~Pays(tab[u]),
           Room(r), UNCHANGED <<sends, day>>
    PROVE  AllowanceInv'
<1>1. TypeOK /\ TypeOK' /\ SoundTabs' /\ OnePays /\ \A u \in Tabs : Room(tab[u])
  BY DEF PriceInv, AllowanceInv
<1>2. tab'[t] = r /\ \A u \in Tabs \ {t} : tab'[u] = tab[u]
  BY <1>1 DEF Become, TypeOK
<1>3. OnePays'
  BY <1>1, <1>2 DEF OnePays, Pays
<1>4. \A u \in Tabs : Room(tab'[u])
  BY <1>1, <1>2
<1>5. day \in Nat
  BY <1>1, DaysAssumption DEF TypeOK
<1>6. Relaxes
  BY <1>5 DEF Relaxes
<1>7. \A u \in Tabs : tab'[u].stage = "allowed" => tab'[u].amount \in Nat /\ tab'[u].limits \in Tiers
  BY <1>1, AmountsAssumption DEF SoundTabs, Sound
<1> QED
  BY <1>1, <1>3, <1>4, <1>6, <1>7, AllowanceRelaxes

\* The same of a request that pays nothing after the step.
LEMMA IdleFits ==
    ASSUME PriceInv, PriceInv', AllowanceInv, NEW t \in Tabs, NEW r, Become(t, r), ~Pays(r),
           UNCHANGED <<sends, day>>
    PROVE  AllowanceInv'
BY RequestFits DEF Pays, Room

LEMMA LoadFits ==
    ASSUME PriceInv, PriceInv', AllowanceInv, NEW t \in Tabs, LockAndLoad(t)
    PROVE  AllowanceInv'
<1> DEFINE r == [tab[t] EXCEPT !.stage = "loaded", !.read = beneficiary,
                               !.recipient = Recipient(beneficiary)]
<1>1. r.stage = "loaded"
  BY DEF PriceInv, TypeOK, Request
<1>2. Become(t, r) /\ UNCHANGED <<sends, day>> /\ Paying = {}
  BY DEF LockAndLoad
<1>3. \A u \in Tabs : ~Pays(tab[u])
  BY <1>2 DEF Paying, Pays
<1> HIDE DEF r
<1> QED
  BY <1>1, <1>2, <1>3, RequestFits DEF Room

LEMMA RepriceFits ==
    ASSUME PriceInv, PriceInv', AllowanceInv, NEW t \in Tabs, Reprice(t)
    PROVE  AllowanceInv'
<1> DEFINE r == [tab[t] EXCEPT !.stage = "priced", !.quote = Figures(config, tab[t].amount)]
<1>1. r.stage = "priced"
  BY DEF PriceInv, TypeOK, Request
<1>2. Become(t, r) /\ UNCHANGED <<sends, day>> /\ tab[t].stage = "loaded"
  BY DEF Reprice
<1>3. \A u \in Tabs \ {t} : ~Pays(tab[u])
  BY <1>2 DEF AllowanceInv, OnePays, Pays
<1> HIDE DEF r
<1> QED
  BY <1>1, <1>2, <1>3, RequestFits DEF Room

LEMMA CheckFits ==
    ASSUME PriceInv, PriceInv', AllowanceInv, NEW t \in Tabs, CheckLimit(t)
    PROVE  AllowanceInv'
<1> DEFINE r == [tab[t] EXCEPT !.stage = "allowed", !.limits = tier]
<1>1. r.stage = "allowed" /\ r.amount = tab[t].amount /\ r.limits = tier
  BY DEF PriceInv, TypeOK, Request
<1>2. /\ Become(t, r) /\ UNCHANGED <<sends, day>> /\ tab[t].stage = "priced"
      /\ WithinLimits(tab[t].amount)
  BY DEF CheckLimit
<1>3. \A u \in Tabs \ {t} : ~Pays(tab[u])
  BY <1>2 DEF AllowanceInv, OnePays, Pays
<1> HIDE DEF r
<1>4. Room(r)
  BY <1>1, <1>2 DEF Room, WithinLimits
<1> QED
  BY <1>2, <1>3, <1>4, RequestFits

\* The insert takes the room that was checked.
LEMMA InsertFits ==
    ASSUME PriceInv, PriceInv', AllowanceInv, NEW t \in Tabs, NEW cashin, Insert(t, cashin)
    PROVE  AllowanceInv'
<1> DEFINE n == Len(sends) + 1
           x == sends'[n]
<1>1. /\ sends \in Seq(Transaction) /\ sends' \in Seq(Transaction) /\ day \in Days
      /\ tab[t] \in Request /\ Sound(tab[t]) /\ OnePays /\ Room(tab[t])
  BY DEF PriceInv, TypeOK, SoundTabs, AllowanceInv
<1>2. /\ tab[t].stage = "allowed" /\ Become(t, Idle) /\ UNCHANGED day
      /\ sends' = Append(sends, [amount |-> tab[t].amount, day |-> day, cashin |-> cashin,
                                 recipient |-> tab[t].recipient, shown |-> tab[t].shown,
                                 quote |-> tab[t].quote, limits |-> tab[t].limits])
  BY DEF Insert
<1>3. /\ x.amount = tab[t].amount /\ x.day = day /\ x.limits = tab[t].limits
      /\ sends' = Append(sends, x) /\ n \in Nat /\ DOMAIN sends = 1 .. Len(sends)
      /\ DOMAIN sends' = DOMAIN sends \cup {n} /\ Len(sends) \in Nat
      /\ \A i \in DOMAIN sends : sends'[i] = sends[i]
  BY <1>1, <1>2
<1>4. x \in Transaction
  BY <1>1, <1>3
<1> HIDE DEF n, x
<1>5. \A u \in Tabs : ~Pays(tab'[u])
  <2>1. tab' = [tab EXCEPT ![t] = Idle] /\ tab \in [Tabs -> Request]
    BY <1>2 DEF Become, PriceInv, TypeOK
  <2>2. \A u \in Tabs \ {t} : ~Pays(tab[u])
    BY <1>1, <1>2 DEF OnePays, Pays
  <2> QED
    BY <2>1, <2>2 DEF Pays, Idle
<1>6. OnePays' /\ \A u \in Tabs : Room(tab[u])'
  BY <1>5 DEF OnePays, Pays, Room
<1>7. ASSUME NEW i \in DOMAIN sends PROVE Fits(sends', i)
  <2>1. Fits(sends, i) /\ i \in DOMAIN sends'
    BY <1>3, FitsEach DEF AllowanceInv
  <2>2. \A j \in 1 .. i : j \in DOMAIN sends
    BY <1>3
  <2> QED
    BY <1>1, <1>3, <2>1, <2>2, FitsFalls
<1>8. Fits(sends', n)
  <2>1. /\ x.amount \in Nat /\ x.limits.daily \in Nat /\ x.limits.monthly \in Nat
    BY <1>4, AmountsAssumption, TiersAssumption DEF Transaction
  <2>2. DailyUsage + x.amount <= x.limits.daily /\ MonthlyUsage + x.amount <= x.limits.monthly
    BY <1>1, <1>2, <1>3 DEF Room
  <2>3. DailyUsage \in Nat /\ MonthlyUsage \in Nat
    BY UsageType DEF PriceInv
  <2>4. ASSUME NEW days, NEW fewer \in SUBSET days
        PROVE  /\ Used(SubSeq(sends', 1, n), fewer) <= Used(sends, days) + x.amount
               /\ Used(SubSeq(sends', 1, n), fewer) \in Nat
    <3>1. n \in DOMAIN sends' /\ DOMAIN sends' = 1 .. n
      BY <1>3 DEF n
    <3>2. /\ SubSeq(sends', 1, n) \in Seq(Transaction) /\ DOMAIN SubSeq(sends', 1, n) = 1 .. n
          /\ \A j \in 1 .. n : SubSeq(sends', 1, n)[j] = sends'[j]
      BY <1>1, <3>1, Prefix
    <3>3. Used(SubSeq(sends', 1, n), fewer) <= Used(sends', days)
      BY <1>1, <3>1, <3>2, UsedFalls
    <3>4. Used(sends', days) <= Used(sends, days) + x.amount
      BY <1>1, <1>3, <1>4, UsedAppend
    <3>5. /\ Used(SubSeq(sends', 1, n), fewer) \in Nat /\ Used(sends', days) \in Nat
          /\ Used(sends, days) \in Nat
      BY <1>1, <3>2, UsedIsNat
    <3>6. \A u, v, w, a \in Nat : u <= v /\ v <= w + a => u <= w + a
      OBVIOUS
    <3> QED
      BY <2>1, <3>3, <3>4, <3>5, <3>6
  <2>5. {day} \in SUBSET {e \in Days : e >= day}
    BY <1>1, DaysAssumption
  <2>6. SameMonth(day) \in SUBSET {e \in Days : MonthOf[e] >= MonthOf[day]}
    BY <1>1, MonthAssumption DEF SameMonth
  <2>7. Used(SubSeq(sends', 1, n), {day}) <= DailyUsage + x.amount
    BY <2>4, <2>5 DEF DailyUsage
  <2>8. Used(SubSeq(sends', 1, n), SameMonth(day)) <= MonthlyUsage + x.amount
    BY <2>4, <2>6 DEF MonthlyUsage
  <2>9. Used(SubSeq(sends', 1, n), {day}) \in Nat /\ Used(SubSeq(sends', 1, n), SameMonth(day)) \in Nat
    BY <2>4
  <2>10. \A u, v, w, a \in Nat : u <= v + a /\ v + a <= w => u <= w
    OBVIOUS
  <2>11. /\ Used(SubSeq(sends', 1, n), {day}) <= x.limits.daily
         /\ Used(SubSeq(sends', 1, n), SameMonth(day)) <= x.limits.monthly
    BY <2>1, <2>2, <2>3, <2>7, <2>8, <2>9, <2>10
  <2> QED
    BY <1>3, <2>11 DEF Fits, x
<1>9. FitsAllowance'
  BY <1>3, <1>7, <1>8, FitsEach
<1> QED
  BY <1>6, <1>9 DEF AllowanceInv

\* A step of no request: cash-ins fail, days pass, and other tables move.
LEMMA OthersFit ==
    ASSUME PriceInv, PriceInv', AllowanceInv, UNCHANGED tab, Relaxes
    PROVE  AllowanceInv'
<1>1. TypeOK /\ TypeOK' /\ SoundTabs' /\ OnePays /\ \A u \in Tabs : Room(tab[u])
  BY DEF PriceInv, AllowanceInv
<1>2. OnePays' /\ \A u \in Tabs : Room(tab'[u])
  BY <1>1 DEF OnePays, Pays
<1>3. \A u \in Tabs : tab'[u].stage = "allowed" => tab'[u].amount \in Nat /\ tab'[u].limits \in Tiers
  BY <1>1, AmountsAssumption DEF SoundTabs, Sound
<1> QED
  BY <1>1, <1>2, <1>3, AllowanceRelaxes

LEMMA AllowanceStep ==
    ASSUME PriceInv, PriceInv', AllowanceInv, [Next]_vars
    PROVE  AllowanceInv'
<1>0. /\ \A j \in DOMAIN sends : sends[j] \in Transaction
      /\ day \in Nat /\ tab \in [Tabs -> Request]
  BY DaysAssumption DEF PriceInv, TypeOK
<1>1. ASSUME NEW t \in Tabs, Send(t) PROVE AllowanceInv'
  <2>1. ASSUME NEW zar \in Amounts, ShowQuote(t, zar) PROVE AllowanceInv'
    <3> DEFINE r == [Idle EXCEPT !.stage = "page", !.amount = zar, !.shown = Figures(config, zar)]
    <3>1. ~Pays(r)
      BY DEF Idle, Pays
    <3>2. Become(t, r) /\ UNCHANGED <<sends, day>>
      BY <2>1 DEF ShowQuote
    <3> HIDE DEF r
    <3> QED
      BY <3>1, <3>2, IdleFits
  <2>2. CASE LeavePage(t) \/ Refuse(t)
    <3>1. ~Pays(Idle) /\ Become(t, Idle) /\ UNCHANGED <<sends, day>>
      BY <2>2 DEF LeavePage, Refuse, Idle, Pays
    <3> QED
      BY <3>1, IdleFits
  <2> QED
    BY <1>1, <2>1, <2>2, LoadFits, RepriceFits, CheckFits, InsertFits DEF Send
<1>2. ASSUME NEW t \in Tabs, OpenEdit(t) PROVE AllowanceInv'
  <2> DEFINE r == [Idle EXCEPT !.stage = "editing", !.read = beneficiary]
  <2>1. ~Pays(r)
    BY DEF Idle, Pays
  <2>2. Become(t, r) /\ UNCHANGED <<sends, day>>
    BY <1>2 DEF OpenEdit
  <2> HIDE DEF r
  <2> QED
    BY <2>1, <2>2, IdleFits
<1>3. ASSUME NEW t \in Tabs, NEW c \in Contacts, SaveEdit(t, c) PROVE AllowanceInv'
  <2>1. ~Pays(Idle) /\ Become(t, Idle) /\ UNCHANGED <<sends, day>>
    BY <1>3 DEF SaveEdit, Idle, Pays
  <2> QED
    BY <2>1, IdleFits
<1>4. ASSUME UNCHANGED <<sends, tab>>, day' = day \/ NextDay PROVE AllowanceInv'
  <2>1. day <= day'
    BY <1>0, <1>4 DEF NextDay
  <2> QED
    BY <1>4, <2>1, OthersFit DEF Relaxes
<1>5. ASSUME \/ \E c \in Contacts : AddBeneficiary(c) \/ Register(c)
             \/ DeleteBeneficiary
             \/ \E c \in Configs : UpdateFees(c)
             \/ \E r \in Tiers : UpdateTierLimits(r)
             \/ NextDay
             \/ UNCHANGED vars
      PROVE  AllowanceInv'
  <2>1. UNCHANGED <<sends, tab>> /\ (day' = day \/ NextDay)
    BY <1>5 DEF AddBeneficiary, Register, DeleteBeneficiary, UpdateFees, UpdateTierLimits, NextDay, vars
  <2> QED
    BY <1>4, <2>1
<1>6. ASSUME NEW i \in DOMAIN sends, NEW cashin \in {"received", "failed"}, DecideCashin(i, cashin)
      PROVE  AllowanceInv'
  <2>1. /\ sends' = [sends EXCEPT ![i].cashin = cashin] /\ sends[i].cashin = "pending"
        /\ UNCHANGED <<day, tab>>
    BY <1>6 DEF DecideCashin
  <2>2. DOMAIN sends' = DOMAIN sends
        /\ \A j \in DOMAIN sends :
              sends'[j] = IF j = i THEN [sends[i] EXCEPT !.cashin = cashin] ELSE sends[j]
    BY <2>1 DEF PriceInv, TypeOK
  <2>3. \A j \in DOMAIN sends :
           /\ sends'[j].amount = sends[j].amount /\ sends'[j].day = sends[j].day
           /\ sends'[j].limits = sends[j].limits
           /\ sends[j].cashin = "failed" => sends'[j].cashin = "failed"
    BY <1>0, <2>1, <2>2 DEF Transaction
  <2> QED
    BY <1>0, <2>1, <2>2, <2>3, OthersFit DEF Relaxes
<1>7. ASSUME NEW d \in Days, ExpireBefore(d) PROVE AllowanceInv'
  <2>1. /\ sends' = [i \in DOMAIN sends |->
                        IF sends[i].cashin = "pending" /\ sends[i].day < d
                        THEN [sends[i] EXCEPT !.cashin = "failed"] ELSE sends[i]]
        /\ UNCHANGED <<day, tab>>
    BY <1>7 DEF ExpireBefore
  <2>2. ASSUME NEW j \in DOMAIN sends
        PROVE  /\ sends'[j].amount = sends[j].amount /\ sends'[j].day = sends[j].day
               /\ sends'[j].limits = sends[j].limits
               /\ sends[j].cashin = "failed" => sends'[j].cashin = "failed"
    <3>1. sends'[j] \in {sends[j], [sends[j] EXCEPT !.cashin = "failed"]}
      BY <2>1
    <3> QED
      BY <1>0, <3>1 DEF Transaction
  <2> QED
    BY <1>0, <2>1, <2>2, OthersFit DEF Relaxes
<1> QED
  BY <1>1, <1>2, <1>3, <1>5, <1>6, <1>7 DEF Next

LEMMA AllowanceInit == Init => AllowanceInv
BY DEF Init, AllowanceInv, OnePays, Pays, Room, Idle, FitsAllowance

\* However many tabs pay at once, and whatever expires, fails or passes midnight between
\* check_limit and the insert, what a day or a month has booked up to any send fits the
\* limits that send was checked against: create_remittance holds the sender's row.
THEOREM SendsFitAllowance == Spec => []FitsAllowance
<1>1. AllowanceInv => FitsAllowance
  BY DEF AllowanceInv
<1>2. PriceInv /\ AllowanceInv /\ [Next]_vars => AllowanceInv'
  BY PriceStep, AllowanceStep
<1> QED
  BY <1>1, <1>2, PriceInit, PriceStep, AllowanceInit, PTL DEF Spec

-----------------------------------------------------------------------------
(* The link, when no edit overlaps a request that read the beneficiary.    *)

\* A request that has read the beneficiary.
Handles(r) == r.stage \in {"loaded", "priced", "allowed", "editing"}

\* What it read is what the row still reads, and its recipient is what that gives.
Current(r, b) ==
    Handles(r) =>
        /\ r.read.contact = b.contact /\ r.read.link = b.link /\ b.contact \in Contacts
        /\ r.stage # "editing" =>
              r.recipient = IF r.read.link # None THEN r.read.link ELSE r.read.contact

Alone == \A t, u \in Tabs : Handles(tab[t]) /\ Handles(tab[u]) => t = u

LinkInv ==
    /\ LinkFollowsContact
    /\ beneficiary = Absent \/ beneficiary.contact \in Contacts
    /\ Alone
    /\ \A t \in Tabs : Current(tab[t], beneficiary)

LEMMA NobodyHandles == \A t \in Tabs : Handles(tab[t]) => t \in Paying \cup Editing
BY DEF Handles, Paying, Editing

LEMMA LinkInit == Init => LinkInv
BY DEF Init, LinkInv, LinkFollowsContact, Absent, Alone, Idle, Handles, Current

\* Request t becomes r, and the beneficiary's row reads b for all that matters here.
LEMMA RequestLinks ==
    ASSUME TypeOK, LinkInv, NEW t \in Tabs, NEW r, Become(t, r),
           LinkFollowsContact', beneficiary' = Absent \/ beneficiary'.contact \in Contacts,
           Handles(r) => \A u \in Tabs \ {t} : ~Handles(tab[u]),
           Current(r, beneficiary'),
           \A u \in Tabs \ {t} : Handles(tab[u]) =>
               beneficiary'.contact = beneficiary.contact /\ beneficiary'.link = beneficiary.link
    PROVE  LinkInv'
<1>1. tab'[t] = r /\ \A u \in Tabs \ {t} : tab'[u] = tab[u]
  BY DEF Become, TypeOK
<1>2. Alone'
  BY <1>1 DEF LinkInv, Alone, Handles
<1>3. ASSUME NEW u \in Tabs PROVE Current(tab'[u], beneficiary')
  BY <1>1 DEF LinkInv, Current
<1>4. \A u \in Tabs : Current(tab[u], beneficiary)'
  BY <1>3 DEF Current, Handles
<1> QED
  BY <1>2, <1>4 DEF LinkInv

\* The same when the beneficiary's row is not touched.
LEMMA RequestKeepsLink ==
    ASSUME TypeOK, LinkInv, NEW t \in Tabs, NEW r, Become(t, r), UNCHANGED beneficiary,
           Handles(r) => \A u \in Tabs \ {t} : ~Handles(tab[u]),
           Current(r, beneficiary)
    PROVE  LinkInv'
<1>1. LinkFollowsContact' /\ (beneficiary' = Absent \/ beneficiary'.contact \in Contacts)
  BY DEF LinkInv, LinkFollowsContact
<1>2. Current(r, beneficiary')
  OBVIOUS
<1> QED
  BY <1>1, <1>2, RequestLinks

\* A request ends, or was never one that had read the row.
LEMMA IdleLinks ==
    ASSUME TypeOK, LinkInv, NEW t \in Tabs, NEW r, Become(t, r), ~Handles(r), UNCHANGED beneficiary
    PROVE  LinkInv'
BY RequestKeepsLink DEF Current

LEMMA LoadLinks ==
    ASSUME Overlap = FALSE, TypeOK, LinkInv, NEW t \in Tabs, LockAndLoad(t)
    PROVE  LinkInv'
<1> DEFINE r == [tab[t] EXCEPT !.stage = "loaded", !.read = beneficiary,
                               !.recipient = Recipient(beneficiary)]
<1>1. tab[t] \in Request /\ beneficiary \in BeneficiaryRow
  BY DEF TypeOK
<1>2. /\ r.stage = "loaded" /\ r.read = beneficiary /\ r.recipient = Recipient(beneficiary)
  BY <1>1 DEF Request
<1>3. /\ Become(t, r) /\ UNCHANGED beneficiary /\ Paying = {} /\ Editing = {}
      /\ beneficiary.active /\ Recipient(beneficiary) # None
  BY DEF LockAndLoad
<1> HIDE DEF r
<1>4. \A u \in Tabs : ~Handles(tab[u])
  BY <1>3, NobodyHandles
<1>5. beneficiary.contact \in Contacts
  BY <1>3 DEF LinkInv, Absent
<1>6. Current(r, beneficiary)
  BY <1>2, <1>3, <1>5 DEF Current, Recipient, Resolve
<1> QED
  BY <1>3, <1>4, <1>6, RequestKeepsLink

LEMMA OnwardLinks ==
    ASSUME TypeOK, LinkInv, NEW t \in Tabs, Reprice(t) \/ CheckLimit(t)
    PROVE  LinkInv'
<1>1. PICK r : /\ Become(t, r) /\ r.stage \in {"priced", "allowed"} /\ r.read = tab[t].read
               /\ r.recipient = tab[t].recipient
  <2>1. tab[t] \in Request
    BY DEF TypeOK
  <2>2. CASE Reprice(t)
    <3> DEFINE r == [tab[t] EXCEPT !.stage = "priced", !.quote = Figures(config, tab[t].amount)]
    <3>1. r.stage = "priced" /\ r.read = tab[t].read /\ r.recipient = tab[t].recipient
      BY <2>1 DEF Request
    <3>2. Become(t, r)
      BY <2>2 DEF Reprice
    <3> QED
      BY <3>1, <3>2
  <2>3. CASE CheckLimit(t)
    <3> DEFINE r == [tab[t] EXCEPT !.stage = "allowed", !.limits = tier]
    <3>1. r.stage = "allowed" /\ r.read = tab[t].read /\ r.recipient = tab[t].recipient
      BY <2>1 DEF Request
    <3>2. Become(t, r)
      BY <2>3 DEF CheckLimit
    <3> QED
      BY <3>1, <3>2
  <2> QED
    BY <2>2, <2>3
<1>2. tab[t].stage \in {"loaded", "priced"} /\ UNCHANGED beneficiary
  BY DEF Reprice, CheckLimit
<1>3. \A u \in Tabs \ {t} : ~Handles(tab[u])
  BY <1>2 DEF LinkInv, Alone, Handles
<1>4. Current(r, beneficiary)
  BY <1>1, <1>2 DEF LinkInv, Current, Handles
<1> QED
  BY <1>1, <1>2, <1>3, <1>4, RequestKeepsLink

LEMMA IdleHandlesNothing == ~Handles(Idle) /\ \A b : Current(Idle, b)
BY DEF Idle, Handles, Current

LEMMA InsertLinks ==
    ASSUME TypeOK, LinkInv, NEW t \in Tabs, NEW cashin, Insert(t, cashin)
    PROVE  LinkInv'
<1>1. /\ tab[t].stage = "allowed" /\ Become(t, Idle)
      /\ beneficiary' = IF tab[t].read.link = None
                        THEN [beneficiary EXCEPT !.link = tab[t].recipient] ELSE beneficiary
      /\ beneficiary \in BeneficiaryRow
  BY DEF Insert, TypeOK
<1>2. Current(tab[t], beneficiary) /\ Handles(tab[t])
  BY <1>1 DEF LinkInv, Handles
<1>3. \A u \in Tabs \ {t} : ~Handles(tab[u])
  BY <1>2 DEF LinkInv, Alone
<1>4. CASE tab[t].read.link = None
  <2>1. tab[t].recipient = beneficiary.contact /\ beneficiary.contact \in Contacts
    BY <1>1, <1>2, <1>4 DEF Current
  <2>2. beneficiary'.contact = beneficiary.contact /\ beneficiary'.link = beneficiary.contact
    BY <1>1, <1>4, <2>1 DEF BeneficiaryRow
  <2>3. LinkFollowsContact' /\ beneficiary'.contact \in Contacts
    BY <2>1, <2>2 DEF LinkFollowsContact
  <2> QED
    BY <1>1, <1>3, <2>3, IdleHandlesNothing, RequestLinks
<1>5. CASE tab[t].read.link # None
  BY <1>1, <1>5, IdleHandlesNothing, IdleLinks
<1> QED
  BY <1>4, <1>5

LEMMA OpenEditLinks ==
    ASSUME Overlap = FALSE, TypeOK, LinkInv, NEW t \in Tabs, OpenEdit(t)
    PROVE  LinkInv'
<1> DEFINE r == [Idle EXCEPT !.stage = "editing", !.read = beneficiary]
<1>1. r.stage = "editing" /\ r.read = beneficiary
  BY DEF Idle
<1>2. /\ Become(t, r) /\ UNCHANGED beneficiary /\ beneficiary.active
      /\ \A u \in Tabs : ~Handles(tab[u])
  BY NobodyHandles DEF OpenEdit
<1> HIDE DEF r
<1>3. beneficiary.contact \in Contacts
  BY <1>2 DEF LinkInv, Absent
<1>4. Current(r, beneficiary)
  BY <1>1, <1>3 DEF Current
<1> QED
  BY <1>2, <1>4, RequestKeepsLink

LEMMA SaveEditLinks ==
    ASSUME TypeOK, LinkInv, NEW t \in Tabs, NEW c \in Contacts, SaveEdit(t, c)
    PROVE  LinkInv'
<1>1. tab[t].stage = "editing" /\ Become(t, Idle) /\ beneficiary \in BeneficiaryRow
  BY DEF SaveEdit, TypeOK
<1>2. Current(tab[t], beneficiary) /\ Handles(tab[t])
  BY <1>1 DEF LinkInv, Handles
<1>3. \A u \in Tabs \ {t} : ~Handles(tab[u])
  BY <1>2 DEF LinkInv, Alone
<1>4. beneficiary'.contact = c /\ beneficiary'.link = Resolve(c)
  <2>1. tab[t].read.contact = beneficiary.contact /\ tab[t].read.link = beneficiary.link
    BY <1>2 DEF Current
  <2> QED
    BY <1>1, <2>1 DEF SaveEdit, BeneficiaryRow
<1>5. LinkFollowsContact' /\ beneficiary'.contact \in Contacts
  BY <1>4 DEF LinkFollowsContact, Resolve
<1> QED
  BY <1>1, <1>3, <1>5, IdleHandlesNothing, RequestLinks

\* A step of no request: the row is created, deleted or left alone.
LEMMA OtherLinks ==
    ASSUME TypeOK, LinkInv, UNCHANGED tab, LinkFollowsContact',
           beneficiary' = Absent \/ beneficiary'.contact \in Contacts,
           \A t \in Tabs : Handles(tab[t]) =>
              beneficiary'.contact = beneficiary.contact /\ beneficiary'.link = beneficiary.link
    PROVE  LinkInv'
BY DEF LinkInv, Alone, Current, Handles

LEMMA LinkStep ==
    ASSUME Overlap = FALSE, TypeOK, LinkInv, [Next]_vars
    PROVE  LinkInv'
<1>1. ASSUME NEW t \in Tabs, Send(t) PROVE LinkInv'
  <2>1. ASSUME NEW zar \in Amounts, ShowQuote(t, zar) PROVE LinkInv'
    <3> DEFINE r == [Idle EXCEPT !.stage = "page", !.amount = zar, !.shown = Figures(config, zar)]
    <3>1. ~Handles(r)
      BY DEF Idle, Handles
    <3>2. Become(t, r) /\ UNCHANGED beneficiary
      BY <2>1 DEF ShowQuote
    <3> HIDE DEF r
    <3> QED
      BY <3>1, <3>2, IdleLinks
  <2>2. CASE LeavePage(t) \/ Refuse(t)
    BY <2>2, IdleHandlesNothing, IdleLinks DEF LeavePage, Refuse
  <2> QED
    BY <1>1, <2>1, <2>2, LoadLinks, OnwardLinks, InsertLinks DEF Send
<1>2. ASSUME UNCHANGED <<tab, beneficiary>> PROVE LinkInv'
  BY <1>2, OtherLinks DEF LinkInv, LinkFollowsContact
<1>3. ASSUME NEW c \in Contacts, AddBeneficiary(c) PROVE LinkInv'
  <2>1. beneficiary'.contact = c /\ beneficiary'.link = Resolve(c) /\ UNCHANGED tab
    BY <1>3 DEF AddBeneficiary
  <2>2. \A t \in Tabs : ~Handles(tab[t])
    BY <1>3, NoneAssumption DEF AddBeneficiary, LinkInv, Current, Absent
  <2>3. LinkFollowsContact'
    BY <2>1 DEF LinkFollowsContact, Resolve
  <2> QED
    BY <2>1, <2>2, <2>3, OtherLinks
<1>4. CASE DeleteBeneficiary
  <2>1. /\ beneficiary'.contact = beneficiary.contact /\ beneficiary'.link = beneficiary.link
        /\ beneficiary.active /\ UNCHANGED tab
    BY <1>4 DEF DeleteBeneficiary, TypeOK, BeneficiaryRow
  <2>2. beneficiary'.contact \in Contacts
    BY <2>1 DEF LinkInv, Absent
  <2>3. LinkFollowsContact'
    BY <2>1 DEF LinkInv, LinkFollowsContact
  <2> QED
    BY <2>1, <2>2, <2>3, OtherLinks
<1>5. ASSUME \/ \E c \in Contacts : Register(c)
             \/ \E i \in DOMAIN sends, cashin \in {"received", "failed"} : DecideCashin(i, cashin)
             \/ \E d \in Days : ExpireBefore(d)
             \/ \E c \in Configs : UpdateFees(c)
             \/ \E r \in Tiers : UpdateTierLimits(r)
             \/ NextDay
             \/ UNCHANGED vars
      PROVE  LinkInv'
  <2>1. UNCHANGED <<tab, beneficiary>>
    BY <1>5 DEF Register, DecideCashin, ExpireBefore, UpdateFees, UpdateTierLimits, NextDay, vars
  <2> QED
    BY <1>2, <2>1
<1> QED
  BY <1>1, <1>3, <1>4, <1>5, OpenEditLinks, SaveEditLinks DEF Next

\* While no edit overlaps another request that has read the beneficiary, its link is
\* the account of the contact it shows (refresh_recipient_link, update_beneficiary).
THEOREM PaymentsFollowContact == ASSUME Overlap = FALSE PROVE Spec => []LinkFollowsContact
<1>1. TypeOK /\ LinkInv /\ [Next]_vars => LinkInv'
  BY LinkStep
<1>2. LinkInv => LinkFollowsContact
  BY DEF LinkInv
<1> QED
  BY <1>1, <1>2, LinkInit, TypeCorrect, PTL DEF Spec

=============================================================================
