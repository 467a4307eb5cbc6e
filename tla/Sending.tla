-------------------------------- MODULE Sending --------------------------------
(***************************************************************************)
(* One approved sender paying one beneficiary from several browser tabs:   *)
(* the quote page, and POST /remittances (create_remittance) step by step, *)
(* while administrators move the limits and the fees, days pass, cash-ins  *)
(* are confirmed or fail, and the beneficiary is edited or registers.      *)
(*                                                                         *)
(* A payment locks the sender's row until it commits, so payments of one   *)
(* sender run one after the other; nothing else takes that lock.  The      *)
(* beneficiary is read without a lock, and the ORM writes only the columns *)
(* that differ from what the session read.                                 *)
(*                                                                         *)
(* A contact (email or mobile) stands for the account registered with it.  *)
(***************************************************************************)
EXTENDS FxQuote, Sequences, FiniteSets, FiniteSetsExt

CONSTANTS
    Tabs,        \* concurrent requests of the sender
    Contacts,    \* values of a beneficiary's email or mobile
    None,        \* SQL NULL
    Amounts,     \* amounts the sender tries
    Configs,     \* fee configurations an administrator saves
    Tiers,       \* limits of the standard tier an administrator saves
    Days,        \* days that pass: 0 .. some last day
    MonthOf,     \* day |-> its month
    MaxSends,    \* bound on the transactions of the sender
    Overlap      \* may the beneficiary be edited while a request that read it runs

ASSUME ConfigsAssumption == \A c \in Configs : LegalConfig(c)
\* update_tier_limits refuses a daily limit above the monthly one.
ASSUME TiersAssumption   == Tiers \subseteq [daily : Nat, monthly : Nat] /\ \A r \in Tiers : r.daily <= r.monthly
ASSUME AmountsAssumption == Amounts \subseteq Nat \ {0}
ASSUME NoneAssumption    == None \notin Contacts
ASSUME DaysAssumption    == 0 \in Days /\ Days \subseteq Nat
\* No month starts before an earlier one.
ASSUME MonthAssumption   ==
    \A d \in Days : MonthOf[d] \in Nat /\ \A e \in Days : d <= e => MonthOf[d] <= MonthOf[e]

VARIABLES
    config,      \* the active fee_config row
    tier,        \* the limit_tiers row of an approved sender
    day,         \* today in DISPLAY_TIMEZONE
    registered,  \* contacts that belong to an account
    beneficiary, \* the beneficiaries row
    sends,       \* the sender's transactions, oldest first
    tab          \* tab |-> its page or request, and what its session holds

vars == <<config, tier, day, registered, beneficiary, sends, tab>>

MaybeContact == Contacts \cup {None}
BeneficiaryRow == [contact : MaybeContact, link : MaybeContact, active : BOOLEAN]
AllFigures == [rate : Nat, fee : Nat, uctusd : Int, market : Nat, margin : Nat]
NoFigures == [rate |-> 0, fee |-> 0, uctusd |-> 0, market |-> 0, margin |-> 0]
NoLimits  == [daily |-> 0, monthly |-> 0]
Absent == [contact |-> None, link |-> None, active |-> FALSE]

Stages == {"idle", "page", "loaded", "priced", "allowed", "editing"}
Request == [stage : Stages, amount : Amounts \cup {0}, shown : AllFigures, quote : AllFigures,
            read : BeneficiaryRow, recipient : MaybeContact, limits : Tiers \cup {NoLimits}]
Idle == [stage |-> "idle", amount |-> 0, shown |-> NoFigures, quote |-> NoFigures,
         read |-> Absent, recipient |-> None, limits |-> NoLimits]
Transaction == [amount : Amounts, day : Days, cashin : {"pending", "received", "failed"},
                recipient : Contacts, shown : AllFigures, quote : AllFigures, limits : Tiers]

TypeOK ==
    /\ config \in Configs
    /\ tier \in Tiers
    /\ day \in Days
    /\ registered \in SUBSET Contacts
    /\ beneficiary \in BeneficiaryRow
    /\ sends \in Seq(Transaction)
    /\ tab \in [Tabs -> Request]

Init ==
    /\ config \in Configs
    /\ tier \in Tiers
    /\ day = 0
    /\ registered = {}
    /\ beneficiary = Absent
    /\ sends = <<>>
    /\ tab = [t \in Tabs |-> Idle]

-----------------------------------------------------------------------------
(* Helpers.                                                                *)

\* _resolve_recipient.
Resolve(c) == IF c \in registered THEN c ELSE None

\* find_recipient_user_id: the stored link, or the account that matches now.
Recipient(b) == IF b.link # None THEN b.link ELSE Resolve(b.contact)

\* The payment that holds the sender's row.
Paying == {t \in Tabs : tab[t].stage \in {"loaded", "priced", "allowed"}}

\* A payment of an unlinked beneficiary has flushed its link and holds the row.
RowLocked == \E t \in Paying : tab[t].stage # "loaded" /\ tab[t].read.link = None

Editing == {t \in Tabs : tab[t].stage = "editing"}

\* _sum_zar_since over the transactions txns created on the given days.
Counted(txns, days) == {i \in DOMAIN txns : txns[i].cashin # "failed" /\ txns[i].day \in days}
Used(txns, days) == SumFunctionOnSet([i \in DOMAIN txns |-> txns[i].amount], Counted(txns, days))
SameMonth(d) == {e \in Days : MonthOf[e] = MonthOf[d]}

\* The windows have a start and no end: nothing is created after today.
DailyUsage   == Used(sends, {e \in Days : e >= day})
MonthlyUsage == Used(sends, {e \in Days : MonthOf[e] >= MonthOf[day]})

\* check_limit.
WithinLimits(zar) ==
    /\ DailyUsage + zar <= tier.daily
    /\ MonthlyUsage + zar <= tier.monthly

Become(t, request) == tab' = [tab EXCEPT ![t] = request]

-----------------------------------------------------------------------------
(* A send.                                                                 *)

\* _quote_context for the pay page: the price, the limits and the recipient are
\* all in order, and the page shows the price.
ShowQuote(t, zar) ==
    /\ tab[t].stage = "idle"
    /\ beneficiary.active
    /\ Quotable(config, zar)
    /\ WithinLimits(zar)
    /\ Recipient(beneficiary) # None
    /\ Become(t, [Idle EXCEPT !.stage = "page", !.amount = zar, !.shown = Figures(config, zar)])
    /\ UNCHANGED <<config, tier, day, registered, beneficiary, sends>>

\* The sender leaves the page.
LeavePage(t) ==
    /\ tab[t].stage = "page"
    /\ Become(t, Idle)
    /\ UNCHANGED <<config, tier, day, registered, beneficiary, sends>>

\* Mutant of LockAndLoad: the sender's row is not locked.
LoadUnlocked(t) ==
    /\ tab[t].stage = "page"
    /\ Overlap \/ Editing = {}
    /\ beneficiary.active
    /\ Recipient(beneficiary) # None
    /\ Become(t, [tab[t] EXCEPT !.stage = "loaded", !.read = beneficiary,
                                !.recipient = Recipient(beneficiary)])
    /\ UNCHANGED <<config, tier, day, registered, beneficiary, sends>>

\* create_remittance: the sender's row is locked, the beneficiary read and its
\* recipient found (refresh_recipient_link).
LockAndLoad(t) ==
    /\ tab[t].stage = "page"
    /\ Paying = {}
    /\ Overlap \/ Editing = {}
    /\ beneficiary.active
    /\ Recipient(beneficiary) # None
    /\ Become(t, [tab[t] EXCEPT !.stage = "loaded", !.read = beneficiary,
                                !.recipient = Recipient(beneficiary)])
    /\ UNCHANGED <<config, tier, day, registered, beneficiary, sends>>

\* Mutant of PricingMatches: only the rate is compared.
RateMatches(quote, accepted) == quote.rate = accepted.rate

\* _pricing_matches: the three figures that the form posts (AcceptedQuote), and
\* neither the market rate nor the margin behind the rate.
PricingMatches(quote, accepted) ==
    /\ quote.rate = accepted.rate
    /\ quote.fee = accepted.fee
    /\ quote.uctusd = accepted.uctusd

\* The fresh quote exists and is the one the sender accepted.
QuotedAsShown(t) ==
    /\ Quotable(config, tab[t].amount)
    /\ PricingMatches(Figures(config, tab[t].amount), tab[t].shown)

\* quote_for prices the send again.  Its first SELECT flushes a new link, which
\* locks the beneficiary's row.
Reprice(t) ==
    /\ tab[t].stage = "loaded"
    /\ tab[t].read.link = None => ~RowLocked
    /\ QuotedAsShown(t)
    /\ Become(t, [tab[t] EXCEPT !.stage = "priced", !.quote = Figures(config, tab[t].amount)])
    /\ UNCHANGED <<config, tier, day, registered, beneficiary, sends>>

\* check_limit, in the transaction that will insert the row.
CheckLimit(t) ==
    /\ tab[t].stage = "priced"
    /\ WithinLimits(tab[t].amount)
    /\ Become(t, [tab[t] EXCEPT !.stage = "allowed", !.limits = tier])
    /\ UNCHANGED <<config, tier, day, registered, beneficiary, sends>>

\* The row, and with it the link found for an unlinked beneficiary; a test card
\* that is declined books a failed cash-in.
Insert(t, cashin) ==
    LET r == tab[t] IN
    /\ r.stage = "allowed"
    /\ Len(sends) < MaxSends
    /\ cashin \in {"pending", "failed"}
    /\ sends' = Append(sends, [amount |-> r.amount, day |-> day, cashin |-> cashin,
                               recipient |-> r.recipient, shown |-> r.shown,
                               quote |-> r.quote, limits |-> r.limits])
    /\ beneficiary' = IF r.read.link = None THEN [beneficiary EXCEPT !.link = r.recipient]
                                            ELSE beneficiary
    /\ Become(t, Idle)
    /\ UNCHANGED <<config, tier, day, registered>>

\* RemittanceError at any of the checks; the session is rolled back.
Refuse(t) ==
    /\ \/ tab[t].stage = "page" /\ (~beneficiary.active \/ Recipient(beneficiary) = None)
       \/ tab[t].stage = "loaded" /\ ~QuotedAsShown(t)
       \/ tab[t].stage = "priced" /\ ~WithinLimits(tab[t].amount)
       \/ tab[t].stage = "allowed"   \* the card is not valid
    /\ Become(t, Idle)
    /\ UNCHANGED <<config, tier, day, registered, beneficiary, sends>>

-----------------------------------------------------------------------------
(* The beneficiary.                                                        *)

AddBeneficiary(c) ==
    /\ beneficiary = Absent
    /\ beneficiary' = [contact |-> c, link |-> Resolve(c), active |-> TRUE]
    /\ UNCHANGED <<config, tier, day, registered, sends, tab>>

\* edit_save loads the row ...
OpenEdit(t) ==
    /\ tab[t].stage = "idle"
    /\ beneficiary.active
    /\ Overlap \/ Paying \cup Editing = {}
    /\ Become(t, [Idle EXCEPT !.stage = "editing", !.read = beneficiary])
    /\ UNCHANGED <<config, tier, day, registered, beneficiary, sends>>

\* Mutant of SaveEdit: the new contact is not resolved again.
SaveContactOnly(t, c) ==
    /\ tab[t].stage = "editing"
    /\ ~RowLocked
    /\ beneficiary' = [beneficiary EXCEPT !.contact = c]
    /\ Become(t, Idle)
    /\ UNCHANGED <<config, tier, day, registered, sends>>

\* ... and update_beneficiary writes the columns that differ from what it read:
\* the contact, and the link the new contact resolves to.
SaveEdit(t, c) ==
    LET read == tab[t].read IN
    /\ tab[t].stage = "editing"
    /\ ~RowLocked
    /\ beneficiary' =
        [beneficiary EXCEPT !.contact = IF c = read.contact THEN @ ELSE c,
                            !.link = IF Resolve(c) = read.link THEN @ ELSE Resolve(c)]
    /\ Become(t, Idle)
    /\ UNCHANGED <<config, tier, day, registered, sends>>

DeleteBeneficiary ==
    /\ beneficiary.active
    /\ ~RowLocked
    /\ beneficiary' = [beneficiary EXCEPT !.active = FALSE]
    /\ UNCHANGED <<config, tier, day, registered, sends, tab>>

\* The recipient creates an account with this contact.
Register(c) ==
    /\ c \notin registered
    /\ registered' = registered \cup {c}
    /\ UNCHANGED <<config, tier, day, beneficiary, sends, tab>>

-----------------------------------------------------------------------------
(* Administrators, sweeps and time.                                        *)

\* mark_cashin_received and mark_cashin_failed.
DecideCashin(i, cashin) ==
    /\ sends[i].cashin = "pending"
    /\ cashin \in {"received", "failed"}
    /\ sends' = [sends EXCEPT ![i].cashin = cashin]
    /\ UNCHANGED <<config, tier, day, registered, beneficiary, tab>>

\* Mutant of ExpireBefore: a status of its own.
ExpireAsStatus(d) ==
    /\ d <= day
    /\ \E i \in DOMAIN sends : sends[i].cashin = "pending" /\ sends[i].day < d
    /\ sends' = [i \in DOMAIN sends |->
                    IF sends[i].cashin = "pending" /\ sends[i].day < d
                    THEN [sends[i] EXCEPT !.cashin = "expired"] ELSE sends[i]]
    /\ UNCHANGED <<config, tier, day, registered, beneficiary, tab>>

\* expire_stale_cashins fails everything still pending from before a day.
ExpireBefore(d) ==
    /\ d <= day
    /\ \E i \in DOMAIN sends : sends[i].cashin = "pending" /\ sends[i].day < d
    /\ sends' = [i \in DOMAIN sends |->
                    IF sends[i].cashin = "pending" /\ sends[i].day < d
                    THEN [sends[i] EXCEPT !.cashin = "failed"] ELSE sends[i]]
    /\ UNCHANGED <<config, tier, day, registered, beneficiary, tab>>

\* update_fees: later quotes only.
UpdateFees(c) ==
    /\ config' = c
    /\ UNCHANGED <<tier, day, registered, beneficiary, sends, tab>>

UpdateTierLimits(r) ==
    /\ tier' = r
    /\ UNCHANGED <<config, day, registered, beneficiary, sends, tab>>

NextDay ==
    /\ day + 1 \in Days
    /\ day' = day + 1
    /\ UNCHANGED <<config, tier, registered, beneficiary, sends, tab>>

Send(t) ==
    \/ \E zar \in Amounts : ShowQuote(t, zar)
    \/ LeavePage(t) \/ LockAndLoad(t) \/ Reprice(t) \/ CheckLimit(t) \/ Refuse(t)
    \/ \E cashin \in {"pending", "failed"} : Insert(t, cashin)

Next ==
    \/ \E t \in Tabs : Send(t) \/ OpenEdit(t)
    \/ \E t \in Tabs, c \in Contacts : SaveEdit(t, c)
    \/ \E c \in Contacts : AddBeneficiary(c) \/ Register(c)
    \/ DeleteBeneficiary
    \/ \E i \in DOMAIN sends, cashin \in {"received", "failed"} : DecideCashin(i, cashin)
    \/ \E d \in Days : ExpireBefore(d)
    \/ \E c \in Configs : UpdateFees(c)
    \/ \E r \in Tiers : UpdateTierLimits(r)
    \/ NextDay

Spec == Init /\ [][Next]_vars

-----------------------------------------------------------------------------
(* Properties.                                                             *)

\* The sends of a day and of a month, up to and including any one of them, fit
\* the limits that one was checked against: concurrent tabs never share the same
\* headroom, whatever fails, expires or passes midnight between check and insert.
FitsAllowance ==
    \A i \in DOMAIN sends : sends[i].cashin # "failed" =>
        LET upTo == SubSeq(sends, 1, i) IN
        /\ Used(upTo, {sends[i].day}) <= sends[i].limits.daily
        /\ Used(upTo, SameMonth(sends[i].day)) <= sends[i].limits.monthly

\* The sender pays the fee, gets the rate and sends the dollars that the page showed,
\* although the fees may have been edited, even there and back, since.  The market rate
\* and the margin booked may be other ones than the page's, but they always give the
\* page's rate (_pricing_matches, Transaction.exchange_rate).
PricedAsShown ==
    \A i \in DOMAIN sends :
        LET booked == sends[i].quote
            page == sends[i].shown
        IN /\ booked.rate = page.rate
           /\ booked.fee = page.fee
           /\ booked.uctusd = page.uctusd
           /\ page.rate = Rounded(booked.market * (PctUnit + booked.margin), PctUnit)

\* What is booked converts: the recipient gets a positive amount, within half a
\* unit of the net rand at the rate of the quote.
ConvertedFairly ==
    \A i \in DOMAIN sends :
        LET q == sends[i].quote
            net == sends[i].amount - q.fee
            error == q.uctusd * ZarUnit * q.rate - net * Unit * Unit
        IN q.uctusd > 0 /\ net > 0 /\ 2 * Larger(error, -error) <= ZarUnit * q.rate

\* A linked beneficiary is linked to the account of the contact it shows: the
\* payment never goes to the account of a contact the sender replaced.
LinkFollowsContact == beneficiary.link \in {None, beneficiary.contact}
=============================================================================
