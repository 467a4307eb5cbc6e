# A verification development of the RLUSD remittance platform

TLA+ models of the platform in `src/app`: a FastAPI web application and RQ
workers that take card payments in rand, pay a recipient in a test stablecoin on the
XRP Ledger from one treasury account, and let recipients cash out by burning
the tokens. Every definition is translated from the Python source; `PROJECT.json`
maps each of them to the lines it stands for, lists the hazards of the code and
the findings, and names the runs and theorems.

    tlc -workers 2 -config MCSettlement_one.cfg MCSettlement   # check a run
    tlapm SettlementSafety.tla                                 # check the proofs

## 1. The system

Processes: the web application (many concurrent requests, and two background
sweeps in one asyncio task per web process), several RQ workers, PostgreSQL,
Redis, one public XRPL server. A database transaction is atomic; nothing else
is. Messages may be lost, repeated or late; any process may die anywhere.

| Component | Code | State it keeps | Operations | Model |
|---|---|---|---|---|
| Cash-in service | `services/cashin_service.py` | `transactions`: cash-in status, settlement status, attempt archive | create, confirm, refuse, expire; publish, re-queue, retry, reconcile; AML flag | `Settlement` |
| Settlement worker | `workers/settlement_worker.py` | settlement status, attempts, hash and ledger range; wallet credit | claim, sign, remember, submit, complete, fail, hand back | `Settlement` |
| Queue and treasury lock | `services/queue_service.py` | messages in Redis, one lock with a TTL | enqueue, enqueue later, lock | `Settlement`, `CashOut` |
| XRPL client | `services/xrpl_service.py` | none (the ledger does) | sign, submit and wait, classify; look up, latest ledger, server history | `XrplLedger` |
| Cash-out service | `services/cashout_service.py` | `cashout_requests`: status, claim, hash; wallet debit and restore | request, approve, reject, sweep, reconcile, restore, complete | `CashOut`, `WalletCache`, `CashOutPrice` |
| Burn worker | `workers/cashout_worker.py` | claim, attempts, hash and ledger range | claim, sign, submit, complete, restore, hold, release | `CashOut` |
| Wallet balance cache | `wallets.balance_uctusd`, written by five functions | one number | credit, debit, restore, admit a request | `WalletCache` |
| Background sweeps | `main.py` | none | expire cash-ins, re-publish burns | actions of `Settlement`, `CashOut` |
| Remittance limits | `services/limit_service.py`, `cashin_service.create_remittance` | `limit_tiers`; sums over a user's rows | check, consume by creating a row, edit the tier | `Sending` |
| FX and fees | `services/fx_service.py` | `fee_config` | quote, price lock, edit the fees; price a cash-out | `FxQuote`, `Sending`, `CashOutPrice` |
| Beneficiaries | `services/beneficiary_service.py` | `beneficiaries`: contact, linked account, active | add, edit, remove, link at send time | `Sending` |
| KYC | `services/kyc_service.py` | submissions, the user's status | submit, approve, reject | `KycReview` |
| Wallet provisioning | `xrpl_service.provision_wallet` | `wallets` (unique per user), the trust line | look up, fund, record, trust | `Provisioning` |
| Treasury sequence | `xrpl_service.send_from_treasury` | the account's sequence number on the ledger | autofill, submit | `Provisioning` |
| Accounts | `services/auth_service.py`, `routers/sender.py`, `models/user.py` | `users`: name, contact, password | register, edit the profile, send | `Accounts` (the name, sending), `Sending` (registration) |
| Pages, sessions, front end, scripts | `routers/`, `templates/`, `perf/` ... | cookies | — | not modelled |

How they interact: an admin's confirmation writes the row, commits, and publishes
a message; a worker that gets the message claims the row with a conditional
UPDATE, provisions the recipient, takes the treasury lock, signs, writes the
hash, commits, submits, and waits; its last transaction completes the row and
credits the wallet. When the worker cannot tell what happened, an admin's retry
asks the ledger: the payment landed (reconcile), provably cannot land any more
(archive it and queue afresh), or neither (refuse). The cash-out path is the
mirror image, with the debit taken at approval and no second signature ever.

What is hard in it, and what has to be true anyway:

- *Exactly-once payment over at-least-once messages and crashes.* A signed payment
  may land long after its worker is gone. No remittance may be paid twice
  (`NoDoublePayment`), credited without payment or twice (`CreditedOnce`), and no
  signed payment may be forgotten (`Traceable`, `HashIsKept`).
- *Decisions made on several reads.* A retry reads the row, then asks the
  ledger three times, then writes: the row (another admin, a worker, an AML
  flag) and the ledger move meanwhile (`RetiredAreDead`, `RestoredOnlyIfDead`).
- *Ownership without a lock.* A worker owns its row by a status or a claim
  that "has grown old" after ten minutes (`QueuedIsClaimable`, `OneBurn`, `Inductive`).
- *Mutual exclusion by a lock with a TTL* (`OneSigner`), which protects a number that
  lives on the ledger and not under the lock (`ClashOnlyUnseen`).
- *Create on first use by whoever comes first*: two jobs of one new recipient
  (`PaidToTheWallet`).
- *Nothing may be stranded*: between commit and publish there is always a gap
  (`Resolves`, `ReserveResolves`).
- *One cached balance written by many sessions* (`BooksBalance`, `RequestsCovered`,
  `NeverNegative`).
- *A price and an allowance promised on one page and used by a later request*, from
  several tabs, with administrators moving both (`PricedAsShown`, `AgreedPayout`,
  `FitsAllowance`, `ConvertedFairly`), *and rows edited from stale copies*
  (`LinkFollowsContact`, `PendingIsReviewable`, `OnlyAReviewDecides`).
- *A gate checked on one read and passed on another*: the KYC status before a
  remittance (`VerifiedSender`), the name lock before an edit (`NameFixed`).

`PROJECT.json` lists the hazards line by line with the properties that cover them.

## 2. The modules

`XrplLedger` (external) is the ledger as the code uses it. A payment is unsigned,
signed, submitted, void (rejected as malformed), or in a ledger with or without
moving funds. Once submitted it may be included in any ledger up to its
LastLedgerSequence, or never. The queried server may miss ledgers, and reports
a payment of a missed ledger as not found; it may fetch them later.

`Settlement` models the cash-in side. `row` is the `transactions` table (with
`old` for "not updated for STUCK_AFTER"), `queue` counts the messages of each row,
`lock` is the treasury lock, `job[w]` and `session[a]` are the program counters
and local variables of worker jobs and admin requests, `credited` counts wallet
credits. One action is one transaction, one Redis call or one XRPL call of the
code, so that every gap between two of them is an interleaving point:

| Code | Actions |
|---|---|
| `create_remittance`, `mark_cashin_received`, `mark_cashin_failed`, `expire_stale_cashins`, `set_aml_flag` | the actions of these names |
| `claim`, a message for a row that cannot be claimed | `Claim`, `Skip` |
| `provision_wallet`, `treasury_lock`, `send_from_treasury`, `remember_signed` | `Provisioned`, `AcquireLock`, `Sign`, `Submit`, `Observe`, `LoseSight`, `FailTransiently` |
| `complete_settlement`, `fail_settlement`, `_retry_or_fail` | `CompleteSettlement`, `FailSigned`, `FailUnsigned`, `HandBack`, `Requeue` |
| `requeue_stuck`, `retry_settlement`, `_refuse_unless_provably_dead`, `_publish` | `StartRequeue`, `StartRetry`, `LookUp`, `CheckLatest`, `CheckRange`, `Reset`, `Reconcile`, `Publish`, `PublishRaises`, `Unpublish` |
| process death, RQ's kill at JOB_TIMEOUT, lost messages, the lock's TTL | `Crash`, `Abort`, `LoseMessage`, `LockExpires` |

`session[a].fresh` stands for the comparison of `updated_at` with the value read
(the optimistic guard of the retry's UPDATE); every committed write clears it.

`RemittanceSpec` is the promise: funded or cancelled, then paid at most once,
then credited at most once. `Settlement!ImplementsPromise` is the refinement.

`SettlementInv` states the inductive invariant of `Settlement` and is checked by TLC
as such; `SettlementSafety` proves its types, the lock, the invariant and what follows
from it, `SettlementRefinement` the action properties and the refinement.

`Provisioning` extends `Settlement` with what its jobs share besides the lock. Where
`Settlement` has one step `Provisioned`, it has those of `provision_wallet`, and it adds
the treasury's sequence number to `Sign` and to the closing of a ledger. All rows pay
one new recipient, the case in which the wallet is contended for.

| Code | Actions |
|---|---|
| `get_wallet_for_user`, a wallet that is ready | `LookUpWallet`, `FindWallet` |
| `generate_faucet_wallet`, the committed insert, the unique key | `FundAccount`, `InsertWallet`, `LoseRace` |
| `ensure_trust_line` | `SetTrustLine`, `MissTrustLine` |
| `autofill_and_sign`, the address and the number it puts into the payment | `SignFor` (`dest`, `seq`) |
| a job that gives up or dies with its payment in flight | `Forget` |
| the ledger takes an account's transactions in order | `LedgerClosesInSequence` |

Autofill asks the server for the next number, and the server may not know of a
payment in flight: `NextSequence` is the numbers it may answer. The other steps are
`Settlement`'s own (`Untouched`, `FailBeforeSigning`, `FailForGood`). `ProvisioningProofs` proves
that this is a refinement.

`CashOut` models the cash-out side the same way (`req` is `cashout_requests`; `taken`,
`returned`, `payouts` count the money's movements), `CashOutSpec` is its promise: reserved,
then burnt and paid out, or returned and never burnt. `Stage` is the refinement mapping:
what the promise sees of a row and its burn. `CashOutProofs` holds all of its proofs.

`WalletCache` composes both sides at the one number they share. Its sessions keep
the balance they read first, because the locking SELECT of the code does not refresh
an object its SQLAlchemy session already holds. `lost` records that some
session wrote back a balance that had moved.

`CashOutPrice` composes `WalletCache` with the cash-out prices of `FxQuote`: `Preview` is
`cashout_preview`, `Request` is `cashout_create` (the price compared with the page and
`WalletCache!CreateRequest` in one action, since the wallet's lock spans both),
`UpdateFees` moves the prices. The page's figures are in `page`, the row's in `row`; both have
the fee's percentage and minimum, which the price lock does not compare.

`FxQuote` is `fx_service` as operators on integers: rand, dollars, rates and fractions
are counted in their smallest units, so that each `quantize` is `Rounded`.
`Decimal`'s 28 digits are taken as exact; its double rounding in `net / rate` is
far below a unit. `Figures` are the figures of a quote that the pay page shows and the
transaction records, the market rate and the margin among them; the page's estimates of a
cash-out are not booked, and are left out. `ArithmeticProofs` proves what the other proofs need of numbers: sums
over finite sets of rows, rounding, and how prices grow with amounts.

`Sending` puts those prices, the limits and the beneficiary together in the one
place that uses all three, `create_remittance`, for one sender with several tabs. Its price
lock, `PricingMatches`, compares the rate, the fee and the dollars, as the code does:

| Code | Actions |
|---|---|
| `_quote_context` and the pay page | `ShowQuote`, `LeavePage` |
| `create_remittance`: lock and read, re-price, check limits, insert and commit, refuse | `LockAndLoad`, `Reprice`, `CheckLimit`, `Insert`, `Refuse` |
| `create_beneficiary`, `edit_save` with `update_beneficiary`, `delete_beneficiary` | `AddBeneficiary`, `OpenEdit`, `SaveEdit`, `DeleteBeneficiary` |
| `mark_cashin_received`, `mark_cashin_failed`, `expire_stale_cashins` | `DecideCashin`, `ExpireBefore` |
| `update_fees`, `update_tier_limits`, `create_user`, the local midnight | `UpdateFees`, `UpdateTierLimits`, `Register`, `NextDay` |

The sender's row lock is held by whoever is between `LockAndLoad` and the end of the
request, so it needs no variable; likewise the lock that a flushed link takes on
the beneficiary's row (`RowLocked`). A session writes only the columns that differ
from the copy it read (`SaveEdit`, `Insert`), which is what SQLAlchemy does.
An e-mail or mobile number is one contact, and stands for the account that has it;
a user who changes the contact of an account is not modelled. `SendingProofs` proves what
is booked and whom it pays.

`KycReview` is one sender's submissions and status, with POSTs that passed their check
and reviewers that hold a copy of the user. `Written` is the ORM's rule again.
Its theorems are in `AccountsProofs`.

`Accounts` composes it with the two things a submission gates. `OpenEdit`, `AdmitEdit`,
`SaveEdit` are `update_profile` with the name changed: the copy of the user, the check
`name_is_editable`, the commit. `AdmitSend`, `BookSend` are `create_remittance` with its KYC
check on the copy (its other refusals are `RefuseSend`; `Sending` has them in
detail). `verified` and `overtaken` are history: the name the account had at the first
submission, and whether an edit was then past its check.

`MCSettlement`, `MCProvisioning`, `MCCashOut`, `MCWalletCache`, `MCCashOutPrice` and `MCAccounts`
only add the symmetry sets, amounts and fees for TLC; `MCSending` adds fee and limit tables, and four
assumptions that TLC evaluates over a grid of 768 fee rows and 30 amounts:
rounding is to the nearest, halves away from zero; no larger send or cash-out is
priced worse than a smaller one; and sending and cashing out in rand never
returns more than was sent. The last three are theorems of `ArithmeticProofs` too. Operators named as mutants in the comments are wrong versions
of a definition, one for every property: with it TLC finds the property violated.

## 3. The runs

| Run | Checks | Shows |
|---|---|---|
| `settlement_one` | `TypeOK`, `NoDoublePayment`, `CreditedOnce`, `Traceable`, `RetiredAreDead`, `QueuedIsClaimable`, `Inductive`, `HashIsKept`, `ForwardOnly`, `ImplementsPromise` | one remittance, two possible payments, two workers, two admins, a fault anywhere |
| `settlement_two` | `ProvisioningTypeOK`, `OneSigner`, `CashBeforePayment`, `PaidToTheWallet`, `ClashOnlyUnseen` | two remittances to one new recipient compete for two workers, the wallet, the lock and the sequence numbers |
| `settlement_diligent` | `Resolves` | nothing is stranded after up to two faults |
| `settlement_slow_rpc` | `NoDoublePayment` (violated) | finding 1 |
| `cashout` | `TypeOK`, `MoneyFollowsStatus`, `RestoredOnlyIfDead`, `OneBurn`, `PaidOnlyIfBurned`, `Frozen`, `ImplementsPromise` | one cash-out, two possible burns, two workers, two admins, two faults |
| `cashout_diligent` | `ReserveResolves` | no reserve is held for ever |
| `cashout_late_redis` | `RestoredOnlyIfDead` (violated) | finding 2 |
| `wallet_books` | `PriceTypeOK`, `BooksBalanceUnlessLost`, `RequestsCovered`, `NeverNegative`, `AgreedPayout` | two transfers and two cash-outs over three sessions, one paid out in dollars and one in rand, four fee rows |
| `wallet_stale` | `BooksBalance` (violated) | finding 3 |
| `sending` | `TypeOK`, `FitsAllowance`, `PricedAsShown`, `ConvertedFairly`, `LinkFollowsContact` | two tabs, two sends, three days, four fee rows, three tiers, two contacts |
| `sending_link` | `LinkFollowsContact` (violated) | finding 4 |
| `kyc` | `AccountsTypeOK`, `PendingIsReviewable`, `BackedByASubmission`, `VerifiedSender`, `NameFixed`, `OnlyAReviewDecides` | three concurrent POSTs, three submissions, two reviewers, two name edits, a remittance |

Bounds, and why they are enough:

- `Rows`: rows interact only through the workers, the recipient's wallet and the
  treasury's lock and sequence, which `settlement_two` covers with two; everything else
  is per row. `Hashes`: two are
  needed to pay twice and enough to do it; a run ends its signing when they
  are used up. `Workers`, `Admins`: two of each give every race of
  a worker with a worker, an admin with an admin, and one with the other.
- `MaxLedger`, `Window`: the window of a payment (1 ledger here, about 20 on the
  network) closes within the behaviour, and `Sign` keeps to payments whose window
  does; ledger 5 leaves room for two attempts one after the other.
- `MaxGaps`: ledgers the server misses at a time. `MaxAttempts` (3 in the
  code): 2 gives a first and a last attempt; 1 where the run is not about retries.
- `MaxMsgs`: a further copy of a message is the same message coming late: with one
  copy kept at a time, re-published after it was consumed, duplicates still arrive
  after a claim, which is when they matter.
- `MaxFaults`: crashes, lost messages, Redis errors and AML flags in a behaviour.
- `Accounts`: two of them in `settlement_two`, one per job that may call the faucet. That run has
  four ledgers, one attempt and one fault, enough for a payment to be lost sight of and
  for the next to take its number.
- Amounts in `WalletCache` are 1 to 3 (10 to 30 in `CashOutPrice`), so that requests fit exactly, by
  one, and not. The fee rows of `CashOutPrice` are two fees at one rate, the first of them
  once more as a minimum instead of a percentage (the figures that are not compared), and one
  whose floor leaves nothing to pay out. `FeesOrRaces` bounds the run: once the fees have moved
  (as far as a page, a row or the fee row shows), at most two sessions are open. Prices and
  balances meet only where a page or a request checks what is available, in one step that no
  session takes part in.
- `Sending`: two sends are the fewest that can share headroom and `MaxSends` adds
  none; days 0 and 1 are one month and day 2 the next; the tiers admit two sends a day and a
  month, two a month and one a day, and one a month. The fee rows are two fixed fees
  at one rate (the change a comparison of rates would miss), the first with its margin moved
  into the market rate (the change the code's comparison misses), and one that converts what it
  leaves to nothing. `FeesOrLimits` bounds the run: fees move only on the first day and under
  one tier, as far as a state shows; no price depends on a day or a limit, and no limit on a
  fee. Units are coarse (0.1 rand, 0.001
  dollar, 1 %) to stay within TLC's integers, which changes no rule.
- `KycReview` in `Accounts`: three POSTs admitted at once make three submissions; two reviewers
  hold two different copies of the user, the third value being the row itself; two edits
  are needed for a name to change before and after a submission.

Assumptions the switches name. `Overlap = FALSE`: the sender does not edit a beneficiary
while another tab pays or edits it; finding 4 is what happens otherwise. `SlowRpc = FALSE`: the server's ledger does not
advance between the look-up of a request and its last ledger query (milliseconds
against about four seconds a ledger); finding 1 is what happens otherwise.
`LateRedisError = FALSE`: a publish either fails or not, and is over within the
sweep's grace of two minutes; finding 2 is what happens otherwise. What does not
depend on the last two is proved without them (section 5); TLC agrees if the switches in
`MCSettlement_one.cfg` and `MCCashOut_safety.cfg` are set to `TRUE` and the properties that
need them are left out. A job that is
alive has not run for STUCK_AFTER, since RQ kills it at JOB_TIMEOUT (5 minutes
against 10), hence the guards of `GrowOld` and `GrowStale`; the lock's TTL is
JOB_TIMEOUT too and starts later than the job, so only a dead job's lock expires.

Fairness. `Machinery` is what goes on by itself: RQ serves its queue (strong
fairness of `Deliver`, since a row's message may be taken by either worker), jobs and
requests that have begun go on (weak), locks expire, ledgers close. `DiligentSpec`
adds the people and the timers: a stuck row grows old, and an admin who works the
settlement monitor uses the buttons it offers again and again (strong, since
the offer may be withdrawn and come back), the burn sweep runs every two
minutes, the server catches up on history. Nothing is assumed about faults
other than their number, or about what the ledger decides. Retrying a *failed*
row is never assumed: `Resolves` ends at "completed or shown as failed".

## 4. Findings

1. `settlement_slow_rpc`. The retry looks the payment up *before* it asks for
   the latest ledger. If the ledgers of the payment's window close in between, it
   is judged dead from a stale "not found" and sent again: paid twice, against
   the docstring of `retry_settlement`.
2. `cashout_late_redis`. The cash-out `_publish` restores the reserve on any Redis
   error, although the message may have been accepted and a worker may be burning;
   the cash-in side guards against that very case in its own `_publish`.
3. `wallet_stale`. A credit, restore or debit computed from a Wallet object loaded
   before the lock overwrites another session's update. What still holds is in
   `wallet_books`: nothing else unbalances the books, and the balance never goes
   negative.

4. `sending_link`. A payment or an edit that read the beneficiary before an edit
   committed writes the link of the replaced contact (or skips writing the new
   one); the row shows one contact and pays another's account from then on.

Seen while reading, and not runs of their own:

- The loser of a wallet-creation race leaves its row processing, since its handler
  goes on with a session that was not rolled back; `settlement_worker.py:300` says "every path must
  leave the row in a known state". `Provisioning!LoseRace` has that behaviour. An admin's
  retry resolves the row after STUCK_AFTER.
- "Two workers autofilling at once get the SAME sequence" (`queue_service.py:24`), and the lock
  prevents it; a worker that times out or dies releases the lock with its payment
  in flight, and the next payment may still take its number. `ClashOnlyUnseen` says
  that nothing else leads there. The payment that loses is rejected and retried; none is paid twice.
- Two concurrent POSTs both pass the check commented "Block resubmission while pending
  or already approved" (`routers/kyc.py:101`), so two submissions can be pending and the
  user ends with the status of the last review.
- "A name can change only before any KYC submission exists" (`auth_service.py:100`), but nothing is
  locked between the check and the commit: an edit that overlaps the first submission
  changes the name after it. `NameFixed` holds of every other behaviour.
- The pay page shows the market rate and the margin (`_quote_table.html:8-9`) and the transaction
  books them (`cashin_service.py:190-192`), but the price lock compares neither: an edit
  from 18.50 and 2 % to 18.87 and 0 % passes it. The docstring of `AcceptedQuote` promises only the three
  figures it has, so nothing is contradicted. `PricedAsShown` says what remains true: rate,
  fee and dollars are the page's, and the market rate and margin booked give that rate. The same holds of a
  cash-out fee's percentage and minimum (`AgreedPayout`).
- `create_user` looks for the e-mail and the mobile and then inserts; if another registration
  comes between, the unique key raises an error that `register` does not
  handle (`update_profile` does).

## 5. The proofs

`Settlement`, for any numbers of rows, workers, requests and payments, any bounds and
any number of faults:

- `SettlementSafety!TypeCorrect`: `Spec => []TypeOK`.
- `SettlementSafety!SingleSigner`: `Spec => []OneSigner`. `LockInv` (whoever signs or waits
  for a payment is the owner of the lock) needs nothing but the types.
- `SettlementSafety!Invariant`: `Spec => []Inductive`, of every instance. None of the
  properties below is inductive. `Inductive` adds, in `SettlementInv`: `JobInv`, what each
  step of a job knows of its row and its payment; `OwnerInv`, that no two working jobs
  share a row and that a row grown old has none; `RowInv` and `PayInv`, that rows
  and payments refer to each other with the right ledger ranges; and `SessionInv`, what
  a retry knows: for good (its payment's range, "not found", then "dead"), that no
  worker pursues the payment it decides about, and, while nobody has written the
  row since, that its snapshot is the row. Without the last two, a retry could
  archive a payment that a worker is about to submit.
- The heart is `ProvablyDead`: a payment not found in an unbroken history, with a
  validated ledger beyond its last, can never be included. It needs `~SlowRpc` only in the
  two steps of the ledger itself (`LedgerCloses`, `ServerBackfills`), to keep a request's
  "not found" true until it is used. Otherwise a retry may archive a live payment
  (finding 1), and a reconciliation that finds this payment then completes a row that another
  job works on. So the parts of `Inductive` that rest on the verdict say `~SlowRpc`.
- From it, with no hypothesis: `QueuedRowsAreFree`, `PaidOnlyIfFunded`, `CreditGoesWithStatus`.
  Even a remittance that is paid twice is credited once.
- From it, under `SlowRpc = FALSE`: `PaidAtMostOnce`, `CreditMatchesPayment`,
  `PaymentsAreTraceable`, `ArchiveIsDead`. Finding 1 shows that the first needs it.
- `SettlementRefinement`, from `Inductive` before and after a step: each step takes nothing
  back (`NothingIsTakenBack`, with no hypothesis), forgets no hash (`HashesAreKept`) and
  maps to a step of `RemittanceSpec` or to a stutter (`PromiseIsKept`, both under
  `SlowRpc = FALSE`, which the second needs only where a ledger closes). A ledger that
  closes is the promise's `Pay` for the rows it pays: they were funded, had no landed payment before, and have one after, because
  no two payments of one row ever land.

`CashOut`, for any numbers of rows, workers, admins, ledgers and burns and any number of
faults (`CashOutProofs`):

- `TypeCorrect`, from nothing but the constants.
- `Invariant`: `Spec => []Inductive`, of every instance. A worker
  owns a row here by a claim that can be released and taken over, so `JobInv` says that the
  claim of a job that has not signed yet is still live, and `OwnerInv` that no two jobs work on one row.
  `EarlyInv` and `SessionInv` are about the gap between approval and message: a row
  whose publish is not over is `Untouched` (no burn, no claim, no message, no job), and at
  most one request is announcing it, hence the request that must undo the approval finds
  it as it left it. A Redis error that comes after the message breaks exactly that
  (finding 2), and a ledger that closes inside a request breaks its "not found", as in
  `Settlement`. So the parts that need it say `Assured` (`~SlowRpc /\ ~LateRedisError`):
  that the row of a job is still approved, that a restored burn is dead, and what a
  request knows. No run checks this invariant as such, as it is stated next to its proof;
  the cash-out runs check what follows from it.
- From it, with no hypothesis: `MoneyIsMovedOnce`, `OneBurnPerRow`, `PaidOnlyForBurnt`, and from it
  before and after a step `DecisionsAreFinal`. Whatever Redis and the server do, no tokens are
  burnt twice, reserved or returned twice, or paid out unburnt.
- `NothingReturnedAndBurnt`, under `SlowRpc = FALSE` and `LateRedisError = FALSE`: the run
  `cashout_late_redis` shows that it needs the second.
- `PromiseIsKept`, under the same two: a step touches few rows (`OneRow`), and the shown
  `Stage` of these moves as `CashOutSpec` allows; a ledger that closes is the promise's `Burn`
  for the rows it burns, which were reserved (`LedgerMaps`).

`Sending`, for any numbers of tabs, sends, fee rows, tiers and contacts (`SendingProofs`):
`TypeCorrect`; `BookedAsShown` and `BookedFairly`, by `PriceInv`: once a request is past
`Reprice`, the quote it carries agrees with the page's in the three compared figures, its rate is
what its market rate and margin give, its dollars are a fair conversion, and a fee edit no
longer reaches it; `PaymentsFollowContact`, under `Overlap = FALSE`, by `LinkInv`: at most one
request holds a copy of the beneficiary, its contact and link are still the row's, and the recipient
it will pay is what they give; and `SendsFitAllowance`, by `AllowanceInv`: at most one request is
between `LockAndLoad` and the end (`OnePays`, the sender's row lock), and while it is
"allowed" its amount still fits the limits it was checked against (`Room`), because all
that the others can do meanwhile is let rows fail or days pass (`Relaxes`), which never
raises a sum. That needs `MonthAssumption`, that months follow days. The property is about the
state after each insert, so it speaks of a sum over the rows before it.

`Provisioning`, for any numbers of jobs, accounts and payments (`ProvisioningProofs`):
`RefinesSettlement` shows that each of its steps is a step of `Settlement` or a stutter, so all of
the above holds of it; `ProvisionedPaidOnce`, `ProvisionedFunded` and `ProvisionedPromise` (it implements
`RemittanceSpec`) are stated. `OneWallet` rests on an
invariant that whatever account a job holds past the insert is the one on the row;
`NoClashInSight` on `SequenceInv`: a payment in a ledger has used its number up, one that may
still get there is pursued by a job unless its job lost sight of it, and the lock (`LockInv`)
leaves at most one job that pursues. It needs no assumption on `SlowRpc`.

`KycReview` (also in `AccountsProofs`), for any numbers of submissions, POSTs and reviewers: `TypeCorrect`,
`PendingReviewable`, `ReviewsAreFinal`, `StatusIsBacked`. `PendingIsReviewable` is not
inductive: the last pending submission might be decided by a reviewer whose copy
of the user already shows that decision, so that the row stays pending. The
invariant `Reviewable` adds that some pending submission is held by no such reviewer.

`Accounts` (`AccountsProofs`): `RefinesKycReview`, which carries those theorems over, and
`SendersAreVerified` (a status is backed by a submission, and a decided submission is final, so
a stale copy still tells a truth about the history) and `NameStaysFixed` (once a submission
exists and no edit was past its check, none ever is).

`CashOutPrice`, for any transfers, cash-outs, sessions, amounts and legal fee rows
(`CashOutPriceProofs`): `RefinesWalletCache`; `BalanceNeverNegative`, by the invariant that no
session holds a negative balance, stale or not; `PriceTypeCorrect` and `PayoutIsAsAgreed`, which
rest on what rounding does to integers (`RoundedIsInt`, `PriceType`). `BooksAlwaysBalance` and
`RequestsAreCovered`, by `Books`: the credited, reserved and requested items are finitely many, one
step adds or takes one of them, and the balance moves by its amount unless the session's
copy was stale, which `lost` records; neither property is inductive without the
other, as an approval turns a covered request into a debit.

Prices and sums (`ArithmeticProofs`), for all units, legal fee rows and amounts: `QuotesAreMonotone`,
`CashoutsAreMonotone` (each while the percentage is at most the whole, which the fee form does not
enforce), and `RoundTripLoses` (while a unit of the dollar, 0.000001, is worth less
than a cent). `SumFunctionOnSet` is defined by a fold, hence by recursion, and what it adds up to
would be proved by induction. The proofs go by a least counterexample instead: among
the subsets of a finite set for which an equation fails there is one with no smaller
(`LeastSubset`, from the well-foundedness of inclusion), and taking one element off it
contradicts that.

The assumptions used are the named `ASSUME`s of the modules and nothing else.
Every invariant and every safety property of an action that a passing run checks is a theorem
here; only liveness (`Resolves`, `ReserveResolves`) is model-checked alone.

## 6. What is left out, and why

Liveness and fairness are model-checked only: they are out of TLAPS's reach. Not in
the models: amounts and prices in the two settlement models (`WalletCache`, `CashOutPrice` and
`Sending` have them), a market rate pinned by the environment instead of the fee row
(`FX_RATE_SOURCE=static`), payout currencies of a send, parsing of forms, passwords
and cookies, a change of an account's e-mail or mobile, the seed's encryption, audit and formatting; the branch of
`complete_settlement` for a recipient whose wallet row has disappeared
(the code deletes none); database errors other than as a crash of their actor; a
commit whose outcome the client does not learn; RQ's own retry and failed-job registry (the
code does not use them). `requeue_stuck` and the retry read through one session each; the
routes in front of them only check the admin's role.

## 7. The plan

1. `XrplLedger`, `Settlement`, `RemittanceSpec`, the inductive invariant *(done)*.
2. `CashOut`, `CashOutSpec`, `WalletCache` *(done)*.
3. `FxQuote`, `Sending`, `KycReview` *(done)*.
4. `Provisioning`, `Accounts`, `CashOutPrice`, each composing an earlier model with what it
   shares, with proofs that they refine it *(done)*.
5. `SettlementRefinement`: the action properties, and `RemittanceSpec` implemented step by
   step *(done)*.
6. `SendingProofs` and `CashOutProofs`: the prices and links of `Sending`, the safety of
   `CashOut` and its refinement of `CashOutSpec` *(done)*.

What is left: a change of an account's e-mail or mobile under the beneficiaries linked to it
(`Sending` and `Accounts` together), and the payout currencies of a send.
