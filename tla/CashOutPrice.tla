------------------------------ MODULE CashOutPrice ------------------------------
(***************************************************************************)
(* The price a recipient agrees to when cashing out: the wallet of         *)
(* WalletCache composed with the prices of FxQuote.  The review page shows *)
(* a payout; the request posted from it, minutes later, is priced again    *)
(* under the wallet's lock and refused if an administrator's fees or rate  *)
(* have moved.  Nothing of the page is stored.                             *)
(***************************************************************************)
EXTENDS WalletCache, FxQuote

CONSTANTS
    Configs,    \* fee configurations an administrator saves
    Currency    \* cash-out |-> the payout currency chosen for it

ASSUME ConfigsAssumption  == \A c \in Configs : LegalConfig(c)
ASSUME CurrencyAssumption == Currency \in [CashOuts -> {"USD", "ZAR"}]

VARIABLES
    config,   \* the active fee_config row
    page,     \* cash-out |-> the figures on its review page
    row       \* cash-out |-> the figures of its cash_out_requests row

priceVars == <<config, page, row>>
allVars == <<vars, priceVars>>

CashOutFigures == [rate : Nat, fee : Nat, payout : Int, pct : Nat, min : Nat]
NoFigures == [rate |-> 0, fee |-> 0, payout |-> 0, pct |-> 0, min |-> 0]

PriceTypeOK ==
    /\ TypeOK
    /\ config \in Configs
    /\ page \in [CashOuts -> CashOutFigures]
    /\ row \in [CashOuts -> CashOutFigures]

PriceInit ==
    /\ Init
    /\ config \in Configs
    /\ page = [r \in CashOuts |-> NoFigures]
    /\ row = [r \in CashOuts |-> NoFigures]

\* price_cashout on the configuration in force.
Priced(r) ==
    [rate |-> config.market, fee |-> CashoutFee(config, Amount[r]),
     payout |-> Payout(config, Amount[r], Currency[r]), pct |-> config.coPct, min |-> config.coMin]

-----------------------------------------------------------------------------

\* cashout_preview: the amount is available and the payout positive.
Preview(r) ==
    /\ cashout[r] = "absent"
    /\ page[r] = NoFigures
    /\ Amount[r] <= balance - Held
    /\ CashoutQuotable(config, Amount[r], Currency[r])
    /\ page' = [page EXCEPT ![r] = Priced(r)]
    /\ UNCHANGED <<vars, config, row>>

\* Mutant of PricingMatches: the fee and the payout are not compared.
RateMatches(pricing, accepted) == pricing.rate = accepted.rate

\* _pricing_matches: the fee, and neither the percentage nor the minimum behind it.
PricingMatches(pricing, accepted) ==
    /\ pricing.rate = accepted.rate
    /\ pricing.fee = accepted.fee
    /\ pricing.payout = accepted.payout

\* cashout_create: create_request admits the amount, prices it again, finds the
\* page's price and writes its own figures.
Request(r) ==
    /\ page[r] # NoFigures
    /\ CashoutQuotable(config, Amount[r], Currency[r])
    /\ PricingMatches(Priced(r), page[r])
    /\ CreateRequest(r)
    /\ row' = [row EXCEPT ![r] = Priced(r)]
    /\ UNCHANGED <<config, page>>

\* The request is refused (PricingChanged, or no longer available), or the page is left.
LeavePage(r) ==
    /\ cashout[r] = "absent"
    /\ page[r] # NoFigures
    /\ page' = [page EXCEPT ![r] = NoFigures]
    /\ UNCHANGED <<vars, config, row>>

\* update_fees replaces the active configuration.
UpdateFees(c) ==
    /\ config' = c
    /\ UNCHANGED <<vars, page, row>>

PriceNext ==
    \/ MoveMoney /\ UNCHANGED priceVars
    \/ \E r \in CashOuts : Preview(r) \/ Request(r) \/ LeavePage(r)
    \/ \E c \in Configs : UpdateFees(c)

PriceSpec == PriceInit /\ [][PriceNext]_allVars

-----------------------------------------------------------------------------
(* Properties.                                                             *)

\* A recipient is charged and paid what the page said, although fees and rate move
\* while the page is open and after the request; and the row adds up: in dollars, fee
\* and payout are together the amount that leaves the wallet, a payout is positive, and
\* the percentage and minimum booked, if not the page's, give the page's fee.
AgreedPayout ==
    \A r \in CashOuts :
        cashout[r] # "absent" =>
            /\ row[r].rate = page[r].rate
            /\ row[r].fee = page[r].fee
            /\ row[r].payout = page[r].payout
            /\ row[r].payout > 0
            /\ page[r].fee = Rounded(Larger(row[r].pct * Amount[r], row[r].min * PctUnit), PctUnit)
            /\ Currency[r] = "USD" => row[r].fee + row[r].payout = Amount[r]
=============================================================================
