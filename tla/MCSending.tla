------------------------------- MODULE MCSending -------------------------------
(* Instances of Sending for TLC, with coarse units: rand to 0.1, dollars   *)
(* and rates to 0.001, fractions to 0.01.                                  *)
EXTENDS Sending, TLC

Fees(fixed, pct, margin, market) ==
    [fixed |-> fixed, pct |-> pct, margin |-> margin, coPct |-> 1, coMin |-> 5,
     market |-> market, minSend |-> 40]

\* One effective rate: with two fixed fees, so that a send of 100 costs 26 or 21, and
\* with the margin moved into the market rate, which no compared figure tells.  The
\* last row converts what it leaves to nothing.
Dust      == [Fees(98, 1, 0, 210000) EXCEPT !.minSend = 98]
MCConfigs == {Fees(25, 1, 2, 18500), Fees(20, 1, 2, 18500), Fees(25, 1, 0, 18870), Dust}
\* Two sends of 100 fit a day and a month, a month but no day, or neither.
MCTiers   == {[daily |-> 200, monthly |-> 250], [daily |-> 130, monthly |-> 200],
              [daily |-> 130, monthly |-> 150]}
MCMonthOf == [d \in 0 .. 2 |-> d \div 2]

\* Bound of the run: fees move, as far as a state shows, only on the first day and under
\* one tier.  No price depends on a day or a limit, and no limit on a fee.
FeesSeen == {Figures(config, 100)}
              \cup {tab[t].shown : t \in {u \in Tabs : tab[u].stage \notin {"idle", "editing"}}}
              \cup UNION {{sends[i].shown, sends[i].quote} : i \in DOMAIN sends}
TiersSeen == {tier} \cup {sends[i].limits : i \in DOMAIN sends}
FeesOrLimits ==
    \/ FeesSeen = {Figures(Fees(25, 1, 2, 18500), 100)}
    \/ day = 0 /\ Cardinality(TiersSeen) = 1

Symmetry == Permutations(Tabs) \cup Permutations(Contacts)

-----------------------------------------------------------------------------
(* Reference facts about the price over a grid of fees and amounts.        *)

GridConfigs ==
    [fixed : {0, 3}, pct : {0, 2, 50, 120}, margin : {0, 3}, coPct : {0, 10, 100}, coMin : {0, 7},
     market : {0, 1, 950, 1850}, minSend : {3, 5}]
GridAmounts == 1 .. 30

\* Rounding is to the nearest, halves away from zero, and odd.
ASSUME RoundsToNearest ==
    \A a \in -40 .. 40, b \in 1 .. 8 :
        /\ 2 * Larger(Rounded(a, b) * b - a, a - Rounded(a, b) * b) <= b
        /\ Rounded(-a, b) = -Rounded(a, b)
        /\ (2 * a) % (2 * b) = b => Larger(Rounded(a, b) * b, -Rounded(a, b) * b) >= Larger(a, -a)

\* While the fee is at most the send, a larger send is not refused where a
\* smaller one is not, and converts to no less.
ASSUME QuotesAreMonotone ==
    \A c \in {g \in GridConfigs : LegalConfig(g) /\ g.pct <= PctUnit} : \A a \in GridAmounts :
        Quotable(c, a) => Quotable(c, a + 1) /\ Uctusd(c, a) <= Uctusd(c, a + 1)

\* The same of cash-outs, in either currency.
ASSUME CashoutsAreMonotone ==
    \A c \in {g \in GridConfigs : g.fixed = 0 /\ g.pct = 0} : \A u \in GridAmounts, currency \in {"USD", "ZAR"} :
        CashoutQuotable(c, u, currency) =>
            Payout(c, u, currency) <= Payout(c, u + 1, currency)

\* Sending and cashing out in rand returns at most what was sent.
ASSUME RoundTripLoses ==
    \A c \in GridConfigs, a \in GridAmounts :
        (c.market * ZarUnit < Unit * Unit /\ Quotable(c, a)) => Payout(c, Uctusd(c, a), "ZAR") <= a
=============================================================================
