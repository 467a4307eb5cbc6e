----------------------------- MODULE MCCashOutPrice -----------------------------
(* Instances of CashOutPrice for TLC, in whole dollars and rand.           *)
EXTENDS CashOutPrice, TLC

CONSTANTS p1, p2, r1, r2

\* Two transfers, and two cash-outs that together, not singly, exceed the first.
MCAmount == p1 :> 30 @@ p2 :> 10 @@ r1 :> 20 @@ r2 :> 20
MCCurrency == r1 :> "USD" @@ r2 :> "ZAR"

Fees(pct, min, market) ==
    [fixed |-> 0, pct |-> 0, margin |-> 0, coPct |-> pct, coMin |-> min,
     market |-> market, minSend |-> 1]

\* A fee of 2 for 20, the same fee as a minimum, a fee of 4 at the same rate, and at
\* another rate a floor above every amount.
First     == Fees(1, 1, 18)
MCConfigs == {First, Fees(0, 2, 18), Fees(2, 1, 18), Fees(1, 25, 19)}

\* Bound of the run: once the fees have moved, as far as a state shows, at most two
\* sessions are open.  No price depends on a balance, and no balance on a price.
FeesMoved ==
    \/ config # First
    \/ \E r \in CashOuts : \E f \in {page[r], row[r]} \ {NoFigures} :
          f.pct # First.coPct \/ f.min # First.coMin
FeesOrRaces == FeesMoved => Cardinality({s \in Sessions : session[s].task # "idle"}) <= 2

Symmetry == Permutations(Sessions)
=============================================================================
