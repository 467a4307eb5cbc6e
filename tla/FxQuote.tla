-------------------------------- MODULE FxQuote --------------------------------
(***************************************************************************)
(* The price of a remittance and of a cash-out (fx_service), in integers:  *)
(* rand in multiples of 1/ZarUnit, dollars and rates in multiples of       *)
(* 1/Unit, fractions in multiples of 1/PctUnit.  The program's values are  *)
(* ZarUnit = 100, Unit = PctUnit = 10^6.                                   *)
(***************************************************************************)
EXTENDS Integers

CONSTANTS ZarUnit, Unit, PctUnit

ASSUME UnitsAssumption == {ZarUnit, Unit, PctUnit} \subseteq Nat \ {0}

\* An active row of fee_config.  update_fees refuses negative values, a rate of
\* zero and a minimum at or below the fixed fee, but before the columns round
\* them: a rate may be stored as 0, and the minimum as the fixed fee.
LegalConfig(c) ==
    /\ {c.fixed, c.pct, c.margin, c.coPct, c.coMin, c.market, c.minSend} \subseteq Nat
    /\ c.minSend >= c.fixed

\* _q: the quotient a / b, halves rounded away from zero.
Rounded(a, b) == IF a >= 0 THEN (2 * a + b) \div (2 * b) ELSE -((2 * (-a) + b) \div (2 * b))

Larger(a, b) == IF a >= b THEN a ELSE b

\* calculate_quote, in its order; zar is the amount sent.
TransactionFee(c, zar) == Rounded(c.fixed * PctUnit + c.pct * zar, PctUnit)
EffectiveRate(c)       == Rounded(c.market * (PctUnit + c.margin), PctUnit)
NetZar(c, zar)         == zar - TransactionFee(c, zar)

\* Mutant of Uctusd: the quotient is truncated.
UctusdTruncated(c, zar) == (NetZar(c, zar) * Unit * Unit) \div (ZarUnit * EffectiveRate(c))

\* FR-FX-05.
Uctusd(c, zar)         == Rounded(NetZar(c, zar) * Unit * Unit, ZarUnit * EffectiveRate(c))

\* quote_for answers: the amount reaches the minimum, a rate exists, and neither
\* the fee nor the rounding leaves nothing to send.
Quotable(c, zar) ==
    /\ zar >= c.minSend
    /\ NetZar(c, zar) > 0
    /\ EffectiveRate(c) > 0
    /\ Uctusd(c, zar) > 0

\* The figures of a Quote that the pay page shows and a transaction records.
Figures(c, zar) ==
    [rate |-> EffectiveRate(c), fee |-> TransactionFee(c, zar), uctusd |-> Uctusd(c, zar),
     market |-> c.market, margin |-> c.margin]

\* The fee of a cash-out, with its floor.
CashoutFee(c, u) == Rounded(Larger(c.coPct * u, c.coMin * PctUnit), PctUnit)

\* cashout_payout: the fee is taken in dollars, then the rest is converted.
Payout(c, u, currency) ==
    IF currency = "USD" THEN u - CashoutFee(c, u)
    ELSE Rounded((u - CashoutFee(c, u)) * c.market * ZarUnit, Unit * Unit)

\* price_cashout refuses a payout that is not positive.
CashoutQuotable(c, u, currency) == Payout(c, u, currency) > 0
=============================================================================
