----------------------------- MODULE RiskMetrics ------------------------------
(***************************************************************************)
(* max_drawdown and risk_metrics (risk.py), over sequences of fractions.    *)
(***************************************************************************)
EXTENDS Fractions, SequencesExt

Highest(f, g) == IF AtMost(f, g) THEN g ELSE f
Lowest(f, g) == IF AtMost(f, g) THEN f ELSE g

\* Measures every value against the first one.
MaxDrawdownMutant(curve) ==
    Minus(Whole(0), FoldLeft(LAMBDA worst, value :
                                Lowest(worst, Over(Minus(value, curve[1]), curve[1])),
                             Whole(0), curve))

\* One pass that keeps the highest value so far and the worst fall below it.  The
\* curves start above zero, so the peak is never the -infinity it starts from.
MaxDrawdown(curve) ==
    LET Pass(state, value) ==
            LET peak == Highest(state.peak, value) IN
            [peak |-> peak,
             worst |-> Lowest(state.worst, Over(Minus(value, peak), peak))]
    IN  Minus(Whole(0), FoldLeft(Pass, [peak |-> curve[1], worst |-> Whole(0)], curve).worst)

Mean(values) == DividedBy(FoldLeft(Plus, Whole(0), values), Len(values))

\* Compounds returns from one.
Compounded(returns) ==
    FoldLeft(LAMBDA equity, r : Append(equity, Times(Last(equity), Plus(Whole(1), r))),
             <<Whole(1)>>, returns)

Losses(returns) ==
    FoldLeft(LAMBDA losses, r : IF r.n < 0 THEN Append(losses, r) ELSE losses, <<>>, returns)

\* Takes the losses as they came.
SortedMutant(values) == values

\* Puts a value behind those it does not come before.
Ranked(sorted, value) ==
    InsertAt(sorted, Cardinality({i \in DOMAIN sorted : AtMost(sorted[i], value)}) + 1, value)

Sorted(values) == FoldLeft(Ranked, <<>>, values)

RiskResult(returns) ==
    LET losses == Losses(returns)
        sorted == Sorted(losses) IN
    IF returns = <<>>
    THEN [expectedReturn |-> Whole(0), lossProbability |-> Whole(0),
          expectedLoss |-> Whole(0), maxDrawdown |-> Whole(0), lossDistribution |-> <<>>]
    ELSE [expectedReturn |-> Mean(returns),
          lossProbability |-> Fraction(Len(losses), Len(returns)),
          expectedLoss |-> IF losses = <<>> THEN Whole(0) ELSE Mean(losses),
          maxDrawdown |-> MaxDrawdown(Compounded(returns)),
          lossDistribution |->
             IF losses = <<>> THEN [min |-> Whole(0), median |-> Whole(0), max |-> Whole(0)]
             ELSE [min |-> sorted[1], median |-> sorted[Len(sorted) \div 2 + 1],
                   max |-> Last(sorted)]]

===============================================================================
