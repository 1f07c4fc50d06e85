------------------------------- MODULE Backtest -------------------------------
(***************************************************************************)
(* dual_moving_average_backtest (strategy.py) over a dataset that grows row *)
(* by row: rows come in any order, some without a usable close, some for a  *)
(* date that has a row already.  Returns are kept as the exact factors      *)
(* whose logarithms the code adds up.                                       *)
(***************************************************************************)
EXTENDS RiskMetrics

CONSTANTS
    Closes,             \* the closes of the rows; 0 stands for all that are skipped
    ShortWindow,
    LongWindow,
    AllowShort,
    Keep,               \* what a change of position leaves of the equity: exp(-cost)
    MaxRows,            \* bound on the rows
    MaxLate             \* bound on the rows that come after a row of their date or a later one

ASSUME BacktestAssumption ==
    /\ Closes \subseteq Nat
    /\ ShortWindow \in Nat \ {0} /\ LongWindow \in Nat /\ ShortWindow < LongWindow
    /\ AllowShort \in BOOLEAN
    /\ IsFraction(Keep) /\ 0 < Keep.n /\ Keep.n <= Keep.d
    /\ MaxRows \in Nat /\ MaxLate \in Nat

VARIABLE rows           \* the rows in the order they are given

-------------------------------------------------------------------------------
(* Cleaning                                                                  *)

\* Puts a row before those of its date.
InsertedMutant(sorted, row) ==
    InsertAt(sorted, Cardinality({i \in DOMAIN sorted : sorted[i].date < row.date}) + 1, row)

\* One step of a stable sort by date.
Inserted(sorted, row) ==
    InsertAt(sorted, Cardinality({i \in DOMAIN sorted : sorted[i].date <= row.date}) + 1, row)

\* Rows without a close are dropped.
Collected(sorted, row) == IF row.close > 0 THEN Inserted(sorted, row) ELSE sorted

\* A later row of a date replaces an earlier one.
Deduped(kept, row) ==
    IF kept # <<>> /\ Last(kept).date = row.date
    THEN [kept EXCEPT ![Len(kept)] = row]
    ELSE Append(kept, row)

InDateOrder(given) == FoldLeft(Collected, <<>>, given)

CleanPrices(given) == FoldLeft(Deduped, <<>>, InDateOrder(given))

Prices(given) ==
    LET clean == CleanPrices(given) IN [i \in DOMAIN clean |-> clean[i].close]

-------------------------------------------------------------------------------
(* The backtest                                                              *)

\* The sum of the window that ends at i; windows compare by their means.
WindowSum(prices, i, window) ==
    FoldLeft(LAMBDA sum, price : sum + price, 0, SubSeq(prices, i + 1 - window, i))

\* The short mean exists wherever the long one does.
Signal(prices, i) ==
    IF i < LongWindow THEN 0
    ELSE IF WindowSum(prices, i, ShortWindow) * LongWindow
              > WindowSum(prices, i, LongWindow) * ShortWindow THEN 1
    ELSE IF AllowShort THEN -1 ELSE 0

\* Trades a bar on its own signal.
PositionMutant(prices, i) == Signal(prices, i)

\* The signal of the bar before.
Position(prices, i) == IF i = 1 THEN 0 ELSE Signal(prices, i - 1)

Power(f, exponent) ==
    CASE exponent = 1 -> f [] exponent = 0 -> Whole(1) [] exponent = -1 -> Over(Whole(1), f)

Changes(prices, i) == Position(prices, i) # Position(prices, i - 1)

\* Pays for every bar that is held.
BarFactorMutant(prices, i) ==
    LET held == Power(Fraction(prices[i], prices[i - 1]), Position(prices, i)) IN
    IF Position(prices, i) # 0 THEN Times(held, Keep) ELSE held

\* What bar i > 1 makes of the equity.
BarFactor(prices, i) ==
    LET held == Power(Fraction(prices[i], prices[i - 1]), Position(prices, i)) IN
    IF Changes(prices, i) THEN Times(held, Keep) ELSE held

Sufficient(prices) == Len(prices) > LongWindow + 1

Equity(prices) ==
    LET equity[i \in DOMAIN prices] ==
            IF i = 1 THEN Whole(1) ELSE Times(equity[i - 1], BarFactor(prices, i))
    IN  [i \in DOMAIN prices |-> equity[i]]

Result(prices) ==
    IF ~Sufficient(prices)
    THEN [trades |-> 0, strategy |-> Whole(1), buyAndHold |-> Whole(1),
          maxDrawdown |-> Whole(0)]
    ELSE [trades |-> Cardinality({i \in 2..Len(prices) : Changes(prices, i)}),
          strategy |-> Last(Equity(prices)),
          buyAndHold |-> FoldLeft(LAMBDA made, i : Times(made, Fraction(prices[i], prices[i - 1])),
                                  Whole(1), [i \in 1..(Len(prices) - 1) |-> i + 1]),
          maxDrawdown |-> MaxDrawdown(Equity(prices))]

-------------------------------------------------------------------------------

Dates == {rows[i].date : i \in DOMAIN rows}

LateRows == {j \in DOMAIN rows : \E i \in 1..(j - 1) : rows[j].date <= rows[i].date}

\* The dataset gets a row: of the next day, or late.
Given(date, close) ==
    /\ Len(rows) < MaxRows
    /\ (\E d \in Dates : date <= d) => Cardinality(LateRows) < MaxLate
    /\ rows' = Append(rows, [date |-> date, close |-> close])

Init == rows = <<>>
Next == \E date \in 1..(Len(rows) + 1), close \in Closes : Given(date, close)
Spec == Init /\ [][Next]_rows

-------------------------------------------------------------------------------
(* Properties                                                                *)

\* The cleaned prices are in date order, one for each date that has a usable row,
\* and it is the last one given for the date (strategy.py 46-50).
CleanIsLatest ==
    LET clean == CleanPrices(rows)
        usable == {i \in DOMAIN rows : rows[i].close > 0} IN
    /\ \A i, j \in DOMAIN clean : i < j => clean[i].date < clean[j].date
    /\ {clean[i].date : i \in DOMAIN clean} = {rows[i].date : i \in usable}
    /\ \A i \in DOMAIN clean : \E j \in usable :
          /\ rows[j] = clean[i]
          /\ \A k \in usable : k > j => rows[k].date # rows[j].date

\* "Shift by one bar so today's signal never sees today's close for today's return"
\* (strategy.py 96-97): what the strategy did and made by bar n is the same without
\* the bars after n, and its position in the next bar is the same whatever that
\* bar closes at.
NoLookahead ==
    LET prices == Prices(rows) IN
    \A n \in (LongWindow + 1)..(Len(prices) - 1) :
       LET before == SubSeq(prices, 1, n) IN
       /\ \A i \in 1..n : Position(prices, i) = Position(before, i)
       /\ IsPrefix(Equity(before), Equity(prices))
       /\ \A close \in Closes \ {0} :
             Position([prices EXCEPT ![n + 1] = close], n + 1) = Position(prices, n + 1)

\* The runs of bars that are held in one direction: entered at the close before the
\* first, left at the close of the last.
HeldRuns(prices) ==
    {run \in (2..Len(prices)) \X (2..Len(prices)) :
        /\ run[1] <= run[2]
        /\ \A i \in run[1]..run[2] : /\ Position(prices, i) # 0
                                     /\ Position(prices, i) = Position(prices, run[1])
        /\ Position(prices, run[1] - 1) # Position(prices, run[1])
        /\ run[2] < Len(prices) => Position(prices, run[2] + 1) # Position(prices, run[2])}

Product(made) == FoldFunction(Times, Whole(1), made)

\* What the strategy makes is the product of what its held runs make from entry to
\* exit, less one cost for each time the position changed; holding makes the last
\* close over the first (strategy.py 99-119).
TradesReconcile ==
    LET prices == Prices(rows)
        result == Result(prices) IN
    Sufficient(prices) =>
       /\ result.strategy =
             Times(Product([run \in HeldRuns(prices) |->
                              Power(Fraction(prices[run[2]], prices[run[1] - 1]),
                                    Position(prices, run[1]))]),
                   Product([k \in 1..result.trades |-> Keep]))
       /\ result.buyAndHold = Fraction(Last(prices), prices[1])

\* The worst fall of a curve, by its definition over every pair of its points.
WorstFall(curve) ==
    LET pairs == {p \in (DOMAIN curve) \X (DOMAIN curve) : p[1] <= p[2]}
        falls == {Minus(Whole(1), Over(curve[p[2]], curve[p[1]])) : p \in pairs}
    IN  CHOOSE worst \in falls : \A fall \in falls : AtMost(fall, worst)

Returns(prices) ==
    [i \in 1..(Len(prices) - 1) |-> Minus(Fraction(prices[i + 1], prices[i]), Whole(1))]

\* The drawdown found in one pass is the worst fall between any two points, of the
\* strategy's equity and of the prices when their returns are given to risk_metrics
\* (risk.py 78-85, 97-99).
DrawdownIsWorstFall ==
    LET prices == Prices(rows) IN
    /\ Sufficient(prices) => Result(prices).maxDrawdown = WorstFall(Equity(prices))
    /\ Len(prices) > 1 =>
          RiskResult(Returns(prices)).maxDrawdown
             = WorstFall([i \in DOMAIN prices |-> Whole(prices[i])])

\* The loss figures of risk_metrics agree: the worst, the median and the mildest loss
\* are in order with at least half the losses no worse than the median, the expected loss is
\* between the extremes, and losses alone explain no more than the expected return
\* (risk.py 96-113).
LossesAddUp ==
    LET returns == Returns(Prices(rows))
        losses == Losses(returns)
        r == RiskResult(returns) IN
    losses # <<>> =>
       /\ AtMost(r.lossDistribution.min, r.expectedLoss)
       /\ AtMost(r.expectedLoss, r.lossDistribution.max)
       /\ 2 * Cardinality({i \in DOMAIN losses : AtMost(r.lossDistribution.median, losses[i])})
             >= Len(losses)
       /\ 2 * Cardinality({i \in DOMAIN losses : AtMost(losses[i], r.lossDistribution.median)})
             >= Len(losses)
       /\ AtMost(Times(r.lossProbability, r.expectedLoss), r.expectedReturn)

===============================================================================
