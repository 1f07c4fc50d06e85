----------------------------- MODULE AccountProofs ----------------------------
(***************************************************************************)
(* Proofs about the account books, for any accounts, finitely many         *)
(* contracts, any multipliers, prices, quantities and number of executions. *)
(* Averages are exact fractions in lowest terms, which CommonTheorems shows *)
(* to be worth what they were computed from.                               *)
(***************************************************************************)
EXTENDS AccountProperties, CommonTheorems

-------------------------------------------------------------------------------
(* Types                                                                     *)

PositionRecords ==
    [position : Int, avgCost : Fracs, marketPrice : Prices \cup {0}, marketValue : Int,
     realized : Fracs, unrealized : Fracs]
SnapshotRecords ==
    [cash : Int, netLiq : Int, realized : Fracs, unrealized : Fracs, exposure : Nat]
Executions ==
    {e \in [account : Accounts, conid : Conids, side : Sides, qty : Nat, price : Nat \ {0},
            commission : Nat] :
        e.commission = EstimateCommission(e.qty, e.price)}

Types ==
    /\ positions \in [Accounts -> [Conids -> PositionRecords]]
    /\ snapshots \in [Accounts -> SnapshotRecords]
    /\ trades \in Seq(Executions)

LEMMA TypesTell == Types => TypeOK
<1> SUFFICES ASSUME Types, NEW a \in Accounts
             PROVE  /\ \A c \in Conids :
                         LET p == positions[a][c] IN
                         /\ p.position \in Int /\ p.marketValue \in Int
                         /\ p.marketPrice \in Prices \cup {0}
                         /\ IsFraction(p.avgCost) /\ IsFraction(p.realized) /\ IsFraction(p.unrealized)
                    /\ LET s == snapshots[a] IN
                         /\ s.cash \in Int /\ s.netLiq \in Int /\ s.exposure \in Nat
                         /\ IsFraction(s.realized) /\ IsFraction(s.unrealized)
    BY DEF TypeOK
<1>1. \A f \in Fracs : IsFraction(f)
      BY DEF Fracs, IsFraction
<1>2. snapshots[a] \in SnapshotRecords /\ \A c \in Conids : positions[a][c] \in PositionRecords
      BY DEF Types
<1> QED BY <1>1, <1>2 DEF SnapshotRecords, PositionRecords

-------------------------------------------------------------------------------
(* What the snapshot adds up                                                 *)

Values(held) == [c \in Conids |-> held[c].marketValue]
Sizes(held) == [c \in Conids |-> Absolute(held[c].marketValue)]
Realizeds(held) == [c \in Conids |-> held[c].realized]
Unrealizeds(held) == [c \in Conids |-> held[c].unrealized]

FractionStep(f, g, T) == IF T = {} THEN Whole(0) ELSE Plus(f[Pick(T)], g[T \ {Pick(T)}])
FractionFcn(f, S) == CHOOSE g : g = [T \in SUBSET S |-> FractionStep(f, g, T)]

LEMMA FractionFcnExists ==
    ASSUME NEW f, NEW S, IsFiniteSet(S)
    PROVE  \E g : g = [T \in SUBSET S |-> FractionStep(f, g, T)]
<1> DEFINE N == {n \in Nat : \E g : g = [T \in Small(S, n) |-> FractionStep(f, g, T)]}
<1>1. \A T \in SUBSET S : IsFiniteSet(T) /\ Cardinality(T) \in Nat
      BY FS_Subset, FS_CardinalityType
<1>2. 0 \in N
  <2> DEFINE g == [T \in Small(S, 0) |-> Whole(0)]
  <2>1. \A T \in Small(S, 0) : T = {}
        BY <1>1, FS_EmptySet DEF Small
  <2>2. g = [T \in Small(S, 0) |-> FractionStep(f, g, T)]
        BY <2>1 DEF FractionStep
  <2> QED BY <2>2
<1>3. ASSUME NEW n \in Nat, n \in N PROVE n + 1 \in N
  <2>1. PICK g : g = [T \in Small(S, n) |-> FractionStep(f, g, T)]
        BY <1>3
  <2> DEFINE h == [T \in Small(S, n + 1) |-> FractionStep(f, g, T)]
  <2>2. ASSUME NEW T \in Small(S, n + 1) PROVE FractionStep(f, g, T) = FractionStep(f, h, T)
    <3>1. CASE T = {}
          BY <3>1 DEF FractionStep
    <3>2. CASE T # {}
      <4> DEFINE U == T \ {Pick(T)}
      <4>1. U \in SUBSET S /\ Cardinality(U) <= n /\ Cardinality(U) \in Nat
            BY <1>1, <3>2, PickOne DEF Small
      <4>2. U \in Small(S, n) /\ U \in Small(S, n + 1)
            BY <4>1 DEF Small
      <4> HIDE DEF U
      <4>3. g[U] = FractionStep(f, g, U) /\ h[U] = FractionStep(f, g, U)
            BY <2>1, <4>2
      <4>4. g[U] = h[U]
            BY <4>3
      <4> HIDE DEF h
      <4> QED BY <4>4 DEF FractionStep, U
    <3> QED BY <3>1, <3>2
  <2>3. h = [T \in Small(S, n + 1) |-> FractionStep(f, h, T)]
        BY <2>2
  <2> HIDE DEF h
  <2>4. \E hh : hh = [T \in Small(S, n + 1) |-> FractionStep(f, hh, T)]
        BY <2>3
  <2> QED BY <2>4
<1>4. Nat \subseteq N
  <2> HIDE DEF N
  <2> QED BY <1>2, <1>3, SetInduction
<1>5. PICK g : g = [T \in Small(S, Cardinality(S)) |-> FractionStep(f, g, T)]
      BY <1>4, FS_CardinalityType
<1>6. Small(S, Cardinality(S)) = SUBSET S
      BY FS_Subset DEF Small
<1> QED BY <1>5, <1>6

LEMMA FractionFcnType ==
    ASSUME NEW S, IsFiniteSet(S), NEW f, \A x \in S : f[x] \in Fracs
    PROVE  FractionFcn(f, S)[S] \in Fracs
<1> DEFINE g == FractionFcn(f, S)
           Good == {T \in SUBSET S : g[T] \in Fracs}
<1>0. g = [T \in SUBSET S |-> FractionStep(f, g, T)]
      BY FractionFcnExists DEF FractionFcn
<1> HIDE DEF g
<1>1. ASSUME NEW T \in SUBSET S, \A U \in SUBSET T : U # T => U \in Good
      PROVE  T \in Good
  <2>1. IsFiniteSet(T)
        BY FS_Subset
  <2>2. g[T] = FractionStep(f, g, T)
        BY <1>0
  <2>3. CASE T = {}
        BY <2>2, <2>3, WholeType DEF FractionStep
  <2>4. CASE T # {}
    <3>1. Pick(T) \in T /\ T \ {Pick(T)} \in SUBSET T /\ T \ {Pick(T)} # T
          BY <2>1, <2>4, PickOne
    <3>2. g[T \ {Pick(T)}] \in Fracs /\ f[Pick(T)] \in Fracs
          BY <1>1, <3>1
    <3>3. Plus(f[Pick(T)], g[T \ {Pick(T)}]) \in Fracs
          BY <3>2, ArithmeticTypes
    <3> QED BY <2>2, <2>4, <3>3 DEF FractionStep
  <2> QED BY <2>3, <2>4
<1>2. SUBSET S \subseteq Good
  <2> HIDE DEF Good
  <2> QED BY <1>1, SubsetInduction
<1> QED BY <1>2 DEF g

LEMMA FractionTotals ==
    ASSUME NEW held, NEW S \in SUBSET Conids
    PROVE  /\ TotalFraction(LAMBDA c : held[c].realized, S) = FractionFcn(Realizeds(held), S)[S]
           /\ TotalFraction(LAMBDA c : held[c].unrealized, S) = FractionFcn(Unrealizeds(held), S)[S]
<1>1. TotalFraction(LAMBDA c : held[c].realized, S) = FractionFcn(Realizeds(held), S)[S]
      BY ZenonT(60) DEF TotalFraction, MapThenFoldSet, FractionFcn, FractionStep, Pick, Realizeds
<1>2. TotalFraction(LAMBDA c : held[c].unrealized, S) = FractionFcn(Unrealizeds(held), S)[S]
      BY ZenonT(60) DEF TotalFraction, MapThenFoldSet, FractionFcn, FractionStep, Pick, Unrealizeds
<1> QED BY <1>1, <1>2

LEMMA ValueTotals ==
    ASSUME NEW held, NEW S \in SUBSET Conids
    PROVE  /\ MapThenSumSet(LAMBDA c : held[c].marketValue, S) = SumOver(Values(held), S)
           /\ MapThenSumSet(LAMBDA c : Absolute(held[c].marketValue), S) = SumOver(Sizes(held), S)
<1>1. MapThenSumSet(LAMBDA c : held[c].marketValue, S) = SumOver(Values(held), S)
      BY ZenonT(60) DEF MapThenSumSet, MapThenFoldSet, SumOver, SumFcn, SumStep, Pick, Values
<1>2. MapThenSumSet(LAMBDA c : Absolute(held[c].marketValue), S) = SumOver(Sizes(held), S)
      BY ZenonT(60) DEF MapThenSumSet, MapThenFoldSet, SumOver, SumFcn, SumStep, Pick, Sizes
<1> QED BY <1>1, <1>2

LEMMA RevaluedTells ==
    ASSUME NEW k \in Int, NEW held \in [Conids -> PositionRecords]
    PROVE  /\ Revalued(k, held) \in SnapshotRecords
           /\ Revalued(k, held).cash = k
           /\ Revalued(k, held).netLiq = k + SumOver(Values(held), PositionsFor(held))
           /\ Revalued(k, held).exposure = SumOver(Sizes(held), PositionsFor(held))
<1> DEFINE open == PositionsFor(held)
           worth == SumOver(Values(held), open)
           size == SumOver(Sizes(held), open)
           real == FractionFcn(Realizeds(held), open)[open]
           unreal == FractionFcn(Unrealizeds(held), open)[open]
<1>1. open \in SUBSET Conids /\ IsFiniteSet(open)
      BY AccountBooksAssumption, FS_Subset DEF PositionsFor
<1>2. \A c \in open : /\ held[c].marketValue \in Int
                      /\ held[c].realized \in Fracs /\ held[c].unrealized \in Fracs
      BY <1>1 DEF PositionRecords
<1> HIDE DEF open
<1>3. \A c \in open : Values(held)[c] \in Int /\ Sizes(held)[c] \in Nat
      BY <1>1, <1>2 DEF Values, Sizes, Absolute
<1>4. \A c \in open : Realizeds(held)[c] \in Fracs /\ Unrealizeds(held)[c] \in Fracs
      BY <1>1, <1>2 DEF Realizeds, Unrealizeds
<1>5. worth \in Int
      BY <1>1, <1>3, SumType
<1>6. size \in Nat
      BY <1>1, <1>3, SumNatural
<1>7. real \in Fracs
      BY <1>1, <1>4, FractionFcnType
<1>8. unreal \in Fracs
      BY <1>1, <1>4, FractionFcnType
<1>9. Revalued(k, held) = [cash |-> k, netLiq |-> k + worth, realized |-> real,
                           unrealized |-> unreal, exposure |-> size]
  <2>1. /\ MapThenSumSet(LAMBDA c : held[c].marketValue, open) = worth
        /\ MapThenSumSet(LAMBDA c : Absolute(held[c].marketValue), open) = size
        BY <1>1, ValueTotals
  <2>2. /\ TotalFraction(LAMBDA c : held[c].realized, open) = real
        /\ TotalFraction(LAMBDA c : held[c].unrealized, open) = unreal
        BY <1>1, FractionTotals
  <2> HIDE DEF worth, size, real, unreal
  <2>3. Revalued(k, held) =
            [cash |-> k,
             netLiq |-> k + MapThenSumSet(LAMBDA c : held[c].marketValue, open),
             realized |-> TotalFraction(LAMBDA c : held[c].realized, open),
             unrealized |-> TotalFraction(LAMBDA c : held[c].unrealized, open),
             exposure |-> MapThenSumSet(LAMBDA c : Absolute(held[c].marketValue), open)]
        BY DEF Revalued, open
  <2> QED BY <2>1, <2>2, <2>3
<1> HIDE DEF worth, size, real, unreal
<1>10. Revalued(k, held) \in SnapshotRecords
       BY <1>5, <1>6, <1>7, <1>8, <1>9 DEF SnapshotRecords
<1> QED BY <1>9, <1>10 DEF worth, size, open

-------------------------------------------------------------------------------
(* What an execution and a marking leave                                     *)

After(current, e, last) ==
    LET new == current.position + SignedQuantity(e.side, e.qty)
        avgCost == AvgCost(current, e) IN
    [position |-> new, avgCost |-> avgCost, marketPrice |-> last,
     marketValue |-> new * last * Multiplier[e.conid],
     realized |-> Realized(current, e),
     unrealized |-> Unrealized(new, avgCost, last)]

Marked(p, last) ==
    [p EXCEPT !.marketPrice = last, !.marketValue = p.position * last,
              !.unrealized = Unrealized(p.position, p.avgCost, last)]

LEMMA UnrealizedType ==
    ASSUME NEW q \in Int, NEW avg \in Fracs, NEW last \in Int
    PROVE  Unrealized(q, avg, last) \in Fracs
<1>1. Whole(0) \in Fracs /\ Whole(last) \in Fracs
      BY WholeType
<1>2. Minus(Whole(last), avg) \in Fracs
      BY <1>1, ArithmeticTypes
<1>3. Scale(q, Minus(Whole(last), avg)) \in Fracs
      BY <1>2, ArithmeticTypes
<1> QED BY <1>1, <1>3 DEF Unrealized

LEMMA AvgCostType ==
    ASSUME NEW p \in PositionRecords, NEW e \in Executions
    PROVE  AvgCost(p, e) \in Fracs
<1> DEFINE old == p.position
           signed == SignedQuantity(e.side, e.qty)
           new == old + signed
           sum == Plus(Scale(Absolute(old), p.avgCost), Whole(e.price * Absolute(signed)))
<1>1. old \in Int /\ p.avgCost \in Fracs /\ e.qty \in Nat /\ e.price \in Nat
      BY DEF PositionRecords, Executions
<1>2. signed \in Int /\ new \in Int
      BY <1>1 DEF SignedQuantity
<1> HIDE DEF old, signed, new
<1>3. /\ Absolute(old) \in Nat /\ Absolute(signed) \in Nat
      /\ new # 0 => Absolute(new) \in Nat \ {0}
      BY <1>1, <1>2 DEF Absolute
<1>4. e.price * Absolute(signed) \in Int
      BY <1>1, <1>3
<1>5. Scale(Absolute(old), p.avgCost) \in Fracs /\ Whole(e.price * Absolute(signed)) \in Fracs
  <2>1. Absolute(old) \in Int
        BY <1>3
  <2> QED BY <1>1, <1>4, <2>1, ArithmeticTypes, WholeType
<1>6. sum \in Fracs
      BY <1>5, ArithmeticTypes
<1>7. new # 0 => DividedBy(sum, Absolute(new)) \in Fracs
      BY <1>3, <1>6, ArithmeticTypes
<1>8. Whole(0) \in Fracs /\ Whole(e.price) \in Fracs
      BY <1>1, WholeType
<1>9. \/ AvgCost(p, e) \in {Whole(0), p.avgCost, Whole(e.price)}
      \/ new # 0 /\ AvgCost(p, e) = DividedBy(sum, Absolute(new))
  <2> HIDE DEF sum
  <2>1. AvgCost(p, e) =
          CASE new = 0 -> Whole(0)
            [] new # 0 /\ Opens(old, signed) -> DividedBy(sum, Absolute(new))
            [] new # 0 /\ ~Opens(old, signed) /\ (old > 0) = (new > 0) -> p.avgCost
            [] OTHER -> Whole(e.price)
        BY DEF AvgCost, old, signed, new, sum
  <2> QED BY <2>1
<1> QED BY <1>1, <1>7, <1>8, <1>9

LEMMA RealizedType ==
    ASSUME NEW p \in PositionRecords, NEW e \in Executions
    PROVE  Realized(p, e) \in Fracs
<1> DEFINE old == p.position
           signed == SignedQuantity(e.side, e.qty)
           perUnit == IF old > 0 THEN Minus(Whole(e.price), p.avgCost)
                                 ELSE Minus(p.avgCost, Whole(e.price))
           closed == ClosedQuantity(old, signed)
<1>1. /\ old \in Int /\ p.avgCost \in Fracs /\ p.realized \in Fracs
      /\ e.qty \in Nat /\ e.price \in Nat /\ e.commission \in Nat
      BY DEF PositionRecords, Executions
<1>2. signed \in Int
      BY <1>1 DEF SignedQuantity
<1>3. Whole(e.price) \in Fracs /\ Whole(e.commission) \in Fracs
      BY <1>1, WholeType
<1>4. perUnit \in Fracs
      BY <1>1, <1>3, ArithmeticTypes
<1> HIDE DEF old, signed
<1>5. closed \in Int
      BY <1>1, <1>2 DEF ClosedQuantity, Smaller, Absolute
<1> HIDE DEF perUnit, closed
<1>6. Scale(closed, perUnit) \in Fracs
      BY <1>4, <1>5, ArithmeticTypes
<1>7. Plus(p.realized, Scale(closed, perUnit)) \in Fracs
      BY <1>1, <1>6, ArithmeticTypes
<1>8. Minus(Plus(p.realized, Scale(closed, perUnit)), Whole(e.commission)) \in Fracs
      BY <1>3, <1>7, ArithmeticTypes
<1>9. Realized(p, e) = IF Opens(old, signed) THEN p.realized
                       ELSE Minus(Plus(p.realized, Scale(closed, perUnit)), Whole(e.commission))
      BY DEF Realized, old, signed, closed, perUnit
<1> QED BY <1>1, <1>8, <1>9

LEMMA AfterType ==
    ASSUME NEW p \in PositionRecords, NEW e \in Executions, NEW last \in Prices
    PROVE  After(p, e, last) \in PositionRecords
<1> DEFINE new == p.position + SignedQuantity(e.side, e.qty)
           avg == AvgCost(p, e)
           value == new * last * Multiplier[e.conid]
<1>1. /\ p.position \in Int /\ e.qty \in Nat /\ last \in Nat
      /\ Multiplier[e.conid] \in Nat
      BY AccountBooksAssumption DEF PositionRecords, Executions
<1>2. new \in Int
      BY <1>1 DEF SignedQuantity
<1>3. avg \in Fracs /\ Realized(p, e) \in Fracs
      BY AvgCostType, RealizedType
<1>4. After(p, e, last) = [position |-> new, avgCost |-> avg, marketPrice |-> last,
                           marketValue |-> value, realized |-> Realized(p, e),
                           unrealized |-> Unrealized(new, avg, last)]
      BY DEF After
<1> HIDE DEF new, avg
<1>5. value \in Int
      BY <1>1, <1>2
<1>6. Unrealized(new, avg, last) \in Fracs
      BY <1>1, <1>2, <1>3, UnrealizedType
<1> HIDE DEF value
<1> QED BY <1>2, <1>3, <1>4, <1>5, <1>6 DEF PositionRecords

LEMMA MarkedType ==
    ASSUME NEW p \in PositionRecords, NEW last \in Prices
    PROVE  /\ Marked(p, last) \in PositionRecords
           /\ Marked(p, last).position = p.position
           /\ Marked(p, last).avgCost = p.avgCost
           /\ Marked(p, last).realized = p.realized
           /\ Marked(p, last).marketPrice = last
           /\ Marked(p, last).marketValue = p.position * last
           /\ Marked(p, last).unrealized = Unrealized(p.position, p.avgCost, last)
<1>1. p.position \in Int /\ p.avgCost \in Fracs /\ last \in Nat
      BY AccountBooksAssumption DEF PositionRecords
<1>2. p.position * last \in Int /\ Unrealized(p.position, p.avgCost, last) \in Fracs
      BY <1>1, UnrealizedType
<1> QED BY <1>2 DEF Marked, PositionRecords

LEMMA CommissionIsNatural ==
    ASSUME NEW quantity \in Nat, NEW price \in Nat
    PROVE  EstimateCommission(quantity, price) \in Nat
<1>1. quantity * Dollar \in Nat /\ quantity * price \in Nat /\ Dollar \in Nat
      BY DollarAssumption
<1>2. (quantity * Dollar) \div 200 \in Nat /\ (quantity * price) \div 100 \in Nat
      BY <1>1
<1> QED BY <1>1, <1>2 DEF EstimateCommission, Larger, Smaller

\* The books after an execution, and nothing else has changed.
LEMMA ExecutionLeaves ==
    ASSUME Types, NEW e \in Executions, NEW last \in Prices, ApplyExecution(e, last)
    PROVE  LET a == e.account
               c == e.conid
               k == snapshots[a].cash + CashDelta(e.side, e.qty, e.price, e.commission) IN
           /\ positions' \in [Accounts -> [Conids -> PositionRecords]]
           /\ positions'[a][c] = After(positions[a][c], e, last)
           /\ \A b \in Accounts, d \in Conids :
                  b # a \/ d # c => positions'[b][d] = positions[b][d]
           /\ \A b \in Accounts : b # a => positions'[b] = positions[b]
           /\ k \in Int /\ snapshots'[a] = Revalued(k, positions'[a])
           /\ \A b \in Accounts : b # a => snapshots'[b] = snapshots[b]
           /\ snapshots' \in [Accounts -> SnapshotRecords]
           /\ trades' = Append(trades, e) /\ trades' \in Seq(Executions)
<1> DEFINE a == e.account
           c == e.conid
           current == positions[a][c]
           p == After(current, e, last)
           k == snapshots[a].cash + CashDelta(e.side, e.qty, e.price, e.commission)
<1>1. a \in Accounts /\ c \in Conids /\ e.qty \in Nat /\ e.price \in Nat /\ e.commission \in Nat
      BY DEF Executions
<1>2. current \in PositionRecords /\ snapshots[a] \in SnapshotRecords
      BY <1>1 DEF Types
<1>3. p \in PositionRecords
      BY <1>2, AfterType
<1>4. /\ positions' = [positions EXCEPT ![a][c] = p]
      /\ snapshots' = [snapshots EXCEPT ![a] = Revalued(k, positions'[a])]
      /\ trades' = Append(trades, e)
      BY DEF ApplyExecution, After
<1>5. k \in Int
  <2>1. snapshots[a].cash \in Int
        BY <1>2 DEF SnapshotRecords
  <2>2. CashDelta(e.side, e.qty, e.price, e.commission) \in Int
        BY <1>1 DEF CashDelta
  <2> QED BY <2>1, <2>2
<1> HIDE DEF p, k, current, a, c
<1>6. positions' = [positions EXCEPT ![a] = [positions[a] EXCEPT ![c] = p]]
      BY <1>4
<1>7. [positions[a] EXCEPT ![c] = p] \in [Conids -> PositionRecords]
      BY <1>1, <1>3 DEF Types
<1>8. /\ positions' \in [Accounts -> [Conids -> PositionRecords]]
      /\ positions'[a] = [positions[a] EXCEPT ![c] = p]
      /\ \A b \in Accounts : b # a => positions'[b] = positions[b]
      BY <1>1, <1>6, <1>7 DEF Types
<1>9. /\ positions'[a][c] = p
      /\ \A d \in Conids : d # c => positions'[a][d] = positions[a][d]
      BY <1>1, <1>8 DEF Types
<1>10. positions'[a] \in [Conids -> PositionRecords]
       BY <1>1, <1>8
<1>11. Revalued(k, positions'[a]) \in SnapshotRecords
       BY <1>5, <1>10, RevaluedTells
<1>12. /\ snapshots' \in [Accounts -> SnapshotRecords]
       /\ snapshots'[a] = Revalued(k, positions'[a])
       /\ \A b \in Accounts : b # a => snapshots'[b] = snapshots[b]
       BY <1>1, <1>4, <1>11 DEF Types
<1>13. trades' \in Seq(Executions)
       BY <1>4, AppendProperties DEF Types
<1> QED BY <1>4, <1>5, <1>8, <1>9, <1>12, <1>13 DEF p, k, current, a, c

\* The books after a marking to market.
LEMMA MarkingLeaves ==
    ASSUME Types, NEW a \in Accounts, NEW lasts \in [PositionsFor(positions[a]) -> Prices],
           MarkToMarket(a, lasts)
    PROVE  /\ positions' \in [Accounts -> [Conids -> PositionRecords]]
           /\ \A b \in Accounts : b # a => positions'[b] = positions[b]
           /\ \A c \in Conids : \/ positions'[a][c] = positions[a][c]
                                \/ \E last \in Prices : positions'[a][c] = Marked(positions[a][c], last)
           /\ snapshots[a].cash \in Int
           /\ snapshots'[a] = Revalued(snapshots[a].cash, positions'[a])
           /\ \A b \in Accounts : b # a => snapshots'[b] = snapshots[b]
           /\ snapshots' \in [Accounts -> SnapshotRecords]
           /\ trades' = trades
<1> DEFINE open == PositionsFor(positions[a])
           held == [c \in Conids |-> IF c \notin open THEN positions[a][c]
                                     ELSE Marked(positions[a][c], lasts[c])]
           k == snapshots[a].cash
<1>1. \A c \in Conids : positions[a][c] \in PositionRecords
      BY DEF Types
<1>2. open \in SUBSET Conids /\ DOMAIN lasts = open
      BY DEF PositionsFor
<1>3. /\ positions' = [positions EXCEPT ![a] = held]
      /\ snapshots' = [snapshots EXCEPT ![a] = Revalued(k, positions'[a])]
      /\ trades' = trades
      BY <1>2 DEF MarkToMarket, Marked
<1>4. k \in Int
      BY DEF Types, SnapshotRecords
<1>5. \A c \in open : lasts[c] \in Prices
      OBVIOUS
<1> HIDE DEF open
<1>6. \A c \in open : Marked(positions[a][c], lasts[c]) \in PositionRecords
      BY <1>1, <1>2, <1>5, MarkedType
<1>7. held \in [Conids -> PositionRecords]
      BY <1>1, <1>6
<1>8. \A c \in Conids : \/ held[c] = positions[a][c]
                        \/ \E last \in Prices : held[c] = Marked(positions[a][c], last)
      BY <1>5
<1> HIDE DEF held, k
<1>9. /\ positions' \in [Accounts -> [Conids -> PositionRecords]]
      /\ positions'[a] = held
      /\ \A b \in Accounts : b # a => positions'[b] = positions[b]
      BY <1>3, <1>7 DEF Types
<1>10. Revalued(k, held) \in SnapshotRecords
       BY <1>4, <1>7, RevaluedTells
<1>11. /\ snapshots' \in [Accounts -> SnapshotRecords]
       /\ snapshots'[a] = Revalued(k, held)
       /\ \A b \in Accounts : b # a => snapshots'[b] = snapshots[b]
       BY <1>3, <1>9, <1>10 DEF Types
<1> QED BY <1>3, <1>4, <1>8, <1>9, <1>11 DEF k

\* Every step that changes the books is an execution or a marking.
LEMMA StepCases ==
    ASSUME Types, Next
    PROVE  \/ \E e \in Executions, last \in Prices : ApplyExecution(e, last)
           \/ \E a \in Accounts : \E lasts \in [PositionsFor(positions[a]) -> Prices] :
                  MarkToMarket(a, lasts)
<1>1. ASSUME NEW a \in Accounts, NEW c \in Conids, NEW side \in Sides, NEW qty \in Quantities,
             NEW price \in Prices, NEW last \in Prices,
             ApplyExecution([account |-> a, conid |-> c, side |-> side, qty |-> qty, price |-> price,
                             commission |-> EstimateCommission(qty, price)], last)
      PROVE  \E e \in Executions, l \in Prices : ApplyExecution(e, l)
  <2> DEFINE e == [account |-> a, conid |-> c, side |-> side, qty |-> qty, price |-> price,
                   commission |-> EstimateCommission(qty, price)]
  <2>1. qty \in Nat /\ price \in Nat \ {0}
        BY AccountBooksAssumption
  <2>2. e \in Executions
        BY <2>1, CommissionIsNatural DEF Executions
  <2>3. ApplyExecution(e, last)
        BY <1>1
  <2> HIDE DEF e
  <2> QED BY <2>2, <2>3
<1> QED BY <1>1 DEF Next

LEMMA InitTypes == Init => Types
<1> SUFFICES ASSUME Init PROVE Types
    OBVIOUS
<1>1. Flat \in PositionRecords
      BY WholeType DEF Flat, PositionRecords
<1>2. positions \in [Accounts -> [Conids -> PositionRecords]]
      BY <1>1 DEF Init
<1>3. InitialCash \in Int
      BY AccountBooksAssumption
<1>4. \A a \in Accounts : Revalued(InitialCash, positions[a]) \in SnapshotRecords
      BY <1>2, <1>3, RevaluedTells
<1>5. snapshots \in [Accounts -> SnapshotRecords]
      BY <1>4 DEF Init
<1>6. trades \in Seq(Executions)
      BY EmptySeq DEF Init
<1> QED BY <1>2, <1>5, <1>6 DEF Types

LEMMA TypesStep == Types /\ [Next]_vars => Types'
<1> SUFFICES ASSUME Types, [Next]_vars PROVE Types'
    OBVIOUS
<1>1. ASSUME NEW e \in Executions, NEW last \in Prices, ApplyExecution(e, last)
      PROVE  Types'
      BY <1>1, ExecutionLeaves DEF Types
<1>2. ASSUME NEW a \in Accounts, NEW lasts \in [PositionsFor(positions[a]) -> Prices],
             MarkToMarket(a, lasts)
      PROVE  Types'
  <2>1. trades' \in Seq(Executions)
        BY <1>2, MarkingLeaves DEF Types
  <2> QED BY <1>2, <2>1, MarkingLeaves DEF Types
<1>3. CASE UNCHANGED vars
      BY <1>3 DEF Types, vars
<1> QED BY <1>1, <1>2, <1>3, StepCases

\* The books keep their types: quantities, prices and values are integers,
\* averages and profits fractions in lowest terms (accounts.py 49-123).
THEOREM AccountTypeCorrect == Spec => []TypeOK
<1>1. Spec => []Types
      BY InitTypes, TypesStep, PTL DEF Spec
<1> QED BY <1>1, TypesTell, PTL

-------------------------------------------------------------------------------
(* The snapshot is current                                                   *)

\* What is no longer held is worth nothing, and without a multiplier the rest is
\* worth its price.
ValueFits(p, multiplier) ==
    /\ p.position = 0 => p.marketValue = 0
    /\ multiplier = 1 => p.marketValue = p.position * p.marketPrice

UnrealizedFits(p) == p.unrealized = Unrealized(p.position, p.avgCost, p.marketPrice)

MarksFit == \A a \in Accounts, c \in Conids :
                /\ ValueFits(positions[a][c], Multiplier[c])
                /\ UnrealizedFits(positions[a][c])

Recomputed == \A a \in Accounts : snapshots[a] = Revalued(snapshots[a].cash, positions[a])

BooksFit == Types /\ MarksFit /\ Recomputed

LEMMA AfterFits ==
    ASSUME NEW p \in PositionRecords, NEW e \in Executions, NEW last \in Prices
    PROVE  ValueFits(After(p, e, last), Multiplier[e.conid]) /\ UnrealizedFits(After(p, e, last))
<1> DEFINE new == p.position + SignedQuantity(e.side, e.qty)
           m == Multiplier[e.conid]
<1>1. /\ After(p, e, last).position = new
      /\ After(p, e, last).marketPrice = last
      /\ After(p, e, last).marketValue = new * last * m
      /\ After(p, e, last).avgCost = AvgCost(p, e)
      /\ After(p, e, last).unrealized = Unrealized(new, AvgCost(p, e), last)
      BY DEF After
<1>2. last \in Nat /\ m \in Nat /\ p.position \in Int /\ e.qty \in Nat
      BY AccountBooksAssumption DEF Executions, PositionRecords
<1>3. new \in Int
      BY <1>2 DEF SignedQuantity
<1> HIDE DEF new, m
<1>4. /\ new = 0 => new * last * m = 0
      /\ m = 1 => new * last * m = new * last
      BY <1>2, <1>3
<1> QED BY <1>1, <1>4 DEF ValueFits, UnrealizedFits, m

LEMMA MarkedFits ==
    ASSUME NEW p \in PositionRecords, NEW last \in Prices, NEW m
    PROVE  ValueFits(Marked(p, last), m) /\ UnrealizedFits(Marked(p, last))
<1>1. p.position \in Int /\ last \in Nat
      BY AccountBooksAssumption DEF PositionRecords
<1>2. p.position = 0 => p.position * last = 0
      BY <1>1
<1> QED BY <1>2, MarkedType DEF ValueFits, UnrealizedFits

LEMMA InitFits == Init => BooksFit
<1> SUFFICES ASSUME Init PROVE BooksFit
    OBVIOUS
<1>1. Types
      BY InitTypes
<1>2. MarksFit
  <2> SUFFICES ASSUME NEW a \in Accounts, NEW c \in Conids
               PROVE  ValueFits(Flat, Multiplier[c]) /\ UnrealizedFits(Flat)
      BY DEF MarksFit, Init
  <2> QED BY DEF ValueFits, UnrealizedFits, Unrealized, Flat
<1>3. Recomputed
  <2>1. ASSUME NEW a \in Accounts
        PROVE  snapshots[a] = Revalued(snapshots[a].cash, positions[a])
    <3>1. snapshots[a] = Revalued(InitialCash, positions[a])
          BY DEF Init
    <3>2. positions[a] \in [Conids -> PositionRecords] /\ InitialCash \in Int
          BY <1>1, AccountBooksAssumption DEF Types
    <3>3. snapshots[a].cash = InitialCash
          BY <3>1, <3>2, RevaluedTells
    <3> QED BY <3>1, <3>3
  <2> QED BY <2>1 DEF Recomputed
<1> QED BY <1>1, <1>2, <1>3 DEF BooksFit

LEMMA RecomputedAgain ==
    ASSUME NEW k \in Int, NEW held \in [Conids -> PositionRecords], NEW s, s = Revalued(k, held)
    PROVE  s = Revalued(s.cash, held)
BY RevaluedTells

LEMMA FitsStep == BooksFit /\ [Next]_vars => BooksFit'
<1> SUFFICES ASSUME BooksFit, [Next]_vars PROVE BooksFit'
    OBVIOUS
<1>1. Types /\ Types'
      BY TypesStep DEF BooksFit
<1>2. MarksFit /\ Recomputed
      BY DEF BooksFit
<1>3. ASSUME NEW e \in Executions, NEW last \in Prices, ApplyExecution(e, last)
      PROVE  BooksFit'
  <2> DEFINE a == e.account
             c == e.conid
             k == snapshots[a].cash + CashDelta(e.side, e.qty, e.price, e.commission)
  <2>1. /\ positions'[a][c] = After(positions[a][c], e, last)
        /\ \A b \in Accounts, d \in Conids : b # a \/ d # c => positions'[b][d] = positions[b][d]
        /\ \A b \in Accounts : b # a => positions'[b] = positions[b]
        /\ k \in Int /\ snapshots'[a] = Revalued(k, positions'[a])
        /\ \A b \in Accounts : b # a => snapshots'[b] = snapshots[b]
        BY <1>1, <1>3, ExecutionLeaves
  <2>2. a \in Accounts /\ c \in Conids /\ positions[a][c] \in PositionRecords
        BY <1>1 DEF Executions, Types
  <2>3. ValueFits(positions'[a][c], Multiplier[c]) /\ UnrealizedFits(positions'[a][c])
        BY <2>1, <2>2, AfterFits
  <2> HIDE DEF a, c, k
  <2>4. MarksFit'
    <3> SUFFICES ASSUME NEW b \in Accounts, NEW d \in Conids
                 PROVE  ValueFits(positions'[b][d], Multiplier[d]) /\ UnrealizedFits(positions'[b][d])
        BY DEF MarksFit
    <3> QED BY <1>2, <2>1, <2>3 DEF MarksFit
  <2>5. Recomputed'
    <3> SUFFICES ASSUME NEW b \in Accounts
                 PROVE  snapshots'[b] = Revalued(snapshots'[b].cash, positions'[b])
        BY DEF Recomputed
    <3>1. CASE b # a
          BY <1>2, <2>1, <3>1 DEF Recomputed
    <3>2. CASE b = a
      <4>1. positions'[a] \in [Conids -> PositionRecords]
            BY <1>1, <2>2 DEF Types
      <4> QED BY <2>1, <3>2, <4>1, RecomputedAgain
    <3> QED BY <3>1, <3>2
  <2> QED BY <1>1, <2>4, <2>5 DEF BooksFit
<1>4. ASSUME NEW a \in Accounts, NEW lasts \in [PositionsFor(positions[a]) -> Prices],
             MarkToMarket(a, lasts)
      PROVE  BooksFit'
  <2>1. /\ \A b \in Accounts : b # a => positions'[b] = positions[b]
        /\ \A c \in Conids : \/ positions'[a][c] = positions[a][c]
                             \/ \E last \in Prices : positions'[a][c] = Marked(positions[a][c], last)
        /\ snapshots[a].cash \in Int
        /\ snapshots'[a] = Revalued(snapshots[a].cash, positions'[a])
        /\ \A b \in Accounts : b # a => snapshots'[b] = snapshots[b]
        BY <1>1, <1>4, MarkingLeaves
  <2>2. MarksFit'
    <3> SUFFICES ASSUME NEW b \in Accounts, NEW d \in Conids
                 PROVE  ValueFits(positions'[b][d], Multiplier[d]) /\ UnrealizedFits(positions'[b][d])
        BY DEF MarksFit
    <3>1. positions[b][d] \in PositionRecords
          BY <1>1 DEF Types
    <3>2. positions'[b][d] = positions[b][d]
            \/ \E last \in Prices : positions'[b][d] = Marked(positions[b][d], last)
          BY <2>1
    <3> QED BY <1>2, <3>1, <3>2, MarkedFits DEF MarksFit
  <2>3. Recomputed'
    <3> SUFFICES ASSUME NEW b \in Accounts
                 PROVE  snapshots'[b] = Revalued(snapshots'[b].cash, positions'[b])
        BY DEF Recomputed
    <3>1. CASE b # a
          BY <1>2, <2>1, <3>1 DEF Recomputed
    <3>2. CASE b = a
      <4>1. positions'[a] \in [Conids -> PositionRecords]
            BY <1>1 DEF Types
      <4> QED BY <2>1, <3>2, <4>1, RecomputedAgain
    <3> QED BY <3>1, <3>2
  <2> QED BY <1>1, <2>2, <2>3 DEF BooksFit
<1>5. CASE UNCHANGED vars
      BY <1>2, <1>5, <1>1 DEF BooksFit, MarksFit, Recomputed, vars
<1> QED BY <1>1, <1>3, <1>4, <1>5, StepCases

LEMMA BooksAlwaysFit == Spec => []BooksFit
BY InitFits, FitsStep, PTL DEF Spec

\* The net liquidation value and the exposure, over all contracts.
LEMMA SnapshotSums ==
    ASSUME NEW held \in [Conids -> PositionRecords], NEW s, s.cash \in Int,
           s = Revalued(s.cash, held), \A c \in Conids : ValueFits(held[c], Multiplier[c])
    PROVE  /\ \A c \in Conids : Values(held)[c] \in Int /\ Sizes(held)[c] \in Int
           /\ s.netLiq = s.cash + SumOver(Values(held), Conids)
           /\ s.exposure = SumOver(Sizes(held), Conids)
<1>1. /\ s.netLiq = s.cash + SumOver(Values(held), PositionsFor(held))
      /\ s.exposure = SumOver(Sizes(held), PositionsFor(held))
      BY RevaluedTells
<1>2. \A c \in Conids : held[c].position = 0 => held[c].marketValue = 0
      BY DEF ValueFits
<1>3. PositionsFor(held) \in SUBSET Conids
      BY DEF PositionsFor
<1>4. /\ \A c \in Conids : Values(held)[c] \in Int /\ Sizes(held)[c] \in Int
      /\ \A c \in Conids \ PositionsFor(held) : Values(held)[c] = 0 /\ Sizes(held)[c] = 0
      BY <1>2 DEF Values, Sizes, Absolute, PositionsFor, PositionRecords
<1>5. SumOver(Values(held), Conids) = SumOver(Values(held), PositionsFor(held))
      BY <1>3, <1>4, AccountBooksAssumption, SumWithoutZeros
<1>6. SumOver(Sizes(held), Conids) = SumOver(Sizes(held), PositionsFor(held))
      BY <1>3, <1>4, AccountBooksAssumption, SumWithoutZeros
<1> QED BY <1>1, <1>4, <1>5, <1>6

LEMMA FitMeansCurrent == BooksFit => SnapshotIsCurrent
<1> SUFFICES ASSUME BooksFit, NEW a \in Accounts
             PROVE  snapshots[a].netLiq
                      = snapshots[a].cash + Total(LAMBDA c : positions[a][c].marketValue, Conids)
    BY DEF SnapshotIsCurrent
<1>1. Total(LAMBDA c : positions[a][c].marketValue, Conids) = SumOver(Values(positions[a]), Conids)
      BY ValueTotals DEF Total
<1>2. /\ positions[a] \in [Conids -> PositionRecords] /\ snapshots[a].cash \in Int
      /\ snapshots[a] = Revalued(snapshots[a].cash, positions[a])
      /\ \A c \in Conids : ValueFits(positions[a][c], Multiplier[c])
      BY DEF BooksFit, Types, SnapshotRecords, MarksFit, Recomputed
<1> QED BY <1>1, <1>2, SnapshotSums

\* Whatever is executed or marked, the net liquidation value is cash plus the
\* value of all positions, the closed ones included (accounts.py 105-123).
THEOREM SnapshotStaysCurrent == Spec => []SnapshotIsCurrent
BY BooksAlwaysFit, FitMeansCurrent, PTL

-------------------------------------------------------------------------------
(* The preview of a purchase                                                 *)

\* The purchase the preview is meant for.
PlainPurchase(e, before, marked) ==
    /\ e.side = "BUY" /\ before.position >= 0
    /\ Multiplier[e.conid] = 1
    /\ marked = e.price
    /\ before.position # 0 => before.marketPrice = e.price

LEMMA PurchaseMoves ==
    ASSUME NEW p \in PositionRecords, NEW e \in Executions, NEW last \in Prices,
           ValueFits(p, Multiplier[e.conid]), PlainPurchase(e, p, last)
    PROVE  LET q == After(p, e, last) IN
           /\ q.marketValue - p.marketValue = e.qty * e.price
           /\ Absolute(q.marketValue) - Absolute(p.marketValue) = e.qty * e.price
<1> DEFINE old == p.position
           price == e.price
           qty == e.qty
<1>1. After(p, e, last).marketValue = (old + qty) * price * 1
      BY DEF After, PlainPurchase, SignedQuantity
<1>2. old \in Nat /\ price \in Nat /\ qty \in Nat /\ p.marketValue \in Int
      BY DEF PositionRecords, Executions, PlainPurchase
<1>3. p.marketValue = old * price
      BY <1>2 DEF ValueFits, PlainPurchase
<1> HIDE DEF old, price, qty
<1>4. (old + qty) * price * 1 = old * price + qty * price
      BY <1>2
<1>5. old * price \in Nat /\ qty * price \in Nat
      BY <1>2
<1> DEFINE x == old * price
           y == qty * price
<1>6. x \in Nat /\ y \in Nat /\ p.marketValue = x /\ After(p, e, last).marketValue = x + y
      BY <1>1, <1>3, <1>4, <1>5
<1> HIDE DEF x, y
<1>7. (x + y) - x = y /\ Absolute(x + y) - Absolute(x) = y
      BY <1>6 DEF Absolute
<1> QED BY <1>6, <1>7 DEF y, qty, price

LEMMA PreviewStep ==
    ASSUME BooksFit, BooksFit', NEW e \in Executions, NEW last \in Prices, ApplyExecution(e, last),
           PlainPurchase(e, positions[e.account][e.conid], positions'[e.account][e.conid].marketPrice)
    PROVE  LET preview == WhatIf(snapshots[e.account], e.side, e.qty, e.price)
               after == snapshots'[e.account] IN
           after.netLiq = preview.equity /\ after.exposure = preview.exposure
<1> DEFINE a == e.account
           c == e.conid
           held == positions[a]
           next == positions'[a]
           cash == snapshots[a].cash
           amount == e.qty * e.price
<1>1. Types
      BY DEF BooksFit
<1>2. a \in Accounts /\ c \in Conids /\ e.qty \in Nat /\ e.price \in Nat
      /\ e.commission \in Nat /\ e.commission = EstimateCommission(e.qty, e.price)
      BY DEF Executions
<1>3. /\ next[c] = After(held[c], e, last)
      /\ \A d \in Conids : d # c => next[d] = held[d]
      /\ cash + CashDelta(e.side, e.qty, e.price, e.commission) \in Int
      /\ snapshots'[a] = Revalued(cash + CashDelta(e.side, e.qty, e.price, e.commission), next)
      /\ next \in [Conids -> PositionRecords]
      BY <1>1, <1>2, ExecutionLeaves
<1>4. held[c] \in PositionRecords /\ cash \in Int /\ ValueFits(held[c], Multiplier[c])
      BY <1>1, <1>2 DEF BooksFit, MarksFit, Types, SnapshotRecords
<1>5. e.side = "BUY" /\ next[c].marketPrice = last /\ PlainPurchase(e, held[c], last)
      BY <1>3 DEF PlainPurchase, After
<1>6. /\ next[c].marketValue - held[c].marketValue = amount
      /\ Absolute(next[c].marketValue) - Absolute(held[c].marketValue) = amount
  <2>1. /\ After(held[c], e, last).marketValue - held[c].marketValue = amount
        /\ Absolute(After(held[c], e, last).marketValue) - Absolute(held[c].marketValue) = amount
        BY <1>4, <1>5, PurchaseMoves
  <2> QED BY <1>3, <2>1
<1>7. snapshots'[a].cash = cash + CashDelta(e.side, e.qty, e.price, e.commission)
      BY <1>3, RevaluedTells
<1>8. /\ \A d \in Conids : Values(held)[d] \in Int /\ Sizes(held)[d] \in Int
      /\ snapshots[a].netLiq = cash + SumOver(Values(held), Conids)
      /\ snapshots[a].exposure = SumOver(Sizes(held), Conids)
  <2>1. /\ held \in [Conids -> PositionRecords] /\ snapshots[a] = Revalued(snapshots[a].cash, held)
        /\ \A d \in Conids : ValueFits(held[d], Multiplier[d])
        BY <1>1, <1>2 DEF BooksFit, Types, MarksFit, Recomputed
  <2> QED BY <1>4, <2>1, SnapshotSums
<1>9. /\ \A d \in Conids : Values(next)[d] \in Int /\ Sizes(next)[d] \in Int
      /\ snapshots'[a].netLiq = snapshots'[a].cash + SumOver(Values(next), Conids)
      /\ snapshots'[a].exposure = SumOver(Sizes(next), Conids)
  <2>1. snapshots'[a].cash \in Int /\ snapshots'[a] = Revalued(snapshots'[a].cash, next)
        BY <1>3, <1>7
  <2>2. \A d \in Conids : ValueFits(next[d], Multiplier[d])
        BY <1>2 DEF BooksFit, MarksFit
  <2> HIDE DEF next
  <2> QED BY <1>3, <2>1, <2>2, SnapshotSums
<1>10. /\ \A d \in Conids \ {c} : Values(next)[d] = Values(held)[d] /\ Sizes(next)[d] = Sizes(held)[d]
       /\ Values(next)[c] - Values(held)[c] = amount
       /\ Sizes(next)[c] - Sizes(held)[c] = amount
  <2> HIDE DEF next, held, amount, c
  <2> QED BY <1>2, <1>3, <1>6 DEF Values, Sizes
<1> HIDE DEF next, held, amount, c
<1>11. /\ SumOver(Values(held), Conids) \in Int
       /\ SumOver(Values(next), Conids) = SumOver(Values(held), Conids) + amount
  <2>1. /\ SumOver(Values(held), Conids) \in Int
        /\ SumOver(Values(next), Conids)
             = SumOver(Values(held), Conids) + (Values(next)[c] - Values(held)[c])
        BY <1>2, <1>8, <1>9, <1>10, AccountBooksAssumption, SumChange
  <2> QED BY <1>10, <2>1
<1>12. /\ SumOver(Sizes(held), Conids) \in Int
       /\ SumOver(Sizes(next), Conids) = SumOver(Sizes(held), Conids) + amount
  <2>1. /\ SumOver(Sizes(held), Conids) \in Int
        /\ SumOver(Sizes(next), Conids)
             = SumOver(Sizes(held), Conids) + (Sizes(next)[c] - Sizes(held)[c])
        BY <1>2, <1>8, <1>9, <1>10, AccountBooksAssumption, SumChange
  <2> QED BY <1>10, <2>1
<1>13. CashDelta(e.side, e.qty, e.price, e.commission)
           = -(amount + EstimateCommission(e.qty, e.price)) /\ amount \in Nat
       BY <1>2, <1>5 DEF CashDelta, amount
<1>14. WhatIf(snapshots[a], e.side, e.qty, e.price).equity
           = snapshots[a].netLiq - EstimateCommission(e.qty, e.price)
       BY <1>5 DEF WhatIf
<1>15. WhatIf(snapshots[a], e.side, e.qty, e.price).exposure = snapshots[a].exposure + amount
       BY DEF WhatIf, amount
<1> DEFINE fee == EstimateCommission(e.qty, e.price)
           worth == SumOver(Values(held), Conids)
<1>16. fee \in Int /\ worth \in Int /\ cash \in Int
       BY <1>2, <1>4, <1>11
<1>17. snapshots'[a].netLiq = (cash + (-(amount + fee))) + (worth + amount)
       BY <1>7, <1>9, <1>11, <1>13
<1>18. snapshots[a].netLiq - fee = (cash + worth) - fee
       BY <1>8
<1> HIDE DEF fee, worth, cash
<1>19. snapshots'[a].netLiq = snapshots[a].netLiq - fee
       BY <1>13, <1>16, <1>17, <1>18
<1>20. snapshots'[a].exposure = snapshots[a].exposure + amount
       BY <1>8, <1>9, <1>12
<1> QED BY <1>14, <1>15, <1>19, <1>20 DEF fee

LEMMA PreviewOfEveryStep ==
    ASSUME BooksFit, BooksFit', [Next]_vars, Len(trades') > Len(trades)
    PROVE  LET e == trades'[Len(trades')]
               before == positions[e.account][e.conid]
               preview == WhatIf(snapshots[e.account], e.side, e.qty, e.price)
               after == snapshots'[e.account] IN
           /\ e.side = "BUY" /\ before.position >= 0
           /\ Multiplier[e.conid] = 1
           /\ positions'[e.account][e.conid].marketPrice = e.price
           /\ before.position # 0 => before.marketPrice = e.price
           => after.netLiq = preview.equity /\ after.exposure = preview.exposure
<1>1. Types /\ Len(trades) \in Nat /\ trades \in Seq(Executions)
      BY LenProperties DEF BooksFit, Types
<1>2. trades' # trades
      BY <1>1
<1>3. PICK e \in Executions, last \in Prices : ApplyExecution(e, last)
  <2>1. ASSUME NEW a \in Accounts, NEW lasts \in [PositionsFor(positions[a]) -> Prices],
               MarkToMarket(a, lasts)
        PROVE  trades' = trades
        BY <2>1 DEF MarkToMarket
  <2>2. Next
        BY <1>2 DEF vars
  <2> QED BY <1>1, <1>2, <2>1, <2>2, StepCases
<1>4. trades' = Append(trades, e)
      BY <1>3 DEF ApplyExecution
<1>5. trades'[Len(trades')] = e
      BY <1>1, <1>4, AppendProperties
<1> QED BY <1>3, <1>5, PreviewStep DEF PlainPurchase

\* A purchase that adds to a position marked at its price leaves exactly the
\* equity and the exposure that what_if has announced (accounts.py 125-145
\* against 49-90).
THEOREM PurchasesAreAsPreviewed == Spec => PreviewOfOpeningBuy
<1>1. ASSUME BooksFit, BooksFit', [Next]_vars
      PROVE  [Len(trades') > Len(trades) =>
                LET e == trades'[Len(trades')]
                    before == positions[e.account][e.conid]
                    preview == WhatIf(snapshots[e.account], e.side, e.qty, e.price)
                    after == snapshots'[e.account] IN
                /\ e.side = "BUY" /\ before.position >= 0
                /\ Multiplier[e.conid] = 1
                /\ positions'[e.account][e.conid].marketPrice = e.price
                /\ before.position # 0 => before.marketPrice = e.price
                => after.netLiq = preview.equity /\ after.exposure = preview.exposure]_vars
      BY <1>1, PreviewOfEveryStep
<1> QED BY <1>1, BooksAlwaysFit, PTL DEF Spec, PreviewOfOpeningBuy

-------------------------------------------------------------------------------
(* Profit and loss of one execution                                          *)

\* What a position has realized less what its shares have cost is what its
\* trades have paid out: as one equation over a common denominator.
Balanced(p, outlay) ==
    \E b \in Nat \ {0}, r \in Int, v \in Int :
        /\ Worth(p.realized, r, b) /\ Worth(p.avgCost, v, b)
        /\ r + outlay * b = p.position * v

\* What execution e adds to the outlay of a position that it found at old.
Outlay(e, old) ==
    LET signed == SignedQuantity(e.side, e.qty) IN
    signed * e.price + (IF Opens(old, signed) THEN 0 ELSE e.commission)

LEMMA OpeningBalances ==
    ASSUME NEW p \in PositionRecords, NEW e \in Executions, NEW last \in Prices,
           NEW out \in Int, Balanced(p, out), Opens(p.position, SignedQuantity(e.side, e.qty))
    PROVE  Balanced(After(p, e, last), out + Outlay(e, p.position))
<1> DEFINE old == p.position
           signed == SignedQuantity(e.side, e.qty)
           new == old + signed
           price == e.price
           q == After(p, e, last)
           k == Absolute(new)
<1>1. /\ q.position = new /\ q.realized = p.realized /\ q.avgCost = AvgCost(p, e)
      /\ Outlay(e, old) = signed * price + 0
      BY DEF After, Realized, Outlay
<1>2. old \in Int /\ signed \in Int /\ new \in Int /\ price \in Nat
      BY DEF PositionRecords, Executions, SignedQuantity
<1>3. PICK b \in Nat \ {0}, r \in Int, v \in Int :
          /\ Worth(p.realized, r, b) /\ Worth(p.avgCost, v, b)
          /\ r + out * b = old * v
      BY DEF Balanced
<1>4. Opens(old, signed)
      OBVIOUS
<1>5. AvgCost(p, e) = IF new = 0 THEN Whole(0)
                      ELSE DividedBy(Plus(Scale(Absolute(old), p.avgCost),
                                          Whole(price * Absolute(signed))), k)
      BY <1>4 DEF AvgCost
<1> HIDE DEF old, signed, q, price
<1>6. CASE new = 0
  <2>1. old = 0 /\ signed = 0
        BY <1>2, <1>4, <1>6 DEF Opens
  <2>2. Worth(Whole(0), 0, b)
    <3>1. 0 * b = 0
          OBVIOUS
    <3> QED BY <3>1, WholeWorth
  <2>3. Worth(q.realized, r, b) /\ Worth(q.avgCost, 0, b)
        BY <1>1, <1>3, <1>5, <1>6, <2>2
  <2>4. r + (out + Outlay(e, old)) * b = q.position * 0
    <3>1. r + out * b = 0
          BY <1>3, <2>1
    <3>2. out + Outlay(e, old) = out /\ q.position = 0
          BY <1>1, <1>2, <1>6, <2>1
    <3> QED BY <3>1, <3>2
  <2>5. Balanced(q, out + Outlay(e, old))
        BY <1>3, <2>3, <2>4 DEF Balanced
  <2> QED BY <2>5 DEF q, old
<1>7. CASE new # 0
  <2> DEFINE o == Absolute(old)
             s == Absolute(signed)
             x == o * v + (price * s) * b
  <2>1. /\ k \in Nat \ {0} /\ o \in Nat /\ s \in Nat
        /\ new * o = k * old /\ new * s = k * signed
    <3>1. \/ old >= 0 /\ signed >= 0 /\ new >= 0
          \/ old <= 0 /\ signed <= 0 /\ new <= 0
          BY <1>2, <1>4, <1>7 DEF Opens
    <3>2. CASE old >= 0 /\ signed >= 0 /\ new >= 0
      <4>1. o = old /\ s = signed /\ k = new
            BY <1>2, <3>2 DEF Absolute
      <4> QED BY <1>2, <1>7, <3>2, <4>1
    <3>3. CASE old <= 0 /\ signed <= 0 /\ new <= 0
      <4>1. o = -old /\ s = -signed /\ k = -new
            BY <1>2, <3>3 DEF Absolute
      <4> HIDE DEF o, s, k, new
      <4>2. new * (-old) = (-new) * old /\ new * (-signed) = (-new) * signed
            BY <1>2
      <4> QED BY <1>2, <1>7, <3>3, <4>1, <4>2
    <3> QED BY <3>1, <3>2, <3>3
  <2>2. new = old + signed
        OBVIOUS
  <2> HIDE DEF o, s, k, new
  <2>3. Worth(Scale(o, p.avgCost), o * v, b)
        BY <1>3, <2>1, ScaleWorth
  <2>4. Worth(Whole(price * s), (price * s) * b, b)
    <3>1. price * s \in Int
          BY <1>2, <2>1
    <3> QED BY <3>1, WholeWorth
  <2>5. Worth(Plus(Scale(o, p.avgCost), Whole(price * s)), x, b)
        BY <2>3, <2>4, PlusWorth
  <2>6. Worth(q.avgCost, x, b * k)
    <3> HIDE DEF x
    <3>1. Worth(DividedBy(Plus(Scale(o, p.avgCost), Whole(price * s)), k), x, b * k)
          BY <2>1, <2>5, DividedWorth
    <3> QED BY <1>1, <1>5, <1>7, <3>1 DEF o, s
  <2>7. Worth(q.realized, r * k, b * k)
        BY <1>1, <1>3, <2>1, WorthTimes
  <2>8. r * k + (out + signed * price) * (b * k) = new * x
    <3>1. new * x = (new * o) * v + (new * s) * (price * b)
          BY <1>2, <1>3, <2>1, <2>2
    <3>2. (new * o) * v + (new * s) * (price * b) = k * (old * v) + k * (signed * (price * b))
      <4>1. (k * old) * v = k * (old * v)
            BY <1>2, <1>3, <2>1
      <4>2. (k * signed) * (price * b) = k * (signed * (price * b))
            BY <1>2, <1>3, <2>1
      <4> QED BY <2>1, <4>1, <4>2
    <3>3. r * k = k * (old * v - out * b)
      <4>1. r = old * v - out * b
        <5>1. old * v \in Int /\ out * b \in Int
              BY <1>2, <1>3
        <5> QED BY <1>3, <5>1
      <4>2. old * v - out * b \in Int
            BY <1>2, <1>3
      <4> QED BY <2>1, <4>1, <4>2
    <3>4. k * (old * v - out * b) + (out + signed * price) * (b * k)
            = k * (old * v) + k * (signed * (price * b))
          BY <1>2, <1>3, <2>1
    <3> QED BY <3>1, <3>2, <3>3, <3>4
  <2>9. out + Outlay(e, old) = out + signed * price
    <3>1. signed * price \in Int
          BY <1>2
    <3> QED BY <1>1, <3>1
  <2>10. b * k \in Nat \ {0} /\ r * k \in Int /\ x \in Int
    <3>1. o * v \in Int /\ (price * s) * b \in Int
          BY <1>2, <1>3, <2>1
    <3> QED BY <1>3, <2>1, <3>1
  <2> HIDE DEF x
  <2>11. Balanced(q, out + Outlay(e, old))
    <3>1. /\ Worth(q.realized, r * k, b * k) /\ Worth(q.avgCost, x, b * k)
          /\ r * k + (out + Outlay(e, old)) * (b * k) = q.position * x
          BY <1>1, <2>6, <2>7, <2>8, <2>9
    <3> QED BY <2>10, <3>1 DEF Balanced
  <2> QED BY <2>11 DEF q, old
<1> QED BY <1>6, <1>7

LEMMA ClosingBalances ==
    ASSUME NEW p \in PositionRecords, NEW e \in Executions, NEW last \in Prices,
           NEW out \in Int, Balanced(p, out), ~Opens(p.position, SignedQuantity(e.side, e.qty))
    PROVE  Balanced(After(p, e, last), out + Outlay(e, p.position))
<1> DEFINE old == p.position
           signed == SignedQuantity(e.side, e.qty)
           new == old + signed
           price == e.price
           fee == e.commission
           q == After(p, e, last)
           closed == ClosedQuantity(old, signed)
           perUnit == IF old > 0 THEN Minus(Whole(price), p.avgCost) ELSE Minus(p.avgCost, Whole(price))
           cl == IF old > 0 THEN closed ELSE -closed
<1>1. /\ q.position = new /\ q.avgCost = AvgCost(p, e)
      /\ q.realized = Minus(Plus(p.realized, Scale(closed, perUnit)), Whole(fee))
      /\ Outlay(e, old) = signed * price + fee
      BY DEF After, Realized, Outlay
<1>2. old \in Int /\ signed \in Int /\ new \in Int /\ price \in Nat /\ fee \in Nat
      BY DEF PositionRecords, Executions, SignedQuantity
<1>3. PICK b \in Nat \ {0}, r \in Int, v \in Int :
          /\ Worth(p.realized, r, b) /\ Worth(p.avgCost, v, b)
          /\ r + out * b = old * v
      BY DEF Balanced
<1>4. ~Opens(old, signed)
      OBVIOUS
<1>5. AvgCost(p, e) = IF new = 0 THEN Whole(0)
                      ELSE IF (old > 0) = (new > 0) THEN p.avgCost ELSE Whole(price)
  <2>1. AvgCost(p, e) =
          CASE new = 0 -> Whole(0)
            [] new # 0 /\ Opens(old, signed) ->
                 DividedBy(Plus(Scale(Absolute(old), p.avgCost), Whole(price * Absolute(signed))),
                           Absolute(new))
            [] new # 0 /\ ~Opens(old, signed) /\ (old > 0) = (new > 0) -> p.avgCost
            [] OTHER -> Whole(price)
        BY DEF AvgCost
  <2> HIDE DEF old, signed, new, price
  <2> QED BY <1>4, <2>1
<1>6. /\ closed \in Nat /\ cl \in Int
      /\ new = 0 => cl = old
      /\ new # 0 /\ (old > 0) = (new > 0) => cl = -signed
      /\ new # 0 /\ (old > 0) # (new > 0) => cl = old
  <2> HIDE DEF old, signed
  <2>1. \/ old > 0 /\ signed <= 0
        \/ old < 0 /\ signed > 0
        BY <1>2, <1>4 DEF Opens
  <2>2. /\ old > 0 => Absolute(old) = old /\ Absolute(signed) = -signed
        /\ old < 0 => Absolute(old) = -old /\ Absolute(signed) = signed
        BY <1>2, <2>1 DEF Absolute
  <2> QED BY <1>2, <2>1, <2>2 DEF ClosedQuantity, Smaller
<1>7. perUnit = IF old > 0 THEN Minus(Whole(price), p.avgCost) ELSE Minus(p.avgCost, Whole(price))
      OBVIOUS
<1>8. cl = IF old > 0 THEN closed ELSE -closed
      OBVIOUS
<1>9. new = old + signed
      OBVIOUS
<1> HIDE DEF old, signed, new, price, fee, q, closed, perUnit, cl
<1> DEFINE z == price * b
           f == fee * b
<1>10. z \in Int /\ f \in Int
       BY <1>2
<1>11. Worth(Whole(price), z, b) /\ Worth(Whole(fee), f, b)
       BY <1>2, WholeWorth
<1> HIDE DEF z, f
<1>12. Worth(Scale(closed, perUnit), cl * (z - v), b)
  <2>1. CASE old > 0
    <3>1. Worth(perUnit, z - v, b)
          BY <1>3, <1>7, <1>11, <2>1, PlusWorth
    <3> QED BY <1>6, <1>8, <2>1, <3>1, ScaleWorth
  <2>2. CASE ~(old > 0)
    <3>1. Worth(perUnit, v - z, b)
          BY <1>3, <1>7, <1>11, <2>2, PlusWorth
    <3>2. Worth(Scale(closed, perUnit), closed * (v - z), b)
          BY <1>6, <3>1, ScaleWorth
    <3>3. closed * (v - z) = cl * (z - v)
          BY <1>3, <1>6, <1>8, <1>10, <2>2
    <3> QED BY <3>2, <3>3
  <2> QED BY <2>1, <2>2
<1> DEFINE y == cl * (z - v)
           r2 == (r + y) - f
<1>13. y \in Int
       BY <1>3, <1>6, <1>10
<1>14. Worth(Plus(p.realized, Scale(closed, perUnit)), r + y, b)
       BY <1>3, <1>12, PlusWorth
<1>15. Worth(q.realized, r2, b)
  <2> HIDE DEF y
  <2> QED BY <1>1, <1>11, <1>14, PlusWorth
<1> DEFINE v2 == IF new = 0 THEN 0 ELSE IF (old > 0) = (new > 0) THEN v ELSE z
<1>16. Worth(q.avgCost, v2, b)
  <2>1. Worth(Whole(0), 0, b)
    <3>1. 0 * b = 0
          OBVIOUS
    <3> QED BY <3>1, WholeWorth
  <2> QED BY <1>1, <1>3, <1>5, <1>11, <2>1
<1>17. r2 - new * v2 = ((r - old * v) - signed * z) - f
  <2>1. cl * (z - v) = cl * z - cl * v
        BY <1>3, <1>6, <1>10
  <2>2. CASE new = 0
    <3>1. cl = old /\ signed = -old /\ v2 = 0
          BY <1>2, <1>6, <1>9, <2>2
    <3>2. signed * z = -(old * z)
          BY <1>2, <1>10, <3>1
    <3>3. old * z \in Int /\ old * v \in Int
          BY <1>2, <1>3, <1>10
    <3> QED BY <1>3, <1>10, <2>1, <2>2, <3>1, <3>2, <3>3
  <2>3. CASE new # 0 /\ (old > 0) = (new > 0)
    <3>1. cl = -signed /\ v2 = v
          BY <1>6, <2>3
    <3>2. (-signed) * z = -(signed * z) /\ (-signed) * v = -(signed * v) /\ new * v = old * v + signed * v
          BY <1>2, <1>3, <1>9, <1>10
    <3>3. signed * z \in Int /\ old * v \in Int /\ signed * v \in Int
          BY <1>2, <1>3, <1>10
    <3> QED BY <1>3, <1>10, <2>1, <3>1, <3>2, <3>3
  <2>4. CASE new # 0 /\ (old > 0) # (new > 0)
    <3>1. cl = old /\ v2 = z
          BY <1>6, <2>4
    <3>2. new * z = old * z + signed * z
          BY <1>2, <1>9, <1>10
    <3>3. signed * z \in Int /\ old * v \in Int /\ old * z \in Int
          BY <1>2, <1>3, <1>10
    <3> QED BY <1>3, <1>10, <2>1, <3>1, <3>2, <3>3
  <2> QED BY <2>2, <2>3, <2>4
<1>18. (out + (signed * price + fee)) * b = (out * b + signed * z) + f
       BY <1>2 DEF z, f
<1>19. r2 \in Int /\ v2 \in Int
  <2> HIDE DEF y
  <2> QED BY <1>3, <1>10, <1>13
<1> HIDE DEF r2, v2
<1>20. r2 + (out + Outlay(e, old)) * b = new * v2
  <2>1. /\ out * b \in Int /\ old * v \in Int /\ signed * z \in Int /\ f \in Int
        /\ new * v2 \in Int
        BY <1>2, <1>3, <1>10, <1>19
  <2> DEFINE ob == out * b
             ov == old * v
             sz == signed * z
             nv == new * v2
  <2>2. /\ ob \in Int /\ ov \in Int /\ sz \in Int /\ nv \in Int
        /\ r + ob = ov /\ r2 - nv = ((r - ov) - sz) - f
        BY <1>3, <1>17, <2>1
  <2>3. (out + Outlay(e, old)) * b = (ob + sz) + f
        BY <1>1, <1>18
  <2> HIDE DEF ob, ov, sz, nv
  <2>4. r2 + ((ob + sz) + f) = nv
        BY <1>3, <1>10, <1>19, <2>2
  <2> QED BY <2>3, <2>4 DEF nv
<1>21. Balanced(q, out + Outlay(e, old))
       BY <1>1, <1>15, <1>16, <1>19, <1>20 DEF Balanced
<1> QED BY <1>21 DEF q, old

LEMMA MarkingBalances ==
    ASSUME NEW p \in PositionRecords, NEW last \in Prices, NEW out, Balanced(p, out)
    PROVE  Balanced(Marked(p, last), out)
<1>1. /\ Marked(p, last).position = p.position /\ Marked(p, last).avgCost = p.avgCost
      /\ Marked(p, last).realized = p.realized
      BY MarkedType
<1> QED BY <1>1 DEF Balanced

LEMMA FlatBalances == Balanced(Flat, 0)
<1>1. Worth(Whole(0), 0 * 1, 1)
      BY WholeWorth
<1>2. 0 * 1 = 0 /\ 0 + 0 * 1 = 0 * 0
      OBVIOUS
<1>3. 1 \in Nat \ {0} /\ 0 \in Int /\ Worth(Whole(0), 0, 1)
      BY <1>1, <1>2
<1>4. Flat.realized = Whole(0) /\ Flat.avgCost = Whole(0) /\ Flat.position = 0
      BY DEF Flat
<1> QED BY <1>2, <1>3, <1>4 DEF Balanced

LEMMA PricesAreNumbers == \A m \in Prices \cup {0} : m \in Int
BY AccountBooksAssumption

\* With what is still held at the market price, the balance is the profit.
LEMMA BalanceReconciles ==
    ASSUME NEW p \in PositionRecords, NEW out \in Int, Balanced(p, out), UnrealizedFits(p)
    PROVE  Plus(p.realized, p.unrealized) = Whole(p.position * p.marketPrice - out)
<1> DEFINE n == p.position
           m == p.marketPrice
<1>1. n \in Int /\ m \in Int
  <2>1. n \in Int /\ m \in Prices \cup {0}
        BY DEF PositionRecords
  <2> HIDE DEF m
  <2> QED BY <2>1, PricesAreNumbers
<1>2. PICK b \in Nat \ {0}, r \in Int, v \in Int :
          /\ Worth(p.realized, r, b) /\ Worth(p.avgCost, v, b)
          /\ r + out * b = n * v
      BY DEF Balanced
<1>3. p.unrealized = IF n = 0 THEN Whole(0) ELSE Scale(n, Minus(Whole(m), p.avgCost))
      BY DEF UnrealizedFits, Unrealized
<1> HIDE DEF n, m
<1>4. Worth(p.unrealized, n * (m * b - v), b)
  <2>1. CASE n = 0
    <3>1. Worth(Whole(0), 0 * b, b) /\ 0 * b = 0
          BY WholeWorth
    <3>2. n * (m * b - v) = 0
          BY <1>1, <1>2, <2>1
    <3> QED BY <1>3, <2>1, <3>1, <3>2
  <2>2. CASE n # 0
    <3>1. Worth(Whole(m), m * b, b)
          BY <1>1, WholeWorth
    <3>2. Worth(Minus(Whole(m), p.avgCost), m * b - v, b)
          BY <1>2, <3>1, PlusWorth
    <3>3. Worth(Scale(n, Minus(Whole(m), p.avgCost)), n * (m * b - v), b)
          BY <1>1, <3>2, ScaleWorth
    <3> QED BY <1>3, <2>2, <3>3
  <2> QED BY <2>1, <2>2
<1>5. r + n * (m * b - v) = (n * m - out) * b
  <2>1. n * (m * b - v) = (n * m) * b - n * v
        BY <1>1, <1>2
  <2>2. (n * m - out) * b = (n * m) * b - out * b
        BY <1>1, <1>2
  <2>3. n * v \in Int /\ out * b \in Int /\ (n * m) * b \in Int
        BY <1>1, <1>2
  <2> QED BY <1>2, <2>1, <2>2, <2>3
<1>6. n * m - out \in Int
      BY <1>1
<1> QED BY <1>2, <1>4, <1>5, <1>6, PlusWhole DEF n, m

-------------------------------------------------------------------------------
(* What the trades of a position add up to                                   *)

Signs(ts) == [i \in DOMAIN ts |-> SignedQuantity(ts[i].side, ts[i].qty)]
Paid(ts) == [i \in DOMAIN ts |-> SignedQuantity(ts[i].side, ts[i].qty) * ts[i].price]
Fees(ts) == [i \in DOMAIN ts |-> ts[i].commission]

Of(ts, a, c) == {i \in DOMAIN ts : ts[i].account = a /\ ts[i].conid = c}
Earlier(ts, i) == {j \in Of(ts, ts[i].account, ts[i].conid) : j < i}
Found(ts, i) == SumOver(Signs(ts), Earlier(ts, i))
Closing(ts, a, c) == {i \in Of(ts, a, c) : ~Opens(Found(ts, i), Signs(ts)[i])}

PaidBy(ts, a, c) == SumOver(Paid(ts), Of(ts, a, c))
FeesOf(ts, a, c) == SumOver(Fees(ts), Closing(ts, a, c))
Held(ts, a, c) == SumOver(Signs(ts), Of(ts, a, c))

LEMMA ExecutionFields ==
    ASSUME NEW ts \in Seq(Executions), NEW i \in DOMAIN ts
    PROVE  /\ i \in Nat /\ i <= Len(ts)
           /\ Signs(ts)[i] \in Int /\ Paid(ts)[i] \in Int /\ Fees(ts)[i] \in Int
<1>1. ts[i] \in Executions /\ i \in Nat /\ i <= Len(ts)
      BY ElementOfSeq, LenProperties
<1>2. ts[i].qty \in Nat /\ ts[i].price \in Nat /\ ts[i].commission \in Nat
      BY <1>1 DEF Executions
<1>3. SignedQuantity(ts[i].side, ts[i].qty) \in Int
      BY <1>2 DEF SignedQuantity
<1>4. SignedQuantity(ts[i].side, ts[i].qty) * ts[i].price \in Int
      BY <1>2, <1>3
<1> QED BY <1>1, <1>2, <1>3, <1>4 DEF Signs, Paid, Fees

LEMMA PartsAreFinite ==
    ASSUME NEW ts \in Seq(Executions), NEW S \in SUBSET DOMAIN ts
    PROVE  IsFiniteSet(S)
<1>1. DOMAIN ts = 1..Len(ts) /\ Len(ts) \in Nat
      BY LenProperties
<1>2. IsFiniteSet(1..Len(ts))
      BY <1>1, FS_Interval
<1> QED BY <1>1, <1>2, FS_Subset

\* us is the sequence of trades ts with e at the new position n.
Longer(ts, us, e, n) ==
    /\ ts \in Seq(Executions) /\ e \in Executions /\ us \in Seq(Executions)
    /\ n \in Nat /\ n \notin DOMAIN ts /\ DOMAIN us = DOMAIN ts \cup {n} /\ us[n] = e
    /\ \A i \in DOMAIN ts : us[i] = ts[i] /\ i < n /\ i \in Nat

LEMMA AppendIsLonger ==
    ASSUME NEW ts \in Seq(Executions), NEW e \in Executions
    PROVE  Longer(ts, Append(ts, e), e, Len(ts) + 1)
<1> DEFINE us == Append(ts, e)
           n == Len(ts) + 1
<1>1. Len(ts) \in Nat /\ DOMAIN ts = 1..Len(ts)
      BY LenProperties
<1>2. /\ us \in Seq(Executions) /\ Len(us) = n /\ us[n] = e
      /\ \A i \in 1..Len(ts) : us[i] = ts[i]
      BY AppendProperties
<1>3. DOMAIN us = 1..n
      BY <1>2, LenProperties
<1> HIDE DEF us
<1>4. n \in Nat /\ n \notin DOMAIN ts /\ DOMAIN us = DOMAIN ts \cup {n}
      BY <1>1, <1>3
<1>5. \A i \in DOMAIN ts : us[i] = ts[i] /\ i < n /\ i \in Nat
      BY <1>1, <1>2
<1>6. Longer(ts, us, e, n)
      BY <1>2, <1>4, <1>5 DEF Longer
<1> QED BY <1>6 DEF us

LEMMA OneMoreAgrees ==
    ASSUME NEW ts, NEW us, NEW e, NEW n, Longer(ts, us, e, n), NEW S \in SUBSET DOMAIN ts
    PROVE  /\ AgreeUpTo(n, S, Signs(ts), Signs(us))
           /\ AgreeUpTo(n, S, Paid(ts), Paid(us))
           /\ AgreeUpTo(n, S, Fees(ts), Fees(us))
<1>1. /\ us \in Seq(Executions) /\ ts \in Seq(Executions) /\ n \in DOMAIN us /\ S \subseteq DOMAIN us
      /\ \A i \in S : us[i] = ts[i] /\ i \in DOMAIN ts
      BY DEF Longer
<1>2. /\ Signs(us)[n] \in Int /\ Paid(us)[n] \in Int /\ Fees(us)[n] \in Int
      BY <1>1, ExecutionFields
<1>3. \A i \in S : Signs(ts)[i] \in Int /\ Paid(ts)[i] \in Int /\ Fees(ts)[i] \in Int
      BY <1>1, ExecutionFields
<1>4. \A i \in S : Signs(ts)[i] = Signs(us)[i] /\ Paid(ts)[i] = Paid(us)[i] /\ Fees(ts)[i] = Fees(us)[i]
      BY <1>1 DEF Signs, Paid, Fees
<1> QED BY <1>2, <1>3, <1>4 DEF AgreeUpTo

LEMMA OneMoreOf ==
    ASSUME NEW ts, NEW us, NEW e, NEW n, Longer(ts, us, e, n)
    PROVE  \A a, c : /\ GrowsBy(n, Of(ts, a, c), Of(us, a, c))
                     /\ n \in Of(us, a, c) <=> e.account = a /\ e.conid = c
                     /\ Of(us, a, c) \ {n} = Of(ts, a, c)
<1> TAKE a, c
<1>1. /\ n \notin DOMAIN ts /\ DOMAIN us = DOMAIN ts \cup {n} /\ us[n] = e
      /\ ts \in Seq(Executions)
      /\ \A i \in DOMAIN ts : us[i] = ts[i]
      BY DEF Longer
<1>2. Of(ts, a, c) \in SUBSET DOMAIN ts
      BY DEF Of
<1>3. IsFiniteSet(Of(ts, a, c)) /\ n \notin Of(ts, a, c)
      BY <1>1, <1>2, PartsAreFinite
<1>4. n \in Of(us, a, c) <=> e.account = a /\ e.conid = c
      BY <1>1 DEF Of
<1>5. Of(us, a, c) \ {n} = Of(ts, a, c)
      BY <1>1 DEF Of
<1> QED BY <1>3, <1>4, <1>5 DEF GrowsBy

LEMMA OneMoreFound ==
    ASSUME NEW ts, NEW us, NEW e, NEW n, Longer(ts, us, e, n)
    PROVE  /\ \A i \in DOMAIN ts : Found(us, i) = Found(ts, i)
           /\ Found(us, n) = Held(ts, e.account, e.conid)
<1>1. /\ n \in Nat /\ us[n] = e /\ ts \in Seq(Executions)
      /\ \A i \in DOMAIN ts : us[i] = ts[i] /\ i < n /\ i \in Nat
      BY DEF Longer
<1>2. ASSUME NEW S \in SUBSET DOMAIN ts
      PROVE  SumOver(Signs(us), S) = SumOver(Signs(ts), S)
  <2>1. IsFiniteSet(S)
        BY <1>1, PartsAreFinite
  <2>2. \A i \in S : Signs(us)[i] = Signs(ts)[i]
        BY OneMoreAgrees DEF AgreeUpTo
  <2> QED BY <2>1, <2>2, SumSame
<1>3. ASSUME NEW i \in DOMAIN ts
      PROVE  Found(us, i) = Found(ts, i)
  <2>1. us[i] = ts[i] /\ i < n /\ i \in Nat
        BY <1>1
  <2>2. Earlier(us, i) = Earlier(ts, i)
    <3> DEFINE a == ts[i].account
               c == ts[i].conid
    <3>1. Of(us, a, c) \ {n} = Of(ts, a, c)
          BY OneMoreOf
    <3>2. ~(n < i)
          BY <1>1, <2>1
    <3> QED BY <2>1, <3>1, <3>2 DEF Earlier
  <2>3. Earlier(ts, i) \in SUBSET DOMAIN ts
        BY DEF Earlier, Of
  <2> QED BY <1>2, <2>2, <2>3 DEF Found
<1>4. Found(us, n) = Held(ts, e.account, e.conid)
  <2> DEFINE S == Of(ts, e.account, e.conid)
  <2>1. S \in SUBSET DOMAIN ts
        BY DEF Of
  <2>2. Of(us, e.account, e.conid) \ {n} = S
        BY OneMoreOf
  <2>3. Earlier(us, n) = S
    <3> HIDE DEF S
    <3>1. \A i \in S : i < n
          BY <1>1, <2>1
    <3>2. ~(n < n)
          BY <1>1
    <3> QED BY <1>1, <2>2, <3>1, <3>2 DEF Earlier
  <2> QED BY <1>2, <2>1, <2>3 DEF Found, Held
<1> QED BY <1>3, <1>4

LEMMA OneMoreClosing ==
    ASSUME NEW ts, NEW us, NEW e, NEW n, Longer(ts, us, e, n)
    PROVE  \A a, c : /\ GrowsBy(n, Closing(ts, a, c), Closing(us, a, c))
                     /\ n \in Closing(us, a, c) <=>
                          /\ e.account = a /\ e.conid = c
                          /\ ~Opens(Held(ts, a, c), SignedQuantity(e.side, e.qty))
<1> TAKE a, c
<1>1. /\ n \notin DOMAIN ts /\ DOMAIN us = DOMAIN ts \cup {n} /\ us[n] = e
      /\ ts \in Seq(Executions)
      BY DEF Longer
<1>2. /\ Of(us, a, c) \ {n} = Of(ts, a, c)
      /\ n \in Of(us, a, c) <=> e.account = a /\ e.conid = c
      BY OneMoreOf
<1>3. Of(ts, a, c) \in SUBSET DOMAIN ts
      BY DEF Of
<1>4. \A i \in Of(ts, a, c) : Found(us, i) = Found(ts, i) /\ Signs(us)[i] = Signs(ts)[i]
      BY <1>3, OneMoreFound, OneMoreAgrees DEF AgreeUpTo
<1>5. Signs(us)[n] = SignedQuantity(e.side, e.qty)
      BY <1>1 DEF Signs
<1>6. Found(us, n) = Held(ts, e.account, e.conid)
      BY OneMoreFound
<1>7. Closing(us, a, c) \ {n} = Closing(ts, a, c)
      BY <1>2, <1>4 DEF Closing
<1>8. n \in Closing(us, a, c) <=>
          /\ e.account = a /\ e.conid = c
          /\ ~Opens(Held(ts, a, c), SignedQuantity(e.side, e.qty))
      BY <1>2, <1>5, <1>6 DEF Closing
<1>9. Closing(ts, a, c) \in SUBSET DOMAIN ts
      BY <1>3 DEF Closing
<1>10. IsFiniteSet(Closing(ts, a, c)) /\ n \notin Closing(ts, a, c)
       BY <1>1, <1>9, PartsAreFinite
<1> QED BY <1>7, <1>8, <1>10 DEF GrowsBy

\* A trade adds its shares and its outlay to its own position only.
LEMMA TradeAdds ==
    ASSUME NEW ts, NEW us, NEW e, NEW n, Longer(ts, us, e, n), NEW a, NEW c
    PROVE  LET mine == e.account = a /\ e.conid = c
               held == Held(ts, a, c)
               out == PaidBy(ts, a, c) + FeesOf(ts, a, c) IN
           /\ held \in Int /\ PaidBy(ts, a, c) \in Int /\ FeesOf(ts, a, c) \in Int
           /\ Held(us, a, c) = held + (IF mine THEN SignedQuantity(e.side, e.qty) ELSE 0)
           /\ PaidBy(us, a, c) + FeesOf(us, a, c) = out + (IF mine THEN Outlay(e, held) ELSE 0)
<1> DEFINE signed == SignedQuantity(e.side, e.qty)
           mine == e.account = a /\ e.conid = c
           opens == Opens(Held(ts, a, c), signed)
           paid == PaidBy(ts, a, c)
           fees == FeesOf(ts, a, c)
           held == Held(ts, a, c)
<1>1. /\ n \in DOMAIN us /\ us[n] = e /\ e \in Executions
      BY DEF Longer
<1>2. /\ Signs(us)[n] = signed /\ Paid(us)[n] = signed * e.price /\ Fees(us)[n] = e.commission
      BY <1>1 DEF Signs, Paid, Fees
<1>3. Of(ts, a, c) \in SUBSET DOMAIN ts /\ Closing(ts, a, c) \in SUBSET DOMAIN ts
      BY DEF Of, Closing
<1>4. /\ GrowsBy(n, Of(ts, a, c), Of(us, a, c))
      /\ n \in Of(us, a, c) <=> mine
      BY OneMoreOf
<1>5. /\ GrowsBy(n, Closing(ts, a, c), Closing(us, a, c))
      /\ n \in Closing(us, a, c) <=> mine /\ ~opens
      BY OneMoreClosing
<1>6. /\ AgreeUpTo(n, Of(ts, a, c), Signs(ts), Signs(us))
      /\ AgreeUpTo(n, Of(ts, a, c), Paid(ts), Paid(us))
      /\ AgreeUpTo(n, Closing(ts, a, c), Fees(ts), Fees(us))
      BY <1>3, OneMoreAgrees
<1> HIDE DEF signed, mine, opens
<1>7. /\ held \in Int
      /\ Held(us, a, c) = held + (IF n \in Of(us, a, c) THEN Signs(us)[n] ELSE 0)
      BY <1>4, <1>6, SumGrows DEF Held
<1>8. /\ paid \in Int
      /\ PaidBy(us, a, c) = paid + (IF n \in Of(us, a, c) THEN Paid(us)[n] ELSE 0)
      BY <1>4, <1>6, SumGrows DEF PaidBy
<1>9. /\ fees \in Int
      /\ FeesOf(us, a, c) = fees + (IF n \in Closing(us, a, c) THEN Fees(us)[n] ELSE 0)
      BY <1>5, <1>6, SumGrows DEF FeesOf
<1>10. Outlay(e, held) = signed * e.price + (IF opens THEN 0 ELSE e.commission)
       BY DEF Outlay, opens, signed
<1>11. signed * e.price \in Int /\ e.commission \in Int
  <2>1. e.qty \in Nat /\ e.price \in Nat /\ e.commission \in Nat
        BY <1>1 DEF Executions
  <2>2. signed \in Int
        BY <2>1 DEF SignedQuantity, signed
  <2> QED BY <2>1, <2>2
<1> HIDE DEF held, paid, fees
<1>12. Held(us, a, c) = held + (IF mine THEN signed ELSE 0)
       BY <1>2, <1>4, <1>7
<1>13. PaidBy(us, a, c) + FeesOf(us, a, c) = (paid + fees) + (IF mine THEN Outlay(e, held) ELSE 0)
  <2>1. CASE ~mine
        BY <1>4, <1>5, <1>8, <1>9, <2>1
  <2>2. CASE mine /\ opens
        BY <1>2, <1>4, <1>5, <1>8, <1>9, <1>10, <1>11, <2>2
  <2>3. CASE mine /\ ~opens
        BY <1>2, <1>4, <1>5, <1>8, <1>9, <1>10, <1>11, <2>3
  <2> QED BY <2>1, <2>2, <2>3
<1> QED BY <1>7, <1>8, <1>9, <1>12, <1>13 DEF held, paid, fees, mine, signed

-------------------------------------------------------------------------------
(* Profit and loss reconcile                                                 *)

\* The position is what its trades add up to, and its balance is their outlay.
Reconciled(p, ts, a, c) ==
    /\ p.position = Held(ts, a, c)
    /\ Balanced(p, PaidBy(ts, a, c) + FeesOf(ts, a, c))

AllReconciled ==
    \A a \in Accounts, c \in Conids : Reconciled(positions[a][c], trades, a, c)

LEMMA InitReconciled == Init => AllReconciled
<1> SUFFICES ASSUME Init, NEW a \in Accounts, NEW c \in Conids
             PROVE  Reconciled(positions[a][c], trades, a, c)
    BY DEF AllReconciled
<1>1. positions[a][c] = Flat /\ trades = <<>>
      BY DEF Init
<1>2. DOMAIN trades = {}
      BY <1>1, EmptySeq
<1>3. Of(trades, a, c) = {} /\ Closing(trades, a, c) = {}
      BY <1>2 DEF Of, Closing
<1>4. /\ Held(trades, a, c) = 0 /\ PaidBy(trades, a, c) = 0 /\ FeesOf(trades, a, c) = 0
      BY <1>3, SumEmpty DEF Held, PaidBy, FeesOf
<1>5. Flat.position = 0 /\ 0 + 0 = 0
      BY DEF Flat
<1> QED BY <1>1, <1>4, <1>5, FlatBalances DEF Reconciled

LEMMA ReconciledStep == BooksFit /\ AllReconciled /\ [Next]_vars => AllReconciled'
<1> SUFFICES ASSUME BooksFit, AllReconciled, [Next]_vars,
                    NEW b \in Accounts, NEW d \in Conids
             PROVE  Reconciled(positions'[b][d], trades', b, d)
    BY DEF AllReconciled
<1>1. /\ Types /\ positions[b][d] \in PositionRecords
      /\ Reconciled(positions[b][d], trades, b, d)
      BY DEF BooksFit, Types, AllReconciled
<1>2. ASSUME NEW e \in Executions, NEW last \in Prices, ApplyExecution(e, last)
      PROVE  Reconciled(positions'[b][d], trades', b, d)
  <2> DEFINE p == positions[b][d]
             q == positions'[b][d]
             mine == e.account = b /\ e.conid = d
             signed == SignedQuantity(e.side, e.qty)
             held == Held(trades, b, d)
             out == PaidBy(trades, b, d) + FeesOf(trades, b, d)
  <2>1. Longer(trades, trades', e, Len(trades) + 1)
    <3>1. trades \in Seq(Executions) /\ trades' = Append(trades, e)
          BY <1>1, <1>2 DEF Types, ApplyExecution
    <3> QED BY <3>1, AppendIsLonger
  <2>2. /\ held \in Int /\ PaidBy(trades, b, d) \in Int /\ FeesOf(trades, b, d) \in Int
        /\ Held(trades', b, d) = held + (IF mine THEN signed ELSE 0)
        /\ PaidBy(trades', b, d) + FeesOf(trades', b, d) = out + (IF mine THEN Outlay(e, held) ELSE 0)
        BY <2>1, TradeAdds
  <2>3. out \in Int
        BY <2>2
  <2>4. p.position = held /\ Balanced(p, out) /\ p \in PositionRecords
        BY <1>1 DEF Reconciled
  <2>5. CASE ~mine
    <3>1. q = p
          BY <1>1, <1>2, <2>5, ExecutionLeaves
    <3>2. Held(trades', b, d) = held
          BY <2>2, <2>5
    <3>3. PaidBy(trades', b, d) + FeesOf(trades', b, d) = out
      <4> HIDE DEF out
      <4> QED BY <2>2, <2>3, <2>5
    <3> QED BY <2>4, <3>1, <3>2, <3>3 DEF Reconciled
  <2>6. CASE mine
    <3>1. q = After(p, e, last)
          BY <1>1, <1>2, <2>6, ExecutionLeaves
    <3>2. q.position = p.position + signed
          BY <3>1 DEF After
    <3>3. Balanced(q, out + Outlay(e, p.position))
      <4> HIDE DEF p, out, signed
      <4>1. CASE Opens(p.position, SignedQuantity(e.side, e.qty))
            BY <2>3, <2>4, <3>1, <4>1, OpeningBalances
      <4>2. CASE ~Opens(p.position, SignedQuantity(e.side, e.qty))
            BY <2>3, <2>4, <3>1, <4>2, ClosingBalances
      <4> QED BY <4>1, <4>2
    <3> HIDE DEF q, p, out, signed, held
    <3> QED BY <2>2, <2>4, <2>6, <3>2, <3>3 DEF Reconciled, q
  <2> QED BY <2>5, <2>6
<1>3. ASSUME NEW a \in Accounts, NEW lasts \in [PositionsFor(positions[a]) -> Prices],
             MarkToMarket(a, lasts)
      PROVE  Reconciled(positions'[b][d], trades', b, d)
  <2>1. trades' = trades
        BY <1>3 DEF MarkToMarket
  <2>2. \/ positions'[b][d] = positions[b][d]
        \/ \E last \in Prices : positions'[b][d] = Marked(positions[b][d], last)
        BY <1>1, <1>3, MarkingLeaves
  <2>3. CASE positions'[b][d] = positions[b][d]
        BY <1>1, <2>1, <2>3
  <2>4. ASSUME NEW last \in Prices, positions'[b][d] = Marked(positions[b][d], last)
        PROVE  Reconciled(positions'[b][d], trades', b, d)
        BY <1>1, <2>1, <2>4, MarkedType, MarkingBalances DEF Reconciled
  <2> QED BY <2>2, <2>3, <2>4
<1>4. CASE UNCHANGED vars
      BY <1>1, <1>4 DEF vars
<1> QED BY <1>1, <1>2, <1>3, <1>4, StepCases

\* The sums of the property are these sums.
LEMMA SignedTotal ==
    ASSUME NEW S \in SUBSET DOMAIN trades
    PROVE  Total(Signed, S) = SumOver(Signs(trades), S)
BY ZenonT(60) DEF Total, Signed, MapThenSumSet, MapThenFoldSet, SumOver, SumFcn, SumStep, Pick, Signs

LEMMA PaidTotal ==
    ASSUME NEW S \in SUBSET DOMAIN trades
    PROVE  Total(LAMBDA i : Signed(i) * trades[i].price, S) = SumOver(Paid(trades), S)
BY ZenonT(60) DEF Total, Signed, MapThenSumSet, MapThenFoldSet, SumOver, SumFcn, SumStep, Pick, Paid

LEMMA FeesTotal ==
    ASSUME NEW S \in SUBSET DOMAIN trades
    PROVE  Total(LAMBDA i : trades[i].commission, S) = SumOver(Fees(trades), S)
BY ZenonT(60) DEF Total, MapThenSumSet, MapThenFoldSet, SumOver, SumFcn, SumStep, Pick, Fees

LEMMA TradesOfAre ==
    ASSUME NEW a, NEW c
    PROVE  /\ TradesOf(a, c) = Of(trades, a, c)
           /\ {i \in TradesOf(a, c) : ~Opens(PositionBefore(i), Signed(i))} = Closing(trades, a, c)
<1>1. TradesOf(a, c) = Of(trades, a, c)
      BY DEF TradesOf, Of
<1>2. ASSUME NEW i \in Of(trades, a, c)
      PROVE  Opens(PositionBefore(i), Signed(i)) = Opens(Found(trades, i), Signs(trades)[i])
  <2> DEFINE S == {j \in TradesOf(trades[i].account, trades[i].conid) : j < i}
  <2>1. S = Earlier(trades, i) /\ S \in SUBSET DOMAIN trades
        BY DEF Earlier, TradesOf, Of
  <2>2. PositionBefore(i) = Total(Signed, S)
        BY DEF PositionBefore
  <2> HIDE DEF S
  <2>3. PositionBefore(i) = Found(trades, i)
        BY <2>1, <2>2, SignedTotal DEF Found
  <2>4. Signed(i) = Signs(trades)[i]
        BY DEF Signed, Signs, Of
  <2> QED BY <2>3, <2>4
<1> QED BY <1>1, <1>2 DEF Closing

LEMMA ReconciledMeansReconciles == BooksFit /\ AllReconciled => PnLReconciles
<1> SUFFICES ASSUME BooksFit, AllReconciled, NEW a \in Accounts, NEW c \in Conids
             PROVE  LET p == positions[a][c]
                        mine == TradesOf(a, c)
                        closing == {i \in mine : ~Opens(PositionBefore(i), Signed(i))} IN
                    Plus(p.realized, p.unrealized)
                      = Whole(p.position * p.marketPrice
                                - Total(LAMBDA i : Signed(i) * trades[i].price, mine)
                                - Total(LAMBDA i : trades[i].commission, closing))
    BY DEF PnLReconciles
<1> DEFINE p == positions[a][c]
           paid == PaidBy(trades, a, c)
           fees == FeesOf(trades, a, c)
           mine == TradesOf(a, c)
           closing == {i \in mine : ~Opens(PositionBefore(i), Signed(i))}
           value == p.position * p.marketPrice
<1>1. /\ p \in PositionRecords /\ UnrealizedFits(p) /\ trades \in Seq(Executions)
      BY DEF BooksFit, Types, MarksFit
<1>2. Balanced(p, paid + fees)
      BY DEF AllReconciled, Reconciled
<1>3. mine = Of(trades, a, c) /\ closing = Closing(trades, a, c)
      BY TradesOfAre
<1>4. Of(trades, a, c) \in SUBSET DOMAIN trades /\ Closing(trades, a, c) \in SUBSET DOMAIN trades
      BY DEF Of, Closing
<1> HIDE DEF mine, closing
<1>5. Total(LAMBDA i : Signed(i) * trades[i].price, mine) = paid
      BY <1>3, <1>4, PaidTotal DEF PaidBy
<1>6. Total(LAMBDA i : trades[i].commission, closing) = fees
      BY <1>3, <1>4, FeesTotal DEF FeesOf
<1>7. paid \in Int /\ fees \in Int
  <2>1. IsFiniteSet(Of(trades, a, c)) /\ IsFiniteSet(Closing(trades, a, c))
        BY <1>1, <1>4, PartsAreFinite
  <2>2. /\ \A i \in Of(trades, a, c) : Paid(trades)[i] \in Int
        /\ \A i \in Closing(trades, a, c) : Fees(trades)[i] \in Int
        BY <1>1, <1>4, ExecutionFields
  <2>3. paid \in Int
        BY <2>1, <2>2, SumType DEF PaidBy
  <2>4. fees \in Int
        BY <2>1, <2>2, SumType DEF FeesOf
  <2> QED BY <2>3, <2>4
<1>8. p.position \in Int /\ p.marketPrice \in Int
  <2>1. p.position \in Int /\ p.marketPrice \in Prices \cup {0}
        BY <1>1 DEF PositionRecords
  <2> HIDE DEF p
  <2> QED BY <2>1, PricesAreNumbers
<1> HIDE DEF paid, fees
<1>9. Plus(p.realized, p.unrealized) = Whole(value - (paid + fees))
  <2>1. paid + fees \in Int
        BY <1>7
  <2> HIDE DEF p
  <2> QED BY <1>1, <1>2, <2>1, BalanceReconciles
<1>10. value - (paid + fees) = value - paid - fees
  <2>1. value \in Int
    <3> HIDE DEF p
    <3> QED BY <1>8
  <2> HIDE DEF value
  <2> QED BY <1>7, <2>1
<1> HIDE DEF value
<1>11. Plus(p.realized, p.unrealized)
         = Whole(value - Total(LAMBDA i : Signed(i) * trades[i].price, mine)
                       - Total(LAMBDA i : trades[i].commission, closing))
       BY <1>5, <1>6, <1>9, <1>10
<1> QED BY <1>11 DEF value, p, mine, closing

\* Through any sequence of adds, partial closes, flips, zero-size executions and
\* markings, a position's realized and unrealized profit are exactly what its
\* trades paid out, less the fees of those that close, plus what is still held
\* at the market price (accounts.py 53-67, 75-77, 98-101).
THEOREM ProfitAlwaysReconciles == Spec => []PnLReconciles
<1>1. Spec => []AllReconciled
      BY BooksAlwaysFit, InitReconciled, ReconciledStep, PTL DEF Spec
<1> QED BY <1>1, BooksAlwaysFit, ReconciledMeansReconciles, PTL

-------------------------------------------------------------------------------
(* The average cost is between the prices paid                               *)

SideOf(q) == IF q > 0 THEN "BUY" ELSE "SELL"

\* Execution e traded something on the side of a position of q.
OnSide(e, q) == e.side = SideOf(q) /\ e.qty > 0

\* g is the average of o units at f and s units at the price.
IsAverage(g, f, o, s, price) ==
    /\ f \in Fracs /\ o \in Nat /\ s \in Nat /\ o + s > 0 /\ price \in Nat
    /\ g = DividedBy(Plus(Scale(o, f), Whole(price * s)), o + s)

\* A weighted average is no lower and no higher than both of what it averages.
LEMMA WeightedAverage ==
    ASSUME NEW f, NEW o, NEW s, NEW price, NEW g, IsAverage(g, f, o, s, price)
    PROVE  /\ \A lo \in Int : o > 0 /\ AtMost(Whole(lo), f) =>
                  AtMost(Whole(lo), g) \/ (s > 0 /\ AtMost(Whole(price), g))
           /\ \A hi \in Int : o > 0 /\ AtMost(f, Whole(hi)) =>
                  AtMost(g, Whole(hi)) \/ (s > 0 /\ AtMost(g, Whole(price)))
           /\ o = 0 => AtMost(Whole(price), g) /\ AtMost(g, Whole(price))
<1> DEFINE v == f.n
           b == f.d
           k == o + s
           x == o * v + (price * s) * b
<1>0. /\ f \in Fracs /\ o \in Nat /\ s \in Nat /\ o + s > 0 /\ price \in Nat
      /\ g = DividedBy(Plus(Scale(o, f), Whole(price * s)), o + s)
      BY DEF IsAverage
<1>1. v \in Int /\ b \in Nat \ {0} /\ k \in Nat \ {0}
      BY <1>0 DEF Fracs
<1>2. Worth(f, v, b)
  <2>1. v * b = v * b
        OBVIOUS
  <2> QED BY <1>1 DEF Worth, IsFraction
<1> HIDE DEF v, b
<1>3. Worth(Scale(o, f), o * v, b)
      BY <1>0, <1>2, ScaleWorth
<1>4. Worth(Whole(price * s), (price * s) * b, b)
  <2>1. price * s \in Int
        BY <1>0
  <2> QED BY <1>1, <2>1, WholeWorth
<1>5. Worth(Plus(Scale(o, f), Whole(price * s)), x, b)
      BY <1>3, <1>4, PlusWorth
<1>6. Worth(g, x, b * k)
  <2> HIDE DEF x, k
  <2>1. Worth(DividedBy(Plus(Scale(o, f), Whole(price * s)), k), x, b * k)
        BY <1>1, <1>5, DividedWorth
  <2> QED BY <1>0, <2>1 DEF k
<1>7. \A m \in Int : /\ AtMost(Whole(m), f) <=> m * b <= v
                     /\ AtMost(f, Whole(m)) <=> v <= m * b
      BY <1>2, WorthCompares
<1>8. \A m \in Int : /\ AtMost(Whole(m), g) <=> m * (b * k) <= x
                     /\ AtMost(g, Whole(m)) <=> x <= m * (b * k)
  <2> HIDE DEF x, k
  <2> QED BY <1>6, WorthCompares
<1>9. k = o + s
      OBVIOUS
<1> DEFINE z == price * b
<1>10. z \in Int /\ x = o * v + s * z /\ price \in Int
       BY <1>0, <1>1
<1>11. \A m \in Int : m * (b * k) = o * (m * b) + s * (m * b)
       BY <1>0, <1>1, <1>9
<1>12. \A y, w \in Int : y <= w => o * y <= o * w /\ s * y <= s * w
       BY <1>0
<1>13. \A m \in Int : /\ m * b \in Int
                      /\ m <= price => m * b <= z
                      /\ price <= m => z <= m * b
       BY <1>0, <1>1
<1>14. \A y \in Int : o * y \in Int /\ s * y \in Int
       BY <1>0
<1>15. price * b = z
       OBVIOUS
<1> HIDE DEF x, k, z
<1>16. ASSUME NEW m \in Int, o > 0, AtMost(Whole(m), f)
       PROVE  AtMost(Whole(m), g) \/ (s > 0 /\ AtMost(Whole(price), g))
  <2> DEFINE y == m * b
  <2>1. y \in Int /\ y <= v /\ o * y <= o * v
        BY <1>1, <1>7, <1>12, <1>13, <1>16
  <2>2. m * (b * k) = o * y + s * y /\ price * (b * k) = o * z + s * z
        BY <1>10, <1>11, <1>15
  <2>3. CASE m <= price \/ s = 0
    <3>1. s * y <= s * z
      <4>1. CASE m <= price
            BY <1>10, <1>12, <1>13, <2>1, <4>1
      <4>2. CASE s = 0
            BY <1>0, <1>10, <2>1, <4>2
      <4> QED BY <2>3, <4>1, <4>2
    <3> HIDE DEF y
    <3>2. m * (b * k) <= x
          BY <1>0, <1>1, <1>10, <1>14, <2>1, <2>2, <3>1
    <3> QED BY <1>8, <3>2
  <2>4. CASE ~(m <= price) /\ s # 0
    <3>1. z <= y
          BY <1>10, <1>13, <2>4
    <3> HIDE DEF y
    <3>2. o * z <= o * v
          BY <1>1, <1>10, <1>12, <2>1, <3>1
    <3>3. price * (b * k) <= x
          BY <1>0, <1>1, <1>10, <1>14, <2>1, <2>2, <3>2
    <3> QED BY <1>0, <1>8, <1>10, <2>4, <3>3
  <2> QED BY <2>3, <2>4
<1>17. ASSUME NEW m \in Int, o > 0, AtMost(f, Whole(m))
       PROVE  AtMost(g, Whole(m)) \/ (s > 0 /\ AtMost(g, Whole(price)))
  <2> DEFINE y == m * b
  <2>1. y \in Int /\ v <= y /\ o * v <= o * y
        BY <1>1, <1>7, <1>12, <1>13, <1>17
  <2>2. m * (b * k) = o * y + s * y /\ price * (b * k) = o * z + s * z
        BY <1>10, <1>11, <1>15
  <2>3. CASE price <= m \/ s = 0
    <3>1. s * z <= s * y
      <4>1. CASE price <= m
            BY <1>10, <1>12, <1>13, <2>1, <4>1
      <4>2. CASE s = 0
            BY <1>0, <1>10, <2>1, <4>2
      <4> QED BY <2>3, <4>1, <4>2
    <3> HIDE DEF y
    <3>2. x <= m * (b * k)
          BY <1>0, <1>1, <1>10, <1>14, <2>1, <2>2, <3>1
    <3> QED BY <1>8, <3>2
  <2>4. CASE ~(price <= m) /\ s # 0
    <3>1. y <= z
          BY <1>10, <1>13, <2>4
    <3> HIDE DEF y
    <3>2. o * v <= o * z
          BY <1>1, <1>10, <1>12, <2>1, <3>1
    <3>3. x <= price * (b * k)
          BY <1>0, <1>1, <1>10, <1>14, <2>1, <2>2, <3>2
    <3> QED BY <1>0, <1>8, <1>10, <2>4, <3>3
  <2> QED BY <2>3, <2>4
<1>18. ASSUME o = 0
       PROVE  AtMost(Whole(price), g) /\ AtMost(g, Whole(price))
  <2>1. price * (b * k) = o * z + s * z
        BY <1>10, <1>11, <1>15
  <2>2. o * z = 0 /\ o * v = 0
        BY <1>0, <1>1, <1>10, <1>18
  <2>3. price * (b * k) = x /\ x \in Int
        BY <1>10, <1>14, <2>1, <2>2
  <2> QED BY <1>8, <1>10, <2>3
<1> QED BY <1>16, <1>17, <1>18

\* What an execution makes of the average cost: it keeps to the old bounds or to
\* the price of the execution itself.
LEMMA AverageStep ==
    ASSUME NEW p \in PositionRecords, NEW e \in Executions, NEW last \in Prices,
           NEW q, q = After(p, e, last), q.position # 0
    PROVE  LET kept == p.position # 0 /\ SideOf(p.position) = SideOf(q.position)
               mine == OnSide(e, q.position) IN
           /\ \A lo \in Int : kept /\ AtMost(Whole(lo), p.avgCost) =>
                  AtMost(Whole(lo), q.avgCost) \/ (mine /\ AtMost(Whole(e.price), q.avgCost))
           /\ \A hi \in Int : kept /\ AtMost(p.avgCost, Whole(hi)) =>
                  AtMost(q.avgCost, Whole(hi)) \/ (mine /\ AtMost(q.avgCost, Whole(e.price)))
           /\ ~kept => /\ mine
                       /\ AtMost(Whole(e.price), q.avgCost) /\ AtMost(q.avgCost, Whole(e.price))
<1> DEFINE old == p.position
           signed == SignedQuantity(e.side, e.qty)
           new == old + signed
           price == e.price
           kept == old # 0 /\ SideOf(old) = SideOf(new)
           mine == OnSide(e, new)
           o == Absolute(old)
           s == Absolute(signed)
           avg == p.avgCost
           avg2 == q.avgCost
<1>1. q.position = new /\ avg2 = AvgCost(p, e) /\ new # 0
      BY DEF After
<1>2. /\ old \in Int /\ e.side \in {"BUY", "SELL"} /\ e.qty \in Nat /\ price \in Nat
      /\ avg \in Fracs
      BY DEF PositionRecords, Executions, Sides
<1>3. signed = (IF e.side = "BUY" THEN e.qty ELSE -e.qty)
      BY DEF SignedQuantity
<1>4. AvgCost(p, e) =
        CASE new = 0 -> Whole(0)
          [] new # 0 /\ Opens(old, signed) ->
               DividedBy(Plus(Scale(o, avg), Whole(price * s)), Absolute(new))
          [] new # 0 /\ ~Opens(old, signed) /\ (old > 0) = (new > 0) -> avg
          [] OTHER -> Whole(price)
      BY DEF AvgCost
<1>5. new = old + signed
      OBVIOUS
<1> HIDE DEF old, signed, new, price, avg, avg2
<1>6. signed \in Int /\ new \in Int
      BY <1>2, <1>3, <1>5
<1>7. o \in Nat /\ s \in Nat /\ (old # 0 <=> o > 0)
      BY <1>2, <1>6 DEF Absolute
<1>8. CASE Opens(old, signed)
  <2>1. \/ old >= 0 /\ signed >= 0 /\ new > 0
        \/ old <= 0 /\ signed <= 0 /\ new < 0
        BY <1>1, <1>2, <1>5, <1>6, <1>8 DEF Opens
  <2>2. Absolute(new) = o + s /\ o + s > 0
        BY <1>2, <1>6, <1>5, <2>1 DEF Absolute
  <2>3. IsAverage(avg2, avg, o, s, price)
    <3>1. avg2 = DividedBy(Plus(Scale(o, avg), Whole(price * s)), o + s)
          BY <1>1, <1>4, <1>8, <2>2
    <3> HIDE DEF o, s
    <3> QED BY <1>2, <1>7, <2>2, <3>1 DEF IsAverage
  <2>4. s > 0 => mine
        BY <1>2, <1>3, <1>6, <2>1 DEF Absolute, OnSide, SideOf
  <2>5. o = 0 => s > 0
        BY <1>7, <2>2
  <2>6. kept <=> o > 0
    <3>1. old # 0 => SideOf(old) = SideOf(new)
          BY <1>2, <1>6, <2>1 DEF SideOf
    <3> HIDE DEF o
    <3> QED BY <1>7, <3>1
  <2> HIDE DEF o, s, mine, kept
  <2>7. /\ \A lo \in Int : o > 0 /\ AtMost(Whole(lo), avg) =>
               AtMost(Whole(lo), avg2) \/ (s > 0 /\ AtMost(Whole(price), avg2))
        /\ \A hi \in Int : o > 0 /\ AtMost(avg, Whole(hi)) =>
               AtMost(avg2, Whole(hi)) \/ (s > 0 /\ AtMost(avg2, Whole(price)))
        /\ o = 0 => AtMost(Whole(price), avg2) /\ AtMost(avg2, Whole(price))
        BY <1>2, <1>7, <2>2, <2>3, WeightedAverage
  <2>8. ~kept => o = 0
        BY <1>7, <2>6
  <2>9. /\ \A lo \in Int : kept /\ AtMost(Whole(lo), avg) =>
               AtMost(Whole(lo), avg2) \/ (mine /\ AtMost(Whole(price), avg2))
        /\ \A hi \in Int : kept /\ AtMost(avg, Whole(hi)) =>
               AtMost(avg2, Whole(hi)) \/ (mine /\ AtMost(avg2, Whole(price)))
        /\ ~kept => mine /\ AtMost(Whole(price), avg2) /\ AtMost(avg2, Whole(price))
        BY <2>4, <2>5, <2>6, <2>7, <2>8
  <2> QED BY <1>1, <2>9 DEF kept, mine, avg, avg2, price, old
<1>9. CASE ~Opens(old, signed) /\ (old > 0) = (new > 0)
  <2>1. avg2 = avg
        BY <1>1, <1>4, <1>9
  <2>2. kept
        BY <1>1, <1>2, <1>6, <1>9 DEF Opens, SideOf
  <2> HIDE DEF o, s, mine, kept
  <2>3. /\ \A lo \in Int : kept /\ AtMost(Whole(lo), avg) =>
               AtMost(Whole(lo), avg2) \/ (mine /\ AtMost(Whole(price), avg2))
        /\ \A hi \in Int : kept /\ AtMost(avg, Whole(hi)) =>
               AtMost(avg2, Whole(hi)) \/ (mine /\ AtMost(avg2, Whole(price)))
        /\ ~kept => mine /\ AtMost(Whole(price), avg2) /\ AtMost(avg2, Whole(price))
        BY <2>1, <2>2
  <2> QED BY <1>1, <2>3 DEF kept, mine, avg, avg2, price, old
<1>10. CASE ~Opens(old, signed) /\ (old > 0) # (new > 0)
  <2>1. avg2 = Whole(price)
        BY <1>1, <1>4, <1>10
  <2>2. ~kept
        BY <1>1, <1>2, <1>6, <1>10 DEF SideOf
  <2>3. \/ old > 0 /\ signed < 0 /\ new < 0
        \/ old < 0 /\ signed > 0 /\ new > 0
        BY <1>1, <1>2, <1>5, <1>6, <1>10 DEF Opens
  <2>4. mine
        BY <1>2, <1>3, <1>6, <2>3 DEF OnSide, SideOf
  <2>5. AtMost(Whole(price), avg2) /\ AtMost(avg2, Whole(price))
        BY <1>2, <2>1 DEF AtMost, Whole
  <2> HIDE DEF o, s, mine, kept
  <2>6. /\ \A lo \in Int : kept /\ AtMost(Whole(lo), avg) =>
               AtMost(Whole(lo), avg2) \/ (mine /\ AtMost(Whole(price), avg2))
        /\ \A hi \in Int : kept /\ AtMost(avg, Whole(hi)) =>
               AtMost(avg2, Whole(hi)) \/ (mine /\ AtMost(avg2, Whole(price)))
        /\ ~kept => mine /\ AtMost(Whole(price), avg2) /\ AtMost(avg2, Whole(price))
        BY <2>2, <2>4, <2>5
  <2> QED BY <1>1, <2>6 DEF kept, mine, avg, avg2, price, old
<1> QED BY <1>8, <1>9, <1>10

\* Trades on the side of the position, one no dearer and one no cheaper than its
\* average cost.
Bracketed(p, ts, a, c) ==
    p.position # 0 =>
        /\ \E i \in Of(ts, a, c) : OnSide(ts[i], p.position) /\ AtMost(Whole(ts[i].price), p.avgCost)
        /\ \E i \in Of(ts, a, c) : OnSide(ts[i], p.position) /\ AtMost(p.avgCost, Whole(ts[i].price))

AllBracketed == \A a \in Accounts, c \in Conids : Bracketed(positions[a][c], trades, a, c)

LEMMA BracketedWhenLonger ==
    ASSUME NEW ts, NEW us, NEW e, NEW n, Longer(ts, us, e, n), NEW a, NEW c, NEW p,
           Bracketed(p, ts, a, c)
    PROVE  Bracketed(p, us, a, c)
<1>1. \A i \in Of(ts, a, c) : us[i] = ts[i]
      BY DEF Longer, Of
<1>2. \A i \in Of(ts, a, c) : i \in Of(us, a, c)
      BY OneMoreOf
<1> QED BY <1>1, <1>2 DEF Bracketed

LEMMA BracketedAfter ==
    ASSUME NEW ts, NEW us, NEW e, NEW n, Longer(ts, us, e, n), NEW last \in Prices,
           NEW p \in PositionRecords, Bracketed(p, ts, e.account, e.conid)
    PROVE  Bracketed(After(p, e, last), us, e.account, e.conid)
<1> DEFINE a == e.account
           c == e.conid
           q == After(p, e, last)
           side == OnSide(e, q.position)
<1>1. e \in Executions /\ us[n] = e /\ n \in Of(us, a, c)
      BY OneMoreOf DEF Longer
<1>2. \A i \in Of(ts, a, c) : ts[i].price \in Int
  <2>1. \A i \in Of(ts, a, c) : ts[i] \in Executions
        BY ElementOfSeq DEF Longer, Of
  <2> QED BY <2>1 DEF Executions
<1>3. Bracketed(p, us, a, c)
      BY BracketedWhenLonger
<1>4. \A i \in Of(us, a, c) : us[i].price \in Int
  <2>1. \A i \in Of(us, a, c) : us[i] \in Executions
        BY ElementOfSeq DEF Longer, Of
  <2> QED BY <2>1 DEF Executions
<1> HIDE DEF a, c, q
<1>5. SUFFICES ASSUME q.position # 0
               PROVE  /\ \E i \in Of(us, a, c) :
                            OnSide(us[i], q.position) /\ AtMost(Whole(us[i].price), q.avgCost)
                      /\ \E i \in Of(us, a, c) :
                            OnSide(us[i], q.position) /\ AtMost(q.avgCost, Whole(us[i].price))
      BY DEF Bracketed, q, a, c
<1> DEFINE kept == p.position # 0 /\ SideOf(p.position) = SideOf(q.position)
<1>6. /\ \A lo \in Int : kept /\ AtMost(Whole(lo), p.avgCost) =>
             AtMost(Whole(lo), q.avgCost) \/ (side /\ AtMost(Whole(e.price), q.avgCost))
      /\ \A hi \in Int : kept /\ AtMost(p.avgCost, Whole(hi)) =>
             AtMost(q.avgCost, Whole(hi)) \/ (side /\ AtMost(q.avgCost, Whole(e.price)))
      /\ ~kept => /\ side
                  /\ AtMost(Whole(e.price), q.avgCost) /\ AtMost(q.avgCost, Whole(e.price))
  <2>1. q = After(p, e, last)
        BY DEF q
  <2> QED BY <1>1, <1>5, <2>1, AverageStep
<1>7. CASE ~kept
      BY <1>1, <1>6, <1>7
<1>8. CASE kept
  <2>1. \A x : OnSide(x, p.position) => OnSide(x, q.position)
        BY <1>8 DEF OnSide
  <2>2. PICK i \in Of(us, a, c) : OnSide(us[i], p.position) /\ AtMost(Whole(us[i].price), p.avgCost)
        BY <1>3, <1>8 DEF Bracketed
  <2>3. PICK j \in Of(us, a, c) : OnSide(us[j], p.position) /\ AtMost(p.avgCost, Whole(us[j].price))
        BY <1>3, <1>8 DEF Bracketed
  <2>4. \E m \in Of(us, a, c) : OnSide(us[m], q.position) /\ AtMost(Whole(us[m].price), q.avgCost)
    <3>1. us[i].price \in Int /\ OnSide(us[i], q.position)
          BY <1>4, <2>1, <2>2
    <3>2. AtMost(Whole(us[i].price), q.avgCost) \/ (side /\ AtMost(Whole(e.price), q.avgCost))
          BY <1>6, <1>8, <2>2, <3>1
    <3> QED BY <1>1, <3>1, <3>2
  <2>5. \E m \in Of(us, a, c) : OnSide(us[m], q.position) /\ AtMost(q.avgCost, Whole(us[m].price))
    <3>1. us[j].price \in Int /\ OnSide(us[j], q.position)
          BY <1>4, <2>1, <2>3
    <3>2. AtMost(q.avgCost, Whole(us[j].price)) \/ (side /\ AtMost(q.avgCost, Whole(e.price)))
          BY <1>6, <1>8, <2>3, <3>1
    <3> QED BY <1>1, <3>1, <3>2
  <2> QED BY <2>4, <2>5
<1> QED BY <1>7, <1>8

LEMMA InitBracketed == Init => AllBracketed
BY DEF Init, AllBracketed, Bracketed, Flat

LEMMA BracketedStep == Types /\ AllBracketed /\ [Next]_vars => AllBracketed'
<1> SUFFICES ASSUME Types, AllBracketed, [Next]_vars, NEW b \in Accounts, NEW d \in Conids
             PROVE  Bracketed(positions'[b][d], trades', b, d)
    BY DEF AllBracketed
<1>1. /\ positions[b][d] \in PositionRecords /\ trades \in Seq(Executions)
      /\ Bracketed(positions[b][d], trades, b, d)
      BY DEF Types, AllBracketed
<1>2. ASSUME NEW e \in Executions, NEW last \in Prices, ApplyExecution(e, last)
      PROVE  Bracketed(positions'[b][d], trades', b, d)
  <2>1. Longer(trades, trades', e, Len(trades) + 1)
    <3>1. trades' = Append(trades, e)
          BY <1>2 DEF ApplyExecution
    <3> QED BY <1>1, <3>1, AppendIsLonger
  <2>2. CASE e.account = b /\ e.conid = d
    <3>1. positions'[b][d] = After(positions[b][d], e, last)
          BY <1>2, <2>2, ExecutionLeaves
    <3>2. Bracketed(After(positions[b][d], e, last), trades', e.account, e.conid)
          BY <1>1, <2>1, <2>2, BracketedAfter
    <3> QED BY <2>2, <3>1, <3>2
  <2>3. CASE ~(e.account = b /\ e.conid = d)
    <3>1. positions'[b][d] = positions[b][d]
          BY <1>2, <2>3, ExecutionLeaves
    <3> QED BY <1>1, <2>1, <3>1, BracketedWhenLonger
  <2> QED BY <2>2, <2>3
<1>3. ASSUME NEW a \in Accounts, NEW lasts \in [PositionsFor(positions[a]) -> Prices],
             MarkToMarket(a, lasts)
      PROVE  Bracketed(positions'[b][d], trades', b, d)
  <2>1. trades' = trades
        BY <1>3 DEF MarkToMarket
  <2>2. \/ positions'[b][d] = positions[b][d]
        \/ \E last \in Prices : positions'[b][d] = Marked(positions[b][d], last)
        BY <1>3, MarkingLeaves
  <2>3. positions'[b][d].position = positions[b][d].position
        /\ positions'[b][d].avgCost = positions[b][d].avgCost
        BY <1>1, <2>2, MarkedType
  <2> QED BY <1>1, <2>1, <2>3 DEF Bracketed
<1>4. CASE UNCHANGED vars
      BY <1>1, <1>4 DEF vars
<1> QED BY <1>2, <1>3, <1>4, StepCases

LEMMA BracketedMeansWithin == Types /\ AllBracketed => AvgCostWithinPrices
<1> SUFFICES ASSUME Types, AllBracketed, NEW a \in Accounts, NEW c \in Conids,
                    positions[a][c].position # 0
             PROVE  LET p == positions[a][c]
                        side == IF p.position > 0 THEN "BUY" ELSE "SELL"
                        same == {i \in TradesOf(a, c) : trades[i].side = side /\ trades[i].qty > 0} IN
                    /\ \E i \in same : AtMost(Whole(trades[i].price), p.avgCost)
                    /\ \E i \in same : AtMost(p.avgCost, Whole(trades[i].price))
    BY DEF AvgCostWithinPrices
<1> DEFINE p == positions[a][c]
           same == {i \in TradesOf(a, c) : trades[i].side = SideOf(p.position) /\ trades[i].qty > 0}
<1>1. \A i \in Of(trades, a, c) : OnSide(trades[i], p.position) => i \in same
      BY DEF OnSide, TradesOf, Of
<1>2. /\ \E i \in Of(trades, a, c) :
             OnSide(trades[i], p.position) /\ AtMost(Whole(trades[i].price), p.avgCost)
      /\ \E i \in Of(trades, a, c) :
             OnSide(trades[i], p.position) /\ AtMost(p.avgCost, Whole(trades[i].price))
      BY DEF AllBracketed, Bracketed
<1> HIDE DEF same
<1>3. /\ \E i \in same : AtMost(Whole(trades[i].price), p.avgCost)
      /\ \E i \in same : AtMost(p.avgCost, Whole(trades[i].price))
      BY <1>1, <1>2
<1> QED BY <1>3 DEF same, SideOf

\* The average cost of an open position lies between prices paid on its side,
\* also after it has changed sides (accounts.py 58-67).
THEOREM AverageIsBetweenPrices == Spec => []AvgCostWithinPrices
<1>1. Spec => []Types
      BY InitTypes, TypesStep, PTL DEF Spec
<1>2. Spec => []AllBracketed
      BY <1>1, InitBracketed, BracketedStep, PTL DEF Spec
<1> QED BY <1>1, <1>2, BracketedMeansWithin, PTL

===============================================================================
