---------------------------- MODULE BacktestProofs ----------------------------
(***************************************************************************)
(* What the backtest makes of any rows: that cleaning keeps the last row of *)
(* each date, that no bar is traded on what comes after it, that the one    *)
(* pass finds the worst fall, and that trades and losses add up.            *)
(***************************************************************************)
EXTENDS Backtest, CommonTheorems

-------------------------------------------------------------------------------
(* Collecting the rows in date order                                         *)

DatedRows == [date : Nat, close : Nat]

LEMMA DatedSeq ==
    ASSUME NEW s \in Seq(DatedRows)
    PROVE  /\ Len(s) \in Nat /\ DOMAIN s = 1..Len(s)
           /\ \A i \in 1..Len(s) : s[i] \in DatedRows /\ s[i].date \in Nat /\ s[i].close \in Nat
<1>1. /\ Len(s) \in Nat /\ DOMAIN s = 1..Len(s)
      /\ \A i \in 1..Len(s) : s[i] \in DatedRows
      BY LenProperties, ElementOfSeq
<1>2. \A r \in DatedRows : r.date \in Nat /\ r.close \in Nat
      BY DEF DatedRows
<1> QED BY <1>1, <1>2

\* The rows up to a date, however many.
UpTo(sorted, date) == {i \in DOMAIN sorted : sorted[i].date <= date}

LEMMA UpToSize ==
    ASSUME NEW sorted \in Seq(DatedRows), NEW date
    PROVE  Cardinality(UpTo(sorted, date)) \in 0..Len(sorted)
<1>1. UpTo(sorted, date) \in SUBSET (1..Len(sorted)) /\ Len(sorted) \in Nat
      BY LenProperties DEF UpTo
<1>2. IsFiniteSet(1..Len(sorted)) /\ Cardinality(1..Len(sorted)) = Len(sorted)
      BY <1>1, SizeOfFirst
<1>3. /\ IsFiniteSet(UpTo(sorted, date))
      /\ Cardinality(UpTo(sorted, date)) <= Cardinality(1..Len(sorted))
      BY <1>1, <1>2, FS_Subset
<1>4. Cardinality(UpTo(sorted, date)) \in Nat
      BY <1>3, FS_CardinalityType
<1> QED BY <1>1, <1>2, <1>3, <1>4

LEMMA CollectedType ==
    ASSUME NEW sorted \in Seq(DatedRows), NEW row \in DatedRows
    PROVE  Collected(sorted, row) \in Seq(DatedRows)
<1>1. InsertAt(sorted, Cardinality(UpTo(sorted, row.date)) + 1, row) \in Seq(DatedRows)
      BY UpToSize, InsertAtIs DEF WithRow
<1>2. Inserted(sorted, row) \in Seq(DatedRows)
      BY <1>1 DEF Inserted, UpTo
<1> QED BY <1>2 DEF Collected

CollectStep(s, g, T) == IF T = {} THEN <<>> ELSE Collected(g[T \ {Max(T)}], s[Max(T)])

CollectFcn(s) == CHOOSE g : g = [T \in SUBSET (DOMAIN s) |-> CollectStep(s, g, T)]

\* What has been collected from the first k rows.
CollectedFrom(s, k) == CollectFcn(s)[1..k]

LEMMA CollectSteps ==
    ASSUME NEW s \in Seq(DatedRows)
    PROVE  /\ InDateOrder(s) = CollectedFrom(s, Len(s))
           /\ CollectedFrom(s, 0) = <<>>
           /\ \A k \in 0..(Len(s) - 1) :
                 CollectedFrom(s, k + 1) = Collected(CollectedFrom(s, k), s[k + 1])
<1> DEFINE X == Seq(DatedRows)
           op == [p \in X \X DatedRows |-> Collected(p[1], p[2])]
           F == CollectFcn(s)
<1>1. /\ Len(s) \in Nat /\ DOMAIN s = 1..Len(s)
      /\ \A i \in 1..Len(s) : s[i] \in DatedRows
      BY LenProperties, ElementOfSeq
<1>2. \A x \in X, e \in DatedRows : op[<<x, e>>] = Collected(x, e)
      OBVIOUS
<1>3. op \in [X \X DatedRows -> X]
      BY CollectedType
<1> HIDE DEF op
<1>4. HasFold(op, <<>>, s, X, Len(s))
  <2>1. <<>> \in X
        OBVIOUS
  <2> HIDE DEF X
  <2> QED BY <1>1, <1>3, <2>1, FoldExists
<1>5. PICK g \in [SUBSET (1..Len(s)) -> X] :
              \A T \in SUBSET (1..Len(s)) : g[T] = FoldStep(op, <<>>, s, g, T)
      BY <1>4 DEF HasFold
<1>6. ASSUME NEW T \in SUBSET (1..Len(s)) PROVE g[T] = CollectStep(s, g, T)
  <2>1. CASE T = {}
        BY <1>5, <2>1 DEF FoldStep, CollectStep
  <2>2. CASE T # {}
    <3>1. g[T \ {Max(T)}] \in X /\ s[Max(T)] \in DatedRows
          BY <1>1, <2>2, FoldArguments
    <3> HIDE DEF X
    <3>2. g[T] = op[<<g[T \ {Max(T)}], s[Max(T)]>>]
          BY <1>5, <2>2 DEF FoldStep
    <3> QED BY <1>2, <2>2, <3>1, <3>2 DEF CollectStep
  <2> QED BY <2>1, <2>2
<1>7. g = [T \in SUBSET (DOMAIN s) |-> CollectStep(s, g, T)]
      BY <1>1, <1>6
<1>8. F = [T \in SUBSET (DOMAIN s) |-> CollectStep(s, F, T)]
      BY <1>7 DEF CollectFcn
<1> HIDE DEF F
<1>9. F[1..0] = <<>>
      BY <1>1, <1>8 DEF CollectStep
<1>10. ASSUME NEW k \in 0..(Len(s) - 1) PROVE F[1..(k + 1)] = Collected(F[1..k], s[k + 1])
  <2>1. 1..(k + 1) \in SUBSET (DOMAIN s) /\ k \in Nat
        BY <1>1
  <2>2. F[1..(k + 1)] = CollectStep(s, F, 1..(k + 1))
        BY <1>8, <2>1
  <2> QED BY <2>1, <2>2, FirstOnes DEF CollectStep
<1>11. InDateOrder(s) = F[DOMAIN s]
      BY DEF InDateOrder, FoldLeft, MapThenFoldSet, CollectFcn, CollectStep, F
<1> QED BY <1>1, <1>9, <1>10, <1>11 DEF CollectedFrom, F

\* In date order.
Ordered(sorted) == \A i, j \in DOMAIN sorted : i < j => sorted[i].date <= sorted[j].date

\* The last of its date among the rows in order.
Final(sorted, p) == p < Len(sorted) => sorted[p].date < sorted[p + 1].date

\* Row i is usable and no later one of the first k has its date.
Latest(given, i, k) ==
    \A j \in 1..k : j > i /\ given[j].close > 0 => given[j].date # given[i].date

\* The rows in order are the usable ones of the first k, and where they end a date
\* it is with the last one given.
Collects(sorted, given, k) ==
    /\ sorted \in Seq(DatedRows)
    /\ Ordered(sorted)
    /\ \A i \in 1..k : given[i].close > 0 =>
          \E p \in DOMAIN sorted : sorted[p] = given[i]
    /\ \A p \in DOMAIN sorted : \E i \in 1..k :
          /\ given[i].close > 0 /\ given[i] = sorted[p]
          /\ Final(sorted, p) => Latest(given, i, k)

\* In rows in order, those up to a date come first.
LEMMA UpToIsPrefix ==
    ASSUME NEW sorted \in Seq(DatedRows), Ordered(sorted), NEW date \in Nat
    PROVE  \E k \in 0..Len(sorted) :
              /\ Cardinality(UpTo(sorted, date)) = k
              /\ \A i \in DOMAIN sorted : sorted[i].date <= date <=> i <= k
<1> DEFINE U == UpTo(sorted, date)
<1>1. /\ Len(sorted) \in Nat /\ DOMAIN sorted = 1..Len(sorted)
      /\ \A i \in DOMAIN sorted : sorted[i].date \in Nat
      BY DatedSeq
<1>2. CASE U = {}
  <2>1. Cardinality(U) = 0
        BY <1>2, FS_EmptySet
  <2>2. \A i \in DOMAIN sorted : ~ (sorted[i].date <= date) /\ ~ (i <= 0)
        BY <1>1, <1>2 DEF UpTo
  <2>3. 0 \in 0..Len(sorted)
        BY <1>1
  <2> HIDE DEF U
  <2> QED BY <2>1, <2>2, <2>3 DEF U
<1>3. CASE U # {}
  <2>1. U \in SUBSET (1..Len(sorted))
        BY <1>1 DEF UpTo
  <2>2. PICK k \in U : \A j \in U : j <= k
        BY <1>1, <1>3, <2>1, GreatestElement
  <2>3. k \in 1..Len(sorted) /\ sorted[k].date <= date
        BY <1>1, <2>2 DEF UpTo
  <2>4. ASSUME NEW i \in DOMAIN sorted PROVE sorted[i].date <= date <=> i <= k
    <3>1. CASE i <= k
      <4>1. sorted[i].date <= sorted[k].date
        <5>1. CASE i = k
              BY <1>1, <2>3, <5>1
        <5>2. CASE i < k
              BY <1>1, <2>3, <5>2 DEF Ordered
        <5> QED BY <1>1, <2>3, <3>1, <5>1, <5>2
      <4> QED BY <1>1, <2>3, <3>1, <4>1
    <3>2. CASE ~ (i <= k)
          BY <2>2, <3>2 DEF UpTo
    <3> QED BY <3>1, <3>2
  <2>5. U = 1..k
        BY <1>1, <2>3, <2>4 DEF UpTo
  <2>6. Cardinality(U) = k
        BY <2>3, <2>5, SizeOfFirst
  <2> HIDE DEF U
  <2> QED BY <1>1, <2>3, <2>4, <2>6 DEF U
<1> QED BY <1>2, <1>3

LEMMA CollectedKeeps ==
    ASSUME NEW given \in Seq(DatedRows), NEW k \in 0..(Len(given) - 1), NEW sorted,
           Collects(sorted, given, k)
    PROVE  Collects(Collected(sorted, given[k + 1]), given, k + 1)
<1> DEFINE row == given[k + 1]
           n == Len(sorted)
<1>1. Len(given) \in Nat /\ k \in Nat /\ k + 1 \in 1..Len(given)
      BY DatedSeq
<1>2. sorted \in Seq(DatedRows) /\ Ordered(sorted)
      BY DEF Collects
<1>3. /\ n \in Nat /\ DOMAIN sorted = 1..n
      /\ \A i \in 1..n : sorted[i].date \in Nat
      BY <1>2, DatedSeq
<1>4. row \in DatedRows /\ row.date \in Nat /\ row.close \in Nat
      BY <1>1, DatedSeq
<1>5. CASE ~ (row.close > 0)
  <2>1. Collected(sorted, row) = sorted
        BY <1>5 DEF Collected
  <2>2. \A i \in 1..(k + 1) : given[i].close > 0 => i \in 1..k
        BY <1>1, <1>5
  <2>3. \A i \in 1..k : Latest(given, i, k) => Latest(given, i, k + 1)
        BY <1>1, <2>2 DEF Latest
  <2>4. \A i \in 1..k : i \in 1..(k + 1)
        BY <1>1
  <2>5. Collects(sorted, given, k + 1)
        BY <2>2, <2>3, <2>4 DEF Collects
  <2> QED BY <2>1, <2>5
<1>6. CASE row.close > 0
  <2> HIDE DEF row
  <2>0. \E q \in 0..Len(sorted) :
              /\ Cardinality(UpTo(sorted, row.date)) = q
              /\ \A i \in DOMAIN sorted : sorted[i].date <= row.date <=> i <= q
        BY <1>2, <1>4, UpToIsPrefix
  <2>1. PICK q \in 0..Len(sorted) :
              /\ Cardinality(UpTo(sorted, row.date)) = q
              /\ \A i \in DOMAIN sorted : sorted[i].date <= row.date <=> i <= q
        BY <2>0
  <2> DEFINE r == Collected(sorted, row)
  <2>2. r = InsertAt(sorted, q + 1, row)
        BY <1>6, <2>1 DEF Collected, Inserted, UpTo
  <2> HIDE DEF r
  <2>3. /\ r \in Seq(DatedRows) /\ Len(r) = n + 1
        /\ \A i \in 1..q : r[i] = sorted[i]
        /\ r[q + 1] = row
        /\ \A i \in (q + 2)..(n + 1) : r[i] = sorted[i - 1]
    <3>1. WithRow(InsertAt(sorted, q + 1, row), DatedRows, sorted, row, q)
          BY <1>2, <1>4, <2>1, InsertAtIs
    <3> QED BY <2>2, <3>1 DEF WithRow
  <2>4. DOMAIN r = 1..(n + 1) /\ q \in Nat /\ q <= n
        BY <1>3, <2>1, <2>3, LenProperties
  <2> HIDE DEF n
  <2>5. Ordered(r)
    <3> SUFFICES ASSUME NEW i \in 1..(n + 1), NEW j \in 1..(n + 1), i < j
                 PROVE  r[i].date <= r[j].date
        BY <2>4 DEF Ordered
    <3>1. CASE j <= q
      <4>1. i \in 1..q /\ j \in 1..q /\ i \in 1..n /\ j \in 1..n
            BY <1>3, <2>4, <3>1
      <4>2. r[i] = sorted[i] /\ r[j] = sorted[j]
            BY <2>3, <4>1
      <4> QED BY <1>2, <1>3, <4>1, <4>2 DEF Ordered
    <3>2. CASE j = q + 1
      <4>1. i \in 1..q /\ i \in 1..n
            BY <2>4, <3>2, <1>3
      <4>2. r[i] = sorted[i] /\ r[j] = row
            BY <2>3, <3>2, <4>1
      <4> QED BY <1>3, <2>1, <4>1, <4>2
    <3>3. CASE j > q + 1
      <4>1. j \in (q + 2)..(n + 1) /\ j - 1 \in 1..n /\ ~ (j - 1 <= q)
            BY <2>4, <3>3, <1>3
      <4>2. r[j] = sorted[j - 1] /\ row.date < sorted[j - 1].date
        <5>1. r[j] = sorted[j - 1]
              BY <2>3, <4>1
        <5>2. ~ (sorted[j - 1].date <= row.date) /\ sorted[j - 1].date \in Nat
              BY <1>3, <2>1, <4>1
        <5> QED BY <1>4, <5>1, <5>2
      <4>3. CASE i <= q
        <5>1. i \in 1..q /\ i \in 1..n /\ i < j - 1
              BY <2>4, <3>3, <4>3, <1>3
        <5>2. r[i] = sorted[i]
              BY <2>3, <5>1
        <5>3. sorted[i].date <= sorted[j - 1].date
              BY <1>2, <1>3, <4>1, <5>1 DEF Ordered
        <5> QED BY <4>2, <5>2, <5>3
      <4>4. CASE i = q + 1
            BY <1>3, <1>4, <2>3, <4>1, <4>2, <4>4
      <4>5. CASE i > q + 1
        <5>1. i \in (q + 2)..(n + 1) /\ i - 1 \in 1..n /\ i - 1 < j - 1
              BY <2>4, <4>5, <1>3
        <5>2. r[i] = sorted[i - 1]
              BY <2>3, <5>1
        <5>3. sorted[i - 1].date <= sorted[j - 1].date
              BY <1>2, <1>3, <4>1, <5>1 DEF Ordered
        <5> QED BY <4>2, <5>2, <5>3
      <4> QED BY <2>4, <4>3, <4>4, <4>5
    <3> QED BY <2>4, <3>1, <3>2, <3>3
  <2>6. ASSUME NEW i \in 1..(k + 1), given[i].close > 0
        PROVE  \E p \in DOMAIN r : r[p] = given[i]
    <3>1. CASE i = k + 1
      <4>1. q + 1 \in DOMAIN r
            BY <1>3, <2>4
      <4> QED BY <2>3, <3>1, <4>1 DEF row
    <3>2. CASE i \in 1..k
      <4>1. PICK p \in DOMAIN sorted : sorted[p] = given[i]
            BY <2>6, <3>2 DEF Collects
      <4>2. CASE p <= q
        <5>1. p \in 1..q /\ p \in 1..(n + 1)
              BY <1>3, <2>4, <4>2
        <5> QED BY <2>3, <2>4, <4>1, <5>1
      <4>3. CASE p > q
        <5>1. p + 1 \in (q + 2)..(n + 1) /\ (p + 1) - 1 = p /\ p + 1 \in 1..(n + 1)
              BY <1>3, <2>4, <4>3
        <5> QED BY <2>3, <2>4, <4>1, <5>1
      <4> QED BY <1>3, <2>4, <4>2, <4>3
    <3> QED BY <1>1, <3>1, <3>2
  <2> DEFINE Told(p) == \E i \in 1..(k + 1) :
                           /\ given[i].close > 0 /\ given[i] = r[p]
                           /\ Final(r, p) => Latest(given, i, k + 1)
  <2>7. ASSUME NEW p \in 1..n, NEW pp \in 1..(n + 1), r[pp] = sorted[p],
               Final(r, pp) => Final(sorted, p) /\ row.date # sorted[p].date
        PROVE  Told(pp)
    <3>1. PICK i \in 1..k : /\ given[i].close > 0 /\ given[i] = sorted[p]
                            /\ Final(sorted, p) => Latest(given, i, k)
          BY <1>3 DEF Collects
    <3>2. i \in 1..(k + 1)
          BY <1>1
    <3>3. ASSUME Final(r, pp) PROVE Latest(given, i, k + 1)
      <4>1. Latest(given, i, k) /\ row.date # given[i].date
            BY <2>7, <3>1, <3>3
      <4>2. \A j \in 1..(k + 1) : j \in 1..k \/ j = k + 1
            BY <1>1
      <4> QED BY <4>1, <4>2 DEF Latest, row
    <3> QED BY <2>7, <3>1, <3>2, <3>3
  <2>8. ASSUME NEW p \in 1..(n + 1) PROVE Told(p)
    <3>1. CASE p < q
      <4>1. p \in 1..q /\ p + 1 \in 1..q /\ p \in 1..n /\ p + 1 \in 1..n /\ p < n
            BY <1>3, <2>4, <3>1
      <4>2. r[p] = sorted[p] /\ r[p + 1] = sorted[p + 1] /\ sorted[p + 1].date <= row.date
        <5>1. r[p] = sorted[p] /\ r[p + 1] = sorted[p + 1]
              BY <2>3, <4>1
        <5>2. sorted[p + 1].date <= row.date
              BY <1>3, <2>1, <4>1
        <5> QED BY <5>1, <5>2
      <4>3. Final(r, p) => sorted[p].date < sorted[p + 1].date
            BY <1>3, <2>3, <4>1, <4>2 DEF Final
      <4>4. Final(r, p) => Final(sorted, p) /\ row.date # sorted[p].date
            BY <1>3, <1>4, <4>1, <4>2, <4>3 DEF Final
      <4> HIDE DEF Told
      <4> QED BY <2>7, <4>1, <4>2, <4>4
    <3>2. CASE p = q
      <4>1. p \in 1..q /\ p \in 1..n
            BY <1>3, <2>4, <3>2
      <4>2. r[p] = sorted[p] /\ r[p + 1] = row /\ p < n + 1
            BY <1>3, <2>3, <3>2, <4>1
      <4>3. Final(r, p) => sorted[p].date < row.date
            BY <2>3, <4>2 DEF Final
      <4>4. p < n => p + 1 \in 1..n /\ ~ (p + 1 <= q)
            BY <1>3, <2>4, <3>2
      <4>5. p < n => row.date < sorted[p + 1].date
        <5> SUFFICES ASSUME p < n PROVE row.date < sorted[p + 1].date
            OBVIOUS
        <5>1. ~ (sorted[p + 1].date <= row.date) /\ sorted[p + 1].date \in Nat
              BY <1>3, <2>1, <4>4
        <5> QED BY <1>4, <5>1
      <4>6. Final(r, p) => Final(sorted, p) /\ row.date # sorted[p].date
            BY <1>3, <1>4, <4>1, <4>3, <4>4, <4>5 DEF Final, n
      <4> HIDE DEF Told
      <4> QED BY <2>7, <4>1, <4>2, <4>6
    <3>3. CASE p = q + 1
      <4>1. k + 1 \in 1..(k + 1) /\ Latest(given, k + 1, k + 1)
            BY <1>1 DEF Latest
      <4> QED BY <1>6, <2>3, <3>3, <4>1 DEF row
    <3>4. CASE p > q + 1
      <4>1. p \in (q + 2)..(n + 1) /\ p - 1 \in 1..n /\ ~ (p - 1 <= q) /\ (p - 1) + 1 = p
            BY <1>3, <2>4, <3>4
      <4>2. r[p] = sorted[p - 1] /\ row.date < sorted[p - 1].date
        <5>1. r[p] = sorted[p - 1]
              BY <2>3, <4>1
        <5>2. ~ (sorted[p - 1].date <= row.date)
          <6>1. p - 1 \in DOMAIN sorted
                BY <1>3, <4>1
          <6> QED BY <2>1, <4>1, <6>1
        <5>3. sorted[p - 1].date \in Nat
              BY <1>3, <4>1
        <5> QED BY <1>4, <5>1, <5>2, <5>3
      <4>3. ASSUME Final(r, p) PROVE Final(sorted, p - 1)
        <5>1. SUFFICES ASSUME p - 1 < n PROVE sorted[p - 1].date < sorted[p].date
              BY <4>1 DEF Final, n
        <5>2. p < n + 1 /\ p + 1 \in (q + 2)..(n + 1) /\ (p + 1) - 1 = p
              BY <1>3, <2>4, <4>1, <5>1
        <5>3. r[p + 1] = sorted[p]
              BY <2>3, <5>2
        <5> QED BY <2>3, <4>2, <4>3, <5>2, <5>3 DEF Final
      <4>4. row.date # sorted[p - 1].date
            BY <1>3, <1>4, <4>1, <4>2
      <4> HIDE DEF Told
      <4> QED BY <2>7, <4>1, <4>2, <4>3, <4>4
    <3> QED BY <1>3, <2>4, <3>1, <3>2, <3>3, <3>4
  <2>9. Collects(r, given, k + 1)
        BY <2>3, <2>4, <2>5, <2>6, <2>8 DEF Collects
  <2> QED BY <2>9 DEF r, row
<1> QED BY <1>4, <1>5, <1>6

LEMMA InDateOrderCollects ==
    ASSUME NEW given \in Seq(DatedRows)
    PROVE  Collects(InDateOrder(given), given, Len(given))
<1> DEFINE N == {k \in Nat : k <= Len(given) => Collects(CollectedFrom(given, k), given, k)}
<1>1. Len(given) \in Nat
      BY DatedSeq
<1>2. 0 \in N
  <2>1. CollectedFrom(given, 0) = <<>>
        BY CollectSteps
  <2>2. Collects(<<>>, given, 0)
        BY DEF Collects, Ordered
  <2> QED BY <2>1, <2>2
<1>3. ASSUME NEW k \in Nat, k \in N PROVE k + 1 \in N
  <2> SUFFICES ASSUME k + 1 <= Len(given)
               PROVE  Collects(CollectedFrom(given, k + 1), given, k + 1)
      OBVIOUS
  <2>1. k \in 0..(Len(given) - 1)
        BY <1>1
  <2>2. Collects(CollectedFrom(given, k), given, k)
        BY <1>1, <1>3
  <2>3. CollectedFrom(given, k + 1) = Collected(CollectedFrom(given, k), given[k + 1])
        BY <2>1, CollectSteps
  <2> QED BY <2>1, <2>2, <2>3, CollectedKeeps
<1>4. Nat \subseteq N
  <2> HIDE DEF N
  <2> QED BY <1>2, <1>3, SetInduction
<1>5. Collects(CollectedFrom(given, Len(given)), given, Len(given))
      BY <1>1, <1>4
<1> QED BY <1>5, CollectSteps

-------------------------------------------------------------------------------
(* Keeping one row for each date                                             *)

LEMMA DedupedType ==
    ASSUME NEW kept \in Seq(DatedRows), NEW row \in DatedRows
    PROVE  Deduped(kept, row) \in Seq(DatedRows)
<1>1. Append(kept, row) \in Seq(DatedRows)
      BY AppendProperties
<1>2. ASSUME kept # <<>> PROVE [kept EXCEPT ![Len(kept)] = row] \in Seq(DatedRows)
  <2>1. Len(kept) \in Nat /\ Len(kept) # 0
        BY <1>2, LenProperties, EmptySeq
  <2>2. Len(kept) \in 1..Len(kept)
        BY <2>1
  <2> QED BY <2>2, ExceptSeq
<1> QED BY <1>1, <1>2 DEF Deduped

DedupStep(s, g, T) == IF T = {} THEN <<>> ELSE Deduped(g[T \ {Max(T)}], s[Max(T)])

DedupFcn(s) == CHOOSE g : g = [T \in SUBSET (DOMAIN s) |-> DedupStep(s, g, T)]

\* What is kept of the first k rows in order.
DedupedTo(s, k) == DedupFcn(s)[1..k]

LEMMA DedupSteps ==
    ASSUME NEW s \in Seq(DatedRows)
    PROVE  /\ FoldLeft(Deduped, <<>>, s) = DedupedTo(s, Len(s))
           /\ DedupedTo(s, 0) = <<>>
           /\ \A k \in 0..(Len(s) - 1) :
                 DedupedTo(s, k + 1) = Deduped(DedupedTo(s, k), s[k + 1])
<1> DEFINE X == Seq(DatedRows)
           op == [p \in X \X DatedRows |-> Deduped(p[1], p[2])]
           F == DedupFcn(s)
<1>1. /\ Len(s) \in Nat /\ DOMAIN s = 1..Len(s)
      /\ \A i \in 1..Len(s) : s[i] \in DatedRows
      BY LenProperties, ElementOfSeq
<1>2. \A x \in X, e \in DatedRows : op[<<x, e>>] = Deduped(x, e)
      OBVIOUS
<1>3. op \in [X \X DatedRows -> X]
      BY DedupedType
<1> HIDE DEF op
<1>4. HasFold(op, <<>>, s, X, Len(s))
  <2>1. <<>> \in X
        OBVIOUS
  <2> HIDE DEF X
  <2> QED BY <1>1, <1>3, <2>1, FoldExists
<1>5. PICK g \in [SUBSET (1..Len(s)) -> X] :
              \A T \in SUBSET (1..Len(s)) : g[T] = FoldStep(op, <<>>, s, g, T)
      BY <1>4 DEF HasFold
<1>6. ASSUME NEW T \in SUBSET (1..Len(s)) PROVE g[T] = DedupStep(s, g, T)
  <2>1. CASE T = {}
        BY <1>5, <2>1 DEF FoldStep, DedupStep
  <2>2. CASE T # {}
    <3>1. g[T \ {Max(T)}] \in X /\ s[Max(T)] \in DatedRows
          BY <1>1, <2>2, FoldArguments
    <3> HIDE DEF X
    <3>2. g[T] = op[<<g[T \ {Max(T)}], s[Max(T)]>>]
          BY <1>5, <2>2 DEF FoldStep
    <3> QED BY <1>2, <2>2, <3>1, <3>2 DEF DedupStep
  <2> QED BY <2>1, <2>2
<1>7. g = [T \in SUBSET (DOMAIN s) |-> DedupStep(s, g, T)]
      BY <1>1, <1>6
<1>8. F = [T \in SUBSET (DOMAIN s) |-> DedupStep(s, F, T)]
      BY <1>7 DEF DedupFcn
<1> HIDE DEF F
<1>9. F[1..0] = <<>>
      BY <1>1, <1>8 DEF DedupStep
<1>10. ASSUME NEW k \in 0..(Len(s) - 1) PROVE F[1..(k + 1)] = Deduped(F[1..k], s[k + 1])
  <2>1. 1..(k + 1) \in SUBSET (DOMAIN s) /\ k \in Nat
        BY <1>1
  <2>2. F[1..(k + 1)] = DedupStep(s, F, 1..(k + 1))
        BY <1>8, <2>1
  <2> QED BY <2>1, <2>2, FirstOnes DEF DedupStep
<1>11. FoldLeft(Deduped, <<>>, s) = F[DOMAIN s]
      BY DEF FoldLeft, MapThenFoldSet, DedupFcn, DedupStep, F
<1> QED BY <1>1, <1>9, <1>10, <1>11 DEF DedupedTo, F

\* What is kept of the first m rows in order: the final row of each date, and of
\* the last one the latest so far.
Keeps(kept, sorted, m) ==
    /\ kept \in Seq(DatedRows)
    /\ m > 0 => kept # <<>> /\ kept[Len(kept)] = sorted[m]
    /\ \A i, j \in DOMAIN kept : i < j => kept[i].date < kept[j].date
    /\ \A p \in 1..m : \E i \in DOMAIN kept : kept[i].date = sorted[p].date
    /\ \A i \in DOMAIN kept : \E p \in 1..m :
          kept[i] = sorted[p] /\ (p < m => sorted[p].date < sorted[p + 1].date)

LEMMA DedupedKeeps ==
    ASSUME NEW sorted \in Seq(DatedRows), Ordered(sorted), NEW m \in 0..(Len(sorted) - 1),
           NEW kept, Keeps(kept, sorted, m)
    PROVE  Keeps(Deduped(kept, sorted[m + 1]), sorted, m + 1)
<1> DEFINE row == sorted[m + 1]
           n == Len(kept)
           r == Deduped(kept, row)
<1>1. /\ Len(sorted) \in Nat /\ DOMAIN sorted = 1..Len(sorted)
      /\ \A p \in 1..Len(sorted) : sorted[p].date \in Nat
      BY DatedSeq
<1>2. m \in Nat /\ m + 1 \in 1..Len(sorted) /\ row \in DatedRows /\ row.date \in Nat
      BY DatedSeq
<1>3. kept \in Seq(DatedRows)
      BY DEF Keeps
<1>4. /\ n \in Nat /\ DOMAIN kept = 1..n
      /\ \A i \in 1..n : kept[i].date \in Nat
      BY <1>3, DatedSeq
<1>5. r \in Seq(DatedRows)
      BY <1>2, <1>3, DedupedType
<1>6. ASSUME NEW p \in 1..(m + 1) PROVE p \in 1..m \/ p = m + 1
      BY <1>2
<1>7. CASE kept # <<>> /\ kept[n].date = row.date
  <2>1. r = [kept EXCEPT ![n] = row] /\ n \in 1..n
    <3>1. n # 0
          BY <1>3, <1>7, EmptySeq
    <3> QED BY <1>4, <1>7, <3>1 DEF Deduped, Last
  <2>2. Len(r) = n /\ DOMAIN r = 1..n /\ r[n] = row
        BY <1>3, <1>4, <2>1, ExceptSeq
  <2>3. \A i \in 1..n : i # n => r[i] = kept[i]
        BY <1>4, <2>1
  <2>4. \A i \in 1..n : r[i].date = kept[i].date
        BY <1>7, <2>2, <2>3
  <2> HIDE DEF r, row, n
  <2>5. r # <<>> /\ r[Len(r)] = sorted[m + 1]
        BY <2>1, <2>2 DEF row
  <2>6. \A i, j \in DOMAIN r : i < j => r[i].date < r[j].date
        BY <1>4, <2>2, <2>4 DEF Keeps
  <2>7. ASSUME NEW p \in 1..(m + 1)
        PROVE  \E i \in DOMAIN r : r[i].date = sorted[p].date
    <3>1. CASE p \in 1..m
      <4>1. PICK i \in DOMAIN kept : kept[i].date = sorted[p].date
            BY <3>1 DEF Keeps
      <4>2. i \in DOMAIN r /\ i \in 1..n
            BY <1>4, <2>2, <4>1
      <4>3. r[i].date = sorted[p].date
            BY <2>4, <4>1, <4>2
      <4> QED BY <4>2, <4>3
    <3>2. CASE p = m + 1
          BY <2>1, <2>2, <3>2 DEF row
    <3> QED BY <1>6, <3>1, <3>2
  <2>8. ASSUME NEW i \in DOMAIN r
        PROVE  \E p \in 1..(m + 1) :
                  r[i] = sorted[p] /\ (p < m + 1 => sorted[p].date < sorted[p + 1].date)
    <3>1. CASE i = n
      <4>1. m + 1 \in 1..(m + 1) /\ ~ (m + 1 < m + 1)
            BY <1>2
      <4> QED BY <2>2, <3>1, <4>1 DEF row
    <3>2. CASE i # n
      <4>1. i \in 1..n /\ i < n
            BY <1>4, <2>2, <3>2
      <4>2. PICK p \in 1..m : kept[i] = sorted[p] /\ (p < m => sorted[p].date < sorted[p + 1].date)
            BY <1>4, <4>1 DEF Keeps
      <4>3. p # m
        <5>1. kept[i].date < kept[n].date /\ kept[i].date \in Nat /\ kept[n].date \in Nat
              BY <1>4, <2>1, <4>1 DEF Keeps
        <5>2. m > 0 => kept[n] = sorted[m]
              BY DEF Keeps, n
        <5>3. m > 0
              BY <1>2
        <5> QED BY <4>2, <5>1, <5>2, <5>3
      <4>4. p \in 1..(m + 1) /\ p < m
            BY <1>2, <4>3
      <4> QED BY <2>3, <3>2, <4>1, <4>2, <4>4
    <3> QED BY <3>1, <3>2
  <2>9. Keeps(r, sorted, m + 1)
        BY <1>5, <2>5, <2>6, <2>7, <2>8 DEF Keeps
  <2> QED BY <2>9 DEF r, row
<1>8. CASE ~ (kept # <<>> /\ kept[n].date = row.date)
  <2>1. r = Append(kept, row)
        BY <1>8 DEF Deduped, Last
  <2>2. /\ Len(r) = n + 1 /\ DOMAIN r = 1..(n + 1) /\ r[n + 1] = row
        /\ \A i \in 1..n : r[i] = kept[i]
    <3>1. Len(r) = n + 1 /\ r[n + 1] = row /\ \A i \in 1..n : r[i] = kept[i]
          BY <1>2, <1>3, <2>1, AppendProperties
    <3> QED BY <1>5, <3>1, LenProperties
  <2>3. m > 0 => n \in 1..n /\ kept[n] = sorted[m]
    <3>1. m > 0 => n # 0
          BY <1>3, EmptySeq DEF Keeps
    <3> QED BY <1>4, <3>1 DEF Keeps
  <2>4. m > 0 => sorted[m].date < row.date
    <3> SUFFICES ASSUME m > 0 PROVE sorted[m].date < row.date
        OBVIOUS
    <3>1. m \in 1..Len(sorted) /\ m < m + 1
          BY <1>2
    <3>2. sorted[m].date <= row.date
          BY <1>1, <1>2, <3>1 DEF Ordered
    <3>3. kept # <<>>
          BY DEF Keeps
    <3>4. sorted[m].date # row.date
          BY <1>8, <2>3, <3>3
    <3> QED BY <1>1, <1>2, <3>1, <3>2, <3>4
  <2>5. \A i \in 1..n : kept[i].date < row.date
    <3> SUFFICES ASSUME NEW i \in 1..n PROVE kept[i].date < row.date
        OBVIOUS
    <3>1. \E p \in 1..m : kept[i] = sorted[p]
          BY <1>4 DEF Keeps
    <3>2. m > 0 /\ n \in 1..n
          BY <1>2, <1>4, <3>1
    <3>3. CASE i = n
          BY <2>3, <2>4, <3>2, <3>3
    <3>4. CASE i < n
      <4>1. kept[i].date < kept[n].date
            BY <1>4, <3>2, <3>4 DEF Keeps
      <4>2. kept[n].date < row.date
            BY <2>3, <2>4, <3>2
      <4>3. kept[i].date \in Nat /\ kept[n].date \in Nat /\ row.date \in Nat
            BY <1>2, <1>4, <3>2
      <4> DEFINE a == kept[i].date
                 b == kept[n].date
                 c == row.date
      <4>4. a \in Nat /\ b \in Nat /\ c \in Nat /\ a < b /\ b < c
            BY <4>1, <4>2, <4>3
      <4> HIDE DEF a, b, c
      <4>5. a < c
            BY <4>4
      <4> QED BY <4>5 DEF a, c
    <3>5. i = n \/ i < n
          BY <1>4
    <3> QED BY <3>3, <3>4, <3>5
  <2> HIDE DEF r, row, n
  <2>6. r # <<>> /\ r[Len(r)] = sorted[m + 1]
        BY <1>4, <2>2 DEF row
  <2>7. ASSUME NEW i \in DOMAIN r, NEW j \in DOMAIN r, i < j PROVE r[i].date < r[j].date
    <3>1. i \in 1..n
          BY <1>4, <2>2, <2>7
    <3>2. CASE j = n + 1
          BY <2>2, <2>5, <3>1, <3>2
    <3>3. CASE j \in 1..n
          BY <1>4, <2>2, <2>7, <3>1, <3>3 DEF Keeps
    <3> QED BY <1>4, <2>2, <3>2, <3>3
  <2>8. ASSUME NEW p \in 1..(m + 1)
        PROVE  \E i \in DOMAIN r : r[i].date = sorted[p].date
    <3>1. CASE p \in 1..m
      <4>1. PICK i \in DOMAIN kept : kept[i].date = sorted[p].date
            BY <3>1 DEF Keeps
      <4>2. i \in 1..n /\ i \in 1..(n + 1)
            BY <1>4, <4>1
      <4> QED BY <2>2, <4>1, <4>2
    <3>2. CASE p = m + 1
      <4>1. n + 1 \in DOMAIN r
            BY <1>4, <2>2
      <4> QED BY <2>2, <3>2, <4>1 DEF row
    <3> QED BY <1>6, <3>1, <3>2
  <2>9. ASSUME NEW i \in DOMAIN r
        PROVE  \E p \in 1..(m + 1) :
                  r[i] = sorted[p] /\ (p < m + 1 => sorted[p].date < sorted[p + 1].date)
    <3>1. CASE i = n + 1
      <4>1. m + 1 \in 1..(m + 1) /\ ~ (m + 1 < m + 1)
            BY <1>2
      <4> QED BY <2>2, <3>1, <4>1 DEF row
    <3>2. CASE i \in 1..n
      <4>1. PICK p \in 1..m : kept[i] = sorted[p] /\ (p < m => sorted[p].date < sorted[p + 1].date)
            BY <1>4, <3>2 DEF Keeps
      <4>2. p \in 1..(m + 1) /\ m > 0 /\ (p < m \/ p = m)
            BY <1>2
      <4>3. sorted[p].date < sorted[p + 1].date
            BY <2>4, <4>1, <4>2 DEF row
      <4> QED BY <2>2, <3>2, <4>1, <4>2, <4>3
    <3> QED BY <1>4, <2>2, <3>1, <3>2
  <2>10. Keeps(r, sorted, m + 1)
        BY <1>5, <2>6, <2>7, <2>8, <2>9 DEF Keeps
  <2> QED BY <2>10 DEF r, row
<1> QED BY <1>7, <1>8

LEMMA CleanPricesKeeps ==
    ASSUME NEW given \in Seq(DatedRows)
    PROVE  Keeps(CleanPrices(given), InDateOrder(given), Len(InDateOrder(given)))
<1> DEFINE sorted == InDateOrder(given)
           N == {m \in Nat : m <= Len(sorted) => Keeps(DedupedTo(sorted, m), sorted, m)}
<1>1. sorted \in Seq(DatedRows) /\ Ordered(sorted)
      BY InDateOrderCollects DEF Collects
<1> HIDE DEF sorted
<1>2. Len(sorted) \in Nat
      BY <1>1, DatedSeq
<1>3. 0 \in N
  <2>1. DedupedTo(sorted, 0) = <<>>
        BY <1>1, DedupSteps
  <2>2. Keeps(<<>>, sorted, 0)
        BY DEF Keeps
  <2> QED BY <2>1, <2>2
<1>4. ASSUME NEW m \in Nat, m \in N PROVE m + 1 \in N
  <2> SUFFICES ASSUME m + 1 <= Len(sorted)
               PROVE  Keeps(DedupedTo(sorted, m + 1), sorted, m + 1)
      OBVIOUS
  <2>1. m \in 0..(Len(sorted) - 1)
        BY <1>2
  <2>2. Keeps(DedupedTo(sorted, m), sorted, m)
        BY <1>2, <1>4
  <2>3. DedupedTo(sorted, m + 1) = Deduped(DedupedTo(sorted, m), sorted[m + 1])
        BY <1>1, <2>1, DedupSteps
  <2> QED BY <1>1, <2>1, <2>2, <2>3, DedupedKeeps
<1>5. Nat \subseteq N
  <2> HIDE DEF N
  <2> QED BY <1>3, <1>4, SetInduction
<1>6. Keeps(DedupedTo(sorted, Len(sorted)), sorted, Len(sorted))
      BY <1>2, <1>5
<1>7. CleanPrices(given) = DedupedTo(sorted, Len(sorted))
  <2>1. CleanPrices(given) = FoldLeft(Deduped, <<>>, sorted)
        BY DEF CleanPrices, sorted
  <2>2. FoldLeft(Deduped, <<>>, sorted) = DedupedTo(sorted, Len(sorted))
        BY <1>1, DedupSteps
  <2> QED BY <2>1, <2>2
<1> QED BY <1>6, <1>7 DEF sorted

-------------------------------------------------------------------------------
(* The rows                                                                  *)

RowsOK == rows \in Seq(DatedRows)

LEMMA RowsStayOK == Spec => []RowsOK
<1>1. Init => RowsOK
      BY DEF Init, RowsOK
<1>2. RowsOK /\ [Next]_rows => RowsOK'
  <2> SUFFICES ASSUME RowsOK, [Next]_rows PROVE RowsOK'
      OBVIOUS
  <2>1. CASE UNCHANGED rows
        BY <2>1 DEF RowsOK
  <2>2. ASSUME NEW date \in 1..(Len(rows) + 1), NEW close \in Closes, Given(date, close)
        PROVE  RowsOK'
    <3>1. Len(rows) \in Nat
          BY DatedSeq DEF RowsOK
    <3>2. [date |-> date, close |-> close] \in DatedRows
          BY <3>1, BacktestAssumption DEF DatedRows
    <3>3. rows' = Append(rows, [date |-> date, close |-> close])
          BY <2>2 DEF Given
    <3> QED BY <3>2, <3>3, AppendProperties DEF RowsOK
  <2> QED BY <2>1, <2>2 DEF Next
<1> QED BY <1>1, <1>2, PTL DEF Spec

LEMMA CleanRowsAreLatest == RowsOK => CleanIsLatest
<1> SUFFICES ASSUME RowsOK PROVE CleanIsLatest
    OBVIOUS
<1> DEFINE sorted == InDateOrder(rows)
           clean == CleanPrices(rows)
           n == Len(rows)
           usable == {i \in DOMAIN rows : rows[i].close > 0}
<1>1. /\ rows \in Seq(DatedRows) /\ n \in Nat /\ DOMAIN rows = 1..n
      BY DatedSeq DEF RowsOK
<1>2. Collects(sorted, rows, n) /\ Keeps(clean, sorted, Len(sorted))
      BY <1>1, InDateOrderCollects, CleanPricesKeeps
<1> HIDE DEF sorted, clean, n
<1>3. /\ sorted \in Seq(DatedRows) /\ Len(sorted) \in Nat
      /\ DOMAIN sorted = 1..Len(sorted)
      BY <1>2, DatedSeq DEF Collects
<1>4. \A i, j \in DOMAIN clean : i < j => clean[i].date < clean[j].date
      BY <1>2 DEF Keeps
<1>5. ASSUME NEW i \in DOMAIN clean
      PROVE  \E j \in usable : /\ rows[j] = clean[i]
                               /\ \A k \in usable : k > j => rows[k].date # rows[j].date
  <2>1. PICK p \in 1..Len(sorted) : /\ clean[i] = sorted[p]
                                    /\ p < Len(sorted) => sorted[p].date < sorted[p + 1].date
        BY <1>2 DEF Keeps
  <2>2. PICK j \in 1..n : /\ rows[j].close > 0 /\ rows[j] = sorted[p]
                          /\ Final(sorted, p) => Latest(rows, j, n)
        BY <1>2, <1>3 DEF Collects
  <2>3. Final(sorted, p)
        BY <2>1 DEF Final
  <2>4. Latest(rows, j, n)
        BY <2>2, <2>3
  <2>5. j \in usable /\ rows[j] = clean[i]
        BY <1>1, <2>1, <2>2
  <2>6. \A k \in usable : k > j => rows[k].date # rows[j].date
        BY <1>1, <2>4 DEF Latest
  <2> QED BY <2>5, <2>6
<1>6. ASSUME NEW i \in usable PROVE \E k \in DOMAIN clean : clean[k].date = rows[i].date
  <2>1. PICK p \in 1..Len(sorted) : sorted[p] = rows[i]
        BY <1>1, <1>2, <1>3 DEF Collects
  <2> QED BY <1>2, <2>1 DEF Keeps
<1>7. {clean[i].date : i \in DOMAIN clean} = {rows[i].date : i \in usable}
      BY <1>5, <1>6
<1> QED BY <1>4, <1>5, <1>7 DEF CleanIsLatest, clean

\* The cleaned prices are in date order, one for each date with a usable row, and
\* it is the last one given for it, for any rows in any order (strategy.py 32-50).
THEOREM CleaningKeepsTheLatest == Spec => []CleanIsLatest
BY RowsStayOK, CleanRowsAreLatest, PTL

-------------------------------------------------------------------------------
(* No bar is traded on what comes after it                                   *)

\* The two courses are the same in the first n bars.
SameUpTo(ps, qs, n) ==
    /\ ps \in Seq(Nat) /\ qs \in Seq(Nat)
    /\ n \in Nat /\ n <= Len(ps) /\ n <= Len(qs)
    /\ \A i \in 1..n : ps[i] = qs[i]

SumIn(window) == FoldLeft(LAMBDA sum, price : sum + price, 0, window)

LEMMA WindowsAgree ==
    ASSUME NEW ps, NEW qs, NEW n, SameUpTo(ps, qs, n), NEW i \in 1..n, NEW w \in 1..i
    PROVE  WindowSum(ps, i, w) = WindowSum(qs, i, w)
<1> DEFINE a == i + 1 - w
<1>1. a \in 1..i /\ i \in Nat /\ i <= Len(ps) /\ i <= Len(qs) /\ a + (i - a) = i
      BY DEF SameUpTo
<1>2. \A k \in 1..i : ps[k] = qs[k]
      BY <1>1 DEF SameUpTo
<1> HIDE DEF a
<1>3. SubSeq(ps, a, i) = SubSeq(qs, a, i)
  <2>1. /\ SubSeq(ps, a, i) = [k \in 1..(i - a + 1) |-> ps[a + k - 1]]
        /\ SubSeq(qs, a, i) = [k \in 1..(i - a + 1) |-> qs[a + k - 1]]
        BY <1>1 DEF SameUpTo
  <2>2. \A k \in 1..(i - a + 1) : a + k - 1 \in 1..i
        BY <1>1
  <2>3. \A k \in 1..(i - a + 1) : ps[a + k - 1] = qs[a + k - 1]
        BY <1>2, <2>2
  <2>4. [k \in 1..(i - a + 1) |-> ps[a + k - 1]] = [k \in 1..(i - a + 1) |-> qs[a + k - 1]]
        BY <2>3
  <2> QED BY <2>1, <2>4
<1>4. /\ WindowSum(ps, i, w) = SumIn(SubSeq(ps, a, i))
      /\ WindowSum(qs, i, w) = SumIn(SubSeq(qs, a, i))
      BY DEF WindowSum, SumIn, a
<1> QED BY <1>3, <1>4

LEMMA SignalsAgree ==
    ASSUME NEW ps, NEW qs, NEW n, SameUpTo(ps, qs, n), NEW i \in 1..n
    PROVE  Signal(ps, i) = Signal(qs, i)
<1>1. CASE i < LongWindow
      BY <1>1 DEF Signal
<1>2. CASE ~ (i < LongWindow)
  <2>1. n \in Nat /\ LongWindow \in 1..i /\ ShortWindow \in 1..i
    <3>1. n \in Nat /\ i \in Nat
          BY DEF SameUpTo
    <3>2. /\ ShortWindow \in Nat /\ 0 < ShortWindow /\ ShortWindow < LongWindow
          /\ LongWindow \in Nat
          BY BacktestAssumption
    <3> QED BY <1>2, <3>1, <3>2
  <2>2. /\ WindowSum(ps, i, ShortWindow) = WindowSum(qs, i, ShortWindow)
        /\ WindowSum(ps, i, LongWindow) = WindowSum(qs, i, LongWindow)
        BY <2>1, WindowsAgree
  <2> QED BY <2>2 DEF Signal
<1> QED BY <1>1, <1>2

\* The position of a bar depends on the bars before it only.
LEMMA PositionsAgree ==
    ASSUME NEW ps, NEW qs, NEW n, SameUpTo(ps, qs, n), NEW i \in 1..(n + 1)
    PROVE  Position(ps, i) = Position(qs, i)
<1>1. CASE i = 1
      BY <1>1 DEF Position
<1>2. CASE i # 1
  <2>1. i - 1 \in 1..n
        BY <1>2 DEF SameUpTo
  <2>2. Signal(ps, i - 1) = Signal(qs, i - 1)
        BY <2>1, SignalsAgree
  <2> QED BY <1>2, <2>2 DEF Position
<1> QED BY <1>1, <1>2

LEMMA BarFactorsAgree ==
    ASSUME NEW ps, NEW qs, NEW n, SameUpTo(ps, qs, n), NEW i \in 2..n
    PROVE  BarFactor(ps, i) = BarFactor(qs, i)
<1>1. n \in Nat /\ i \in 1..n /\ i - 1 \in 1..n /\ i \in 1..(n + 1) /\ i - 1 \in 1..(n + 1)
      BY DEF SameUpTo
<1>2. ps[i] = qs[i] /\ ps[i - 1] = qs[i - 1]
      BY <1>1 DEF SameUpTo
<1>3. Position(ps, i) = Position(qs, i) /\ Position(ps, i - 1) = Position(qs, i - 1)
      BY <1>1, PositionsAgree
<1> QED BY <1>2, <1>3 DEF BarFactor, Changes

EquityStep(ps, g, i) == IF i = 1 THEN Whole(1) ELSE Times(g[i - 1], BarFactor(ps, i))

EquityFcn(ps) == CHOOSE g : g = [i \in DOMAIN ps |-> EquityStep(ps, g, i)]

LEMMA EquityFcnIs ==
    ASSUME NEW ps \in Seq(Nat)
    PROVE  /\ Equity(ps) = [i \in 1..Len(ps) |-> EquityFcn(ps)[i]]
           /\ EquityFcn(ps) = [i \in 1..Len(ps) |-> EquityStep(ps, EquityFcn(ps), i)]
<1> DEFINE N == {n \in Nat : \E g : g = [i \in 1..n |-> EquityStep(ps, g, i)]}
<1>1. Len(ps) \in Nat /\ DOMAIN ps = 1..Len(ps)
      BY LenProperties
<1>2. 0 \in N
  <2> DEFINE g == [i \in 1..0 |-> i]
  <2>1. g = [i \in 1..0 |-> EquityStep(ps, g, i)]
        OBVIOUS
  <2> HIDE DEF g
  <2> QED BY <2>1
<1>3. ASSUME NEW n \in Nat, n \in N PROVE n + 1 \in N
  <2>1. PICK g : g = [i \in 1..n |-> EquityStep(ps, g, i)]
        BY <1>3
  <2> DEFINE h == [i \in 1..(n + 1) |-> EquityStep(ps, g, i)]
  <2>2. ASSUME NEW i \in 1..(n + 1) PROVE EquityStep(ps, g, i) = EquityStep(ps, h, i)
    <3>1. CASE i = 1
          BY <3>1 DEF EquityStep
    <3>2. CASE i # 1
      <4>1. i - 1 \in 1..n /\ i - 1 \in 1..(n + 1)
            BY <3>2
      <4>2. h[i - 1] = g[i - 1]
            BY <2>1, <4>1
      <4> HIDE DEF h
      <4> QED BY <3>2, <4>2 DEF EquityStep
    <3> QED BY <3>1, <3>2
  <2>3. h = [i \in 1..(n + 1) |-> EquityStep(ps, h, i)]
        BY <2>2
  <2> HIDE DEF h
  <2>4. \E hh : hh = [i \in 1..(n + 1) |-> EquityStep(ps, hh, i)]
        BY <2>3
  <2> QED BY <2>4
<1>4. Nat \subseteq N
  <2> HIDE DEF N
  <2> QED BY <1>2, <1>3, SetInduction
<1>5. \E g : g = [i \in 1..Len(ps) |-> EquityStep(ps, g, i)]
      BY <1>1, <1>4
<1>6. EquityFcn(ps) = [i \in 1..Len(ps) |-> EquityStep(ps, EquityFcn(ps), i)]
      BY <1>1, <1>5 DEF EquityFcn
<1>7. Equity(ps) = [i \in 1..Len(ps) |-> EquityFcn(ps)[i]]
      BY <1>1 DEF Equity, EquityFcn, EquityStep
<1> QED BY <1>6, <1>7

LEMMA EquitiesAgree ==
    ASSUME NEW ps, NEW qs, NEW n, SameUpTo(ps, qs, n)
    PROVE  \A i \in 1..n : Equity(ps)[i] = Equity(qs)[i]
<1> DEFINE F == EquityFcn(ps)
           G == EquityFcn(qs)
           N == {k \in Nat : k + 1 <= n => F[k + 1] = G[k + 1]}
<1>1. /\ ps \in Seq(Nat) /\ qs \in Seq(Nat) /\ n \in Nat
      /\ Len(ps) \in Nat /\ Len(qs) \in Nat /\ n <= Len(ps) /\ n <= Len(qs)
      BY LenProperties DEF SameUpTo
<1>2. /\ \A i \in 1..Len(ps) : Equity(ps)[i] = F[i] /\ F[i] = EquityStep(ps, F, i)
      /\ \A i \in 1..Len(qs) : Equity(qs)[i] = G[i] /\ G[i] = EquityStep(qs, G, i)
      BY <1>1, EquityFcnIs
<1> HIDE DEF F, G
<1>3. 0 \in N
  <2> SUFFICES ASSUME 1 <= n PROVE F[1] = G[1]
      OBVIOUS
  <2>1. 1 \in 1..Len(ps) /\ 1 \in 1..Len(qs)
        BY <1>1
  <2> QED BY <1>2, <2>1 DEF EquityStep
<1>4. ASSUME NEW k \in Nat, k \in N PROVE k + 1 \in N
  <2> SUFFICES ASSUME (k + 1) + 1 <= n PROVE F[(k + 1) + 1] = G[(k + 1) + 1]
      OBVIOUS
  <2> DEFINE i == (k + 1) + 1
  <2>1. /\ i \in 1..Len(ps) /\ i \in 1..Len(qs) /\ i # 1 /\ i - 1 = k + 1 /\ i \in 2..n
        BY <1>1
  <2>2. F[i - 1] = G[i - 1]
        BY <1>1, <1>4, <2>1
  <2> HIDE DEF i
  <2>3. BarFactor(ps, i) = BarFactor(qs, i)
        BY <2>1, BarFactorsAgree
  <2>4. F[i] = EquityStep(ps, F, i) /\ G[i] = EquityStep(qs, G, i)
        BY <1>2, <2>1
  <2>5. F[i] = G[i]
        BY <2>1, <2>2, <2>3, <2>4 DEF EquityStep
  <2> QED BY <2>5 DEF i
<1>5. Nat \subseteq N
  <2> HIDE DEF N
  <2> QED BY <1>3, <1>4, SetInduction
<1>6. ASSUME NEW i \in 1..n PROVE Equity(ps)[i] = Equity(qs)[i]
  <2>1. i - 1 \in Nat /\ (i - 1) + 1 = i /\ i <= n /\ i \in 1..Len(ps) /\ i \in 1..Len(qs)
        BY <1>1
  <2>2. F[i] = G[i]
        BY <1>5, <2>1
  <2> QED BY <1>2, <2>1, <2>2
<1> QED BY <1>6

LEMMA PricesType ==
    ASSUME RowsOK
    PROVE  Prices(rows) \in Seq(Nat)
<1> DEFINE clean == CleanPrices(rows)
<1>1. clean \in Seq(DatedRows)
      BY CleanPricesKeeps DEF RowsOK, Keeps
<1> HIDE DEF clean
<1>2. Len(clean) \in Nat /\ DOMAIN clean = 1..Len(clean)
      /\ \A i \in 1..Len(clean) : clean[i].close \in Nat
      BY <1>1, DatedSeq
<1>3. Prices(rows) = [i \in 1..Len(clean) |-> clean[i].close]
      BY <1>2 DEF Prices, clean
<1> QED BY <1>2, <1>3

Values(s, n) == {s[i] : i \in 1..n}

LEMMA IsSeqOfValues ==
    ASSUME NEW n \in Nat, NEW s, s = [i \in 1..n |-> s[i]]
    PROVE  s \in Seq(Values(s, n))
<1>1. \A i \in 1..n : s[i] \in Values(s, n)
      BY DEF Values
<1> DEFINE V == Values(s, n)
<1> HIDE DEF V
<1>2. s \in [1..n -> V]
      BY <1>1 DEF V
<1>3. s \in Seq(V)
      BY <1>2
<1> QED BY <1>3 DEF V

LEMMA NothingIsForeseen == RowsOK => NoLookahead
<1> SUFFICES ASSUME RowsOK PROVE NoLookahead
    OBVIOUS
<1> DEFINE prices == Prices(rows)
<1>1. prices \in Seq(Nat) /\ Len(prices) \in Nat
      BY PricesType, LenProperties
<1> HIDE DEF prices
<1> SUFFICES ASSUME NEW n \in (LongWindow + 1)..(Len(prices) - 1)
             PROVE  LET before == SubSeq(prices, 1, n) IN
                    /\ \A i \in 1..n : Position(prices, i) = Position(before, i)
                    /\ IsPrefix(Equity(before), Equity(prices))
                    /\ \A close \in Closes \ {0} :
                          Position([prices EXCEPT ![n + 1] = close], n + 1)
                             = Position(prices, n + 1)
    BY DEF NoLookahead, prices
<1> DEFINE before == SubSeq(prices, 1, n)
<1>2. n \in Nat /\ n + 1 \in 1..Len(prices) /\ n <= Len(prices)
      BY <1>1, BacktestAssumption
<1>3. before \in Seq(Nat) /\ Len(before) = n /\ \A i \in 1..n : before[i] = prices[i]
  <2>1. before = [i \in 1..n |-> prices[i]]
        BY <1>1, <1>2
  <2>2. \A i \in 1..n : prices[i] \in Nat
        BY <1>1, <1>2
  <2> HIDE DEF before
  <2>3. before \in [1..n -> Nat] /\ \A i \in 1..n : before[i] = prices[i]
        BY <2>1, <2>2
  <2>4. before \in Seq(Nat)
        BY <1>2, <2>3
  <2>5. DOMAIN before = 1..n /\ DOMAIN before = 1..Len(before) /\ Len(before) \in Nat
        BY <2>3, <2>4, LenProperties
  <2>6. Len(before) = n
        BY <1>2, <2>5
  <2> QED BY <2>3, <2>4, <2>6
<1> HIDE DEF before
<1>4. SameUpTo(prices, before, n)
      BY <1>1, <1>2, <1>3 DEF SameUpTo
<1>5. \A i \in 1..n : Position(prices, i) = Position(before, i)
      BY <1>2, <1>4, PositionsAgree
<1>6. IsPrefix(Equity(before), Equity(prices))
  <2> DEFINE b == Equity(before)
             e == Equity(prices)
  <2>1. \A i \in 1..n : e[i] = b[i]
        BY <1>4, EquitiesAgree
  <2>2. /\ b = [i \in 1..n |-> EquityFcn(before)[i]]
        /\ e = [i \in 1..Len(prices) |-> EquityFcn(prices)[i]]
        BY <1>1, <1>3, EquityFcnIs
  <2> HIDE DEF b, e
  <2>3. Len(b) = n /\ Len(e) = Len(prices)
        BY <1>1, <1>2, <2>2
  <2>4. b \in Seq(Values(b, n)) /\ e \in Seq(Values(e, Len(prices)))
        BY <1>1, <1>2, <2>2, <2>3, IsSeqOfValues
  <2>5. SubSeq(b, 1, n) = [i \in 1..n |-> b[i]] /\ SubSeq(e, 1, n) = [i \in 1..n |-> e[i]]
        BY <1>1, <1>2, <2>3, <2>4
  <2>6. Len(b) <= Len(e) /\ SubSeq(b, 1, Len(b)) = SubSeq(e, 1, Len(b))
        BY <1>2, <2>1, <2>3, <2>5
  <2> QED BY <2>6 DEF IsPrefix, b, e
<1>7. ASSUME NEW close \in Closes \ {0}
      PROVE  Position([prices EXCEPT ![n + 1] = close], n + 1) = Position(prices, n + 1)
  <2> DEFINE changed == [prices EXCEPT ![n + 1] = close]
  <2>1. close \in Nat
        BY BacktestAssumption
  <2>2. changed \in Seq(Nat) /\ Len(changed) = Len(prices)
        BY <1>1, <1>2, <2>1, ExceptSeq
  <2>3. \A i \in 1..n : changed[i] = prices[i]
        BY <1>1, <1>2
  <2> HIDE DEF changed
  <2>4. SameUpTo(changed, prices, n)
        BY <1>1, <1>2, <2>2, <2>3 DEF SameUpTo
  <2>5. n + 1 \in 1..(n + 1)
        BY <1>2
  <2>6. Position(changed, n + 1) = Position(prices, n + 1)
        BY <2>4, <2>5, PositionsAgree
  <2> QED BY <2>6 DEF changed
<1> QED BY <1>5, <1>6, <1>7 DEF before

\* What the strategy did and made by a bar is the same without the bars after it,
\* and its next position does not depend on the next close, for any rows and
\* windows (strategy.py 84-119).
THEOREM NothingIsTradedAhead == Spec => []NoLookahead
BY RowsStayOK, NothingIsForeseen, PTL

-------------------------------------------------------------------------------
(* Falls below a peak                                                        *)

\* By what part a value is below a peak.
Fall(peak, value) == Minus(Whole(1), Over(value, peak))

\* A fall is worth the difference over the peak.
LEMMA FallWorth ==
    ASSUME NEW p \in Positives, NEW v \in Positives
    PROVE  Worth(Fall(p, v), p.n * v.d - v.n * p.d, p.n * v.d) /\ Fall(p, v) \in Lows
<1>1. /\ p.n \in Int /\ p.n > 0 /\ p.d \in Nat \ {0} /\ v.n \in Int /\ v.n > 0 /\ v.d \in Nat \ {0}
      /\ Worth(p, p.n, p.d) /\ Worth(v, v.n, v.d) /\ p \in Lows /\ v \in Lows
      BY LowFields, LowWorth DEF Positives
<1>2. Worth(Over(v, p), v.n * p.d, v.d * p.n) /\ Over(v, p) \in Lows
      BY <1>1, OverWorth, LowArithmetic
<1>3. p.n * v.d = v.d * p.n /\ v.d * p.n \in Nat \ {0}
      BY <1>1
<1>4. Worth(Whole(1), 1 * (v.d * p.n), v.d * p.n) /\ 1 * (v.d * p.n) = v.d * p.n /\ Whole(1) \in Lows
      BY <1>3, WholeWorth, WholeIsLowest
<1>5. Worth(Fall(p, v), v.d * p.n - v.n * p.d, v.d * p.n)
      BY <1>2, <1>4, PlusWorth DEF Fall
<1> QED BY <1>2, <1>3, <1>4, <1>5, LowArithmetic DEF Fall

\* The same fall as the code computes it (risk.py 84): less than nothing.
LEMMA FallFromBelow ==
    ASSUME NEW p \in Positives, NEW v \in Positives
    PROVE  /\ Over(Minus(v, p), p) \in Lows
           /\ Minus(Whole(0), Over(Minus(v, p), p)) = Fall(p, v)
<1> DEFINE a == p.n
           b == p.d
           c == v.n
           d == v.d
<1>1. /\ a \in Int /\ a > 0 /\ b \in Nat \ {0} /\ c \in Int /\ c > 0 /\ d \in Nat \ {0}
      /\ Worth(p, a, b) /\ Worth(v, c, d) /\ p \in Lows /\ v \in Lows /\ p.n > 0
      BY LowFields, LowWorth DEF Positives
<1>2. Worth(Fall(p, v), a * d - c * b, a * d) /\ Fall(p, v) \in Lows
      BY FallWorth
<1> HIDE DEF a, b, c, d
<1>3. Worth(p, a * d, b * d) /\ Worth(v, c * b, b * d)
  <2>1. Worth(v, c * b, d * b) /\ d * b = b * d
        BY <1>1, WorthTimes
  <2> QED BY <1>1, <2>1, WorthTimes
<1>4. Worth(Minus(v, p), c * b - a * d, b * d) /\ Minus(v, p) \in Lows
      BY <1>1, <1>3, PlusWorth, LowArithmetic
<1> DEFINE x == c * b - a * d
           y == a * d
           B == b * d
<1>5. x \in Int /\ y \in Nat \ {0} /\ B \in Nat \ {0} /\ a * d - c * b = -x
      BY <1>1
<1>6. Worth(Minus(v, p), x, B) /\ Worth(p, y, B) /\ Worth(Fall(p, v), -x, y)
      BY <1>2, <1>3, <1>4, <1>5
<1> HIDE DEF x, y, B
<1>7. Worth(Over(Minus(v, p), p), x * B, B * y)
  <2>1. y > 0
        BY <1>5
  <2> QED BY <1>6, <2>1, OverWorth
<1>8. Over(Minus(v, p), p) \in Lows
      BY <1>1, <1>4, LowArithmetic
<1>9. Worth(Whole(0), 0 * (B * y), B * y) /\ Whole(0) \in Lows
      BY <1>5, WholeWorth, WholeIsLowest
<1>10. Worth(Minus(Whole(0), Over(Minus(v, p), p)), 0 * (B * y) - x * B, B * y)
      BY <1>7, <1>9, PlusWorth
<1>11. Minus(Whole(0), Over(Minus(v, p), p)) = Fraction(0 * (B * y) - x * B, B * y)
      BY <1>8, <1>9, <1>10, LowArithmetic, WorthDecides
<1>12. 0 * (B * y) - x * B = B * (-x)
      BY <1>5
<1>13. Fraction(B * (-x), B * y) = Fraction(-x, y)
      BY <1>5, FractionScales
<1>14. Fall(p, v) = Fraction(-x, y)
      BY <1>2, <1>6, WorthDecides
<1> QED BY <1>8, <1>11, <1>12, <1>13, <1>14

\* The lower peak is fallen from less.
LEMMA LowerPeakFallsLess ==
    ASSUME NEW p \in Positives, NEW q \in Positives, NEW v \in Positives, AtMost(q, p)
    PROVE  AtMost(Fall(q, v), Fall(p, v))
<1> DEFINE a == p.n
           b == p.d
           c == q.n
           d == q.d
           m == v.n
           e == v.d
<1>1. /\ a \in Int /\ a > 0 /\ b \in Nat \ {0} /\ c \in Int /\ c > 0 /\ d \in Nat \ {0}
      /\ m \in Int /\ m > 0 /\ e \in Nat \ {0} /\ c * b <= a * d
      BY LowFields DEF Positives, AtMost
<1>2. Worth(Fall(p, v), a * e - m * b, a * e) /\ Worth(Fall(q, v), c * e - m * d, c * e)
      BY FallWorth
<1> HIDE DEF a, b, c, d, m, e
<1>3. AtMost(Fall(q, v), Fall(p, v)) <=> (c * e - m * d) * (a * e) <= (a * e - m * b) * (c * e)
      BY <1>2, WorthAtMost
<1>4. (c * e - m * d) * (a * e) = (c * e) * (a * e) - (a * d) * (m * e)
  <2>1. (c * e - m * d) * (a * e) = (c * e) * (a * e) - (m * d) * (a * e)
        BY <1>1
  <2>2. (m * d) * (a * e) = (a * d) * (m * e)
        BY <1>1
  <2> QED BY <2>1, <2>2
<1>5. (a * e - m * b) * (c * e) = (c * e) * (a * e) - (c * b) * (m * e)
  <2>1. (a * e - m * b) * (c * e) = (a * e) * (c * e) - (m * b) * (c * e)
        BY <1>1
  <2>2. (m * b) * (c * e) = (c * b) * (m * e) /\ (a * e) * (c * e) = (c * e) * (a * e)
        BY <1>1
  <2> QED BY <2>1, <2>2
<1>6. (c * b) * (m * e) <= (a * d) * (m * e)
  <2> DEFINE x == c * b
             y == a * d
             z == m * e
  <2>1. x \in Int /\ y \in Int /\ z \in Int /\ z > 0 /\ x <= y
        BY <1>1
  <2> HIDE DEF x, y, z
  <2>2. x * z <= y * z
        BY <2>1
  <2> QED BY <2>2 DEF x, y, z
<1> DEFINE u == (c * e) * (a * e)
           s == (c * b) * (m * e)
           t == (a * d) * (m * e)
<1>7. u \in Int /\ s \in Int /\ t \in Int /\ s <= t
      BY <1>1, <1>6
<1> HIDE DEF u, s, t
<1>8. u - t <= u - s
      BY <1>7
<1> QED BY <1>3, <1>4, <1>5, <1>8 DEF u, s, t

LEMMA LowestHighest ==
    ASSUME NEW f \in Lows, NEW g \in Lows
    PROVE  /\ Highest(f, g) \in {f, g} /\ AtMost(f, Highest(f, g)) /\ AtMost(g, Highest(f, g))
           /\ Lowest(f, g) \in {f, g} /\ AtMost(Lowest(f, g), f) /\ AtMost(Lowest(f, g), g)
<1>1. AtMost(f, f) /\ AtMost(g, g) /\ (AtMost(f, g) \/ AtMost(g, f))
      BY LowFields, OrderOfFractions
<1> QED BY <1>1 DEF Highest, Lowest

-------------------------------------------------------------------------------
(* The pass of max_drawdown                                                  *)

PassStates == [peak : Positives, worst : Lows]

AfterPass(state, value) ==
    LET peak == Highest(state.peak, value) IN
    [peak |-> peak, worst |-> Lowest(state.worst, Over(Minus(value, peak), peak))]

BeforePass(curve) == [peak |-> curve[1], worst |-> Whole(0)]

LEMMA AfterPassType ==
    ASSUME NEW state \in PassStates, NEW value \in Positives
    PROVE  AfterPass(state, value) \in PassStates
<1> DEFINE peak == Highest(state.peak, value)
<1>1. state.peak \in Positives /\ state.worst \in Lows /\ Positives \subseteq Lows
      BY DEF PassStates, Positives
<1>2. peak \in Positives
      BY <1>1, LowestHighest
<1> HIDE DEF peak
<1>3. Over(Minus(value, peak), peak) \in Lows
      BY <1>2, FallFromBelow
<1>4. Lowest(state.worst, Over(Minus(value, peak), peak)) \in Lows
      BY <1>1, <1>3, LowestHighest
<1> QED BY <1>2, <1>4 DEF AfterPass, PassStates, peak

PassStep(s, g, T) ==
    IF T = {} THEN BeforePass(s) ELSE AfterPass(g[T \ {Max(T)}], s[Max(T)])

PassFcn(s) == CHOOSE g : g = [T \in SUBSET (DOMAIN s) |-> PassStep(s, g, T)]

\* The state of the pass after k values.
Passed(s, k) == PassFcn(s)[1..k]

LEMMA PassSteps ==
    ASSUME NEW s \in Seq(Positives), Len(s) > 0
    PROVE  /\ MaxDrawdown(s) = Minus(Whole(0), Passed(s, Len(s)).worst)
           /\ Passed(s, 0) = BeforePass(s)
           /\ \A k \in 0..(Len(s) - 1) : Passed(s, k + 1) = AfterPass(Passed(s, k), s[k + 1])
<1> DEFINE op == [p \in PassStates \X Positives |-> AfterPass(p[1], p[2])]
           F == PassFcn(s)
           n == Len(s)
<1>1. n \in Nat /\ n > 0 /\ DOMAIN s = 1..n /\ \A i \in 1..n : s[i] \in Positives
      BY LenProperties, ElementOfSeq
<1>2. \A x \in PassStates, e \in Positives : op[<<x, e>>] = AfterPass(x, e)
      OBVIOUS
<1>3. op \in [PassStates \X Positives -> PassStates]
      BY AfterPassType
<1>4. BeforePass(s) \in PassStates
  <2>1. 1 \in 1..n /\ 0 \in Int
        BY <1>1
  <2> QED BY <1>1, <2>1, WholeIsLowest DEF BeforePass, PassStates
<1> HIDE DEF op, n
<1>5. HasFold(op, BeforePass(s), s, PassStates, n)
      BY <1>1, <1>3, <1>4, FoldExists
<1>6. PICK g \in [SUBSET (1..n) -> PassStates] :
              \A T \in SUBSET (1..n) : g[T] = FoldStep(op, BeforePass(s), s, g, T)
      BY <1>5 DEF HasFold
<1>7. ASSUME NEW T \in SUBSET (1..n) PROVE g[T] = PassStep(s, g, T)
  <2>1. CASE T = {}
        BY <1>6, <2>1 DEF FoldStep, PassStep
  <2>2. CASE T # {}
    <3>1. g[T \ {Max(T)}] \in PassStates /\ s[Max(T)] \in Positives
          BY <1>1, <2>2, FoldArguments
    <3>2. g[T] = op[<<g[T \ {Max(T)}], s[Max(T)]>>]
          BY <1>6, <2>2 DEF FoldStep
    <3> QED BY <1>2, <2>2, <3>1, <3>2 DEF PassStep
  <2> QED BY <2>1, <2>2
<1>8. g = [T \in SUBSET (DOMAIN s) |-> PassStep(s, g, T)]
      BY <1>1, <1>7
<1>9. F = [T \in SUBSET (DOMAIN s) |-> PassStep(s, F, T)]
      BY <1>8 DEF PassFcn
<1> HIDE DEF F
<1>10. F[1..0] = BeforePass(s)
      BY <1>1, <1>9 DEF PassStep
<1>11. ASSUME NEW k \in 0..(n - 1) PROVE F[1..(k + 1)] = AfterPass(F[1..k], s[k + 1])
  <2>1. 1..(k + 1) \in SUBSET (DOMAIN s) /\ k \in Nat
        BY <1>1
  <2>2. F[1..(k + 1)] = PassStep(s, F, 1..(k + 1))
        BY <1>9, <2>1
  <2> QED BY <2>1, <2>2, FirstOnes DEF PassStep
<1>12. MaxDrawdown(s) = Minus(Whole(0), F[DOMAIN s].worst)
      BY DEF MaxDrawdown, FoldLeft, MapThenFoldSet, PassFcn, PassStep, BeforePass, AfterPass, F
<1> QED BY <1>1, <1>10, <1>11, <1>12 DEF Passed, F, n

\* How deep the worst fall of the pass is.
Depth(state) == Minus(Whole(0), state.worst)

\* After k values the peak is the highest of them and the depth the worst fall
\* between any two of them.
PassTold(state, curve, k) ==
    /\ state \in PassStates
    /\ k = 0 => state.peak = curve[1]
    /\ k > 0 => \E i \in 1..k : state.peak = curve[i]
    /\ \A j \in 1..k : AtMost(curve[j], state.peak)
    /\ \A i, j \in 1..k : i <= j => AtMost(Fall(curve[i], curve[j]), Depth(state))
    /\ \E i, j \in 1..Len(curve) : i <= j /\ Depth(state) = Fall(curve[i], curve[j])

LEMMA NoFall ==
    ASSUME NEW p \in Positives
    PROVE  Minus(Whole(0), Whole(0)) = Fall(p, p)
<1>1. p.n \in Int /\ p.n > 0 /\ p.d \in Nat \ {0} /\ p.n * p.d - p.n * p.d = 0 /\ p.n * p.d \in Nat \ {0}
      BY LowFields DEF Positives
<1>2. Worth(Fall(p, p), 0, p.n * p.d) /\ Fall(p, p) \in Lows
      BY <1>1, FallWorth
<1>3. Fall(p, p) = Fraction(0, p.n * p.d)
      BY <1>2, WorthDecides
<1>4. Minus(Whole(0), Whole(0)) = Fraction(0, 1)
      BY DEF Minus, Whole
<1>5. 0 * 1 = 0 * (p.n * p.d)
      BY <1>1
<1>6. Fraction(0, p.n * p.d) = Fraction(0, 1)
      BY <1>1, <1>5, FractionsAreUnique
<1> QED BY <1>3, <1>4, <1>6

LEMMA PassBegins ==
    ASSUME NEW curve \in Seq(Positives), Len(curve) > 0
    PROVE  PassTold(BeforePass(curve), curve, 0)
<1>1. Len(curve) \in Nat /\ 1 \in 1..Len(curve) /\ curve[1] \in Positives
      BY LenProperties, ElementOfSeq
<1>2. BeforePass(curve) \in PassStates
      BY <1>1, WholeIsLowest DEF BeforePass, PassStates
<1>3. Depth(BeforePass(curve)) = Fall(curve[1], curve[1])
      BY <1>1, NoFall DEF Depth, BeforePass
<1>4. BeforePass(curve).peak = curve[1] /\ 1 <= 1
      BY DEF BeforePass
<1>5. \E i, j \in 1..Len(curve) : i <= j /\ Depth(BeforePass(curve)) = Fall(curve[i], curve[j])
      BY <1>1, <1>3, <1>4
<1> QED BY <1>2, <1>4, <1>5 DEF PassTold

LEMMA PassGoesOn ==
    ASSUME NEW curve \in Seq(Positives), NEW k \in 0..(Len(curve) - 1), NEW state,
           PassTold(state, curve, k)
    PROVE  PassTold(AfterPass(state, curve[k + 1]), curve, k + 1)
<1> DEFINE n == Len(curve)
           value == curve[k + 1]
           after == AfterPass(state, value)
           peak == after.peak
           fallen == Over(Minus(value, peak), peak)
<1>1. n \in Nat /\ k \in Nat /\ k + 1 \in 1..n /\ (\A i \in 1..n : curve[i] \in Positives)
      /\ \A i \in 1..k : i \in 1..n
      BY LenProperties, ElementOfSeq
<1>2. state \in PassStates /\ state.peak \in Positives /\ state.worst \in Lows
      BY DEF PassTold, PassStates
<1>3. value \in Positives /\ Positives \subseteq Lows /\ Lows \subseteq Fracs
      BY <1>1 DEF Positives, Lows
<1> HIDE DEF value, n
<1>4. after \in PassStates
      BY <1>2, <1>3, AfterPassType
<1>5. after.peak = Highest(state.peak, value) /\ after.worst = Lowest(state.worst, fallen)
      BY DEF AfterPass
<1> HIDE DEF after
<1>6. peak \in Positives /\ after.worst \in Lows
      BY <1>4 DEF PassStates
<1>7. peak \in {state.peak, value} /\ AtMost(state.peak, peak) /\ AtMost(value, peak)
      BY <1>2, <1>3, <1>5, LowestHighest
<1>8. fallen \in Lows /\ Minus(Whole(0), fallen) = Fall(peak, value)
      BY <1>3, <1>6, FallFromBelow
<1> HIDE DEF peak, fallen
<1>9. /\ after.worst \in {state.worst, fallen}
      /\ AtMost(after.worst, state.worst) /\ AtMost(after.worst, fallen)
      BY <1>2, <1>5, <1>8, LowestHighest
<1>10. /\ Depth(after) \in {Depth(state), Fall(peak, value)}
       /\ AtMost(Depth(state), Depth(after)) /\ AtMost(Fall(peak, value), Depth(after))
  <2>1. /\ AtMost(Minus(Whole(0), state.worst), Minus(Whole(0), after.worst))
        /\ AtMost(Minus(Whole(0), fallen), Minus(Whole(0), after.worst))
        BY <1>2, <1>6, <1>8, <1>9, MinusTurns
  <2> QED BY <1>8, <1>9, <2>1 DEF Depth
<1>11. Depth(state) \in Fracs /\ Depth(after) \in Fracs
      BY <1>2, <1>3, <1>6, WholeIsLowest, LowArithmetic DEF Depth
<1>12. \E i \in 1..(k + 1) : peak = curve[i]
  <2>1. CASE peak = value
        BY <1>1, <2>1 DEF value
  <2>2. CASE peak = state.peak /\ k = 0
        BY <1>1, <2>2 DEF PassTold
  <2>3. CASE peak = state.peak /\ k > 0
    <3>1. PICK i \in 1..k : state.peak = curve[i]
          BY <2>3 DEF PassTold
    <3>2. i \in 1..(k + 1)
          BY <1>1
    <3> QED BY <2>3, <3>1, <3>2
  <2> QED BY <1>1, <1>7, <2>1, <2>2, <2>3
<1>13. ASSUME NEW j \in 1..(k + 1) PROVE AtMost(curve[j], peak)
  <2>1. CASE j = k + 1
        BY <1>7, <2>1 DEF value
  <2>2. CASE j \in 1..k
    <3>1. AtMost(curve[j], state.peak) /\ curve[j] \in Fracs /\ state.peak \in Fracs /\ peak \in Fracs
          BY <1>1, <1>2, <1>3, <1>6, <2>2 DEF PassTold
    <3> QED BY <1>7, <3>1, AtMostTransitive
  <2> QED BY <1>1, <2>1, <2>2
<1>14. ASSUME NEW i \in 1..(k + 1), NEW j \in 1..(k + 1), i <= j
       PROVE  AtMost(Fall(curve[i], curve[j]), Depth(after))
  <2>1. i \in 1..n /\ j \in 1..n
        BY <1>1
  <2>2. curve[i] \in Positives /\ curve[j] \in Positives
        BY <1>1, <2>1
  <2>3. Fall(curve[i], curve[j]) \in Fracs
        BY <1>3, <2>2, FallWorth
  <2>4. CASE j = k + 1
    <3>1. AtMost(Fall(curve[i], value), Fall(peak, value))
          BY <1>3, <1>6, <1>13, <2>2, LowerPeakFallsLess
    <3>2. Fall(peak, value) \in Fracs
          BY <1>3, <1>6, FallWorth
    <3>3. Fall(curve[i], curve[j]) = Fall(curve[i], value)
          BY <2>4 DEF value
    <3> QED BY <1>10, <1>11, <2>3, <3>1, <3>2, <3>3, AtMostTransitive
  <2>5. CASE j \in 1..k
    <3>1. i \in 1..k
          BY <1>1, <1>14, <2>5
    <3>2. AtMost(Fall(curve[i], curve[j]), Depth(state))
          BY <1>14, <2>5, <3>1 DEF PassTold
    <3> QED BY <1>10, <1>11, <2>3, <3>2, AtMostTransitive
  <2> QED BY <1>1, <2>4, <2>5
<1>15. \E i, j \in 1..n : i <= j /\ Depth(after) = Fall(curve[i], curve[j])
  <2>1. CASE Depth(after) = Depth(state)
        BY <2>1 DEF PassTold, n
  <2>2. CASE Depth(after) = Fall(peak, value)
    <3>1. PICK i \in 1..(k + 1) : peak = curve[i]
          BY <1>12
    <3>2. i \in 1..n /\ i <= k + 1
          BY <1>1
    <3> QED BY <1>1, <2>2, <3>1, <3>2 DEF value
  <2> QED BY <1>10, <2>1, <2>2
<1>16. k + 1 # 0 /\ peak = after.peak
      BY <1>1 DEF peak
<1> QED BY <1>4, <1>12, <1>13, <1>14, <1>15, <1>16 DEF PassTold, after, n, value

\* The pass finds the worst fall between any two points of a curve above zero, of
\* any length (risk.py 78-85).
THEOREM OnePassFindsTheWorstFall ==
    ASSUME NEW curve \in Seq(Positives), curve # <<>>
    PROVE  MaxDrawdown(curve) = WorstFall(curve)
<1> DEFINE n == Len(curve)
           N == {k \in Nat : k <= n => PassTold(Passed(curve, k), curve, k)}
           pairs == {p \in (DOMAIN curve) \X (DOMAIN curve) : p[1] <= p[2]}
           falls == {Minus(Whole(1), Over(curve[p[2]], curve[p[1]])) : p \in pairs}
           depth == Depth(Passed(curve, n))
<1>1. n \in Nat /\ n > 0 /\ DOMAIN curve = 1..n /\ \A i \in 1..n : curve[i] \in Positives
      BY LenProperties, ElementOfSeq, EmptySeq
<1>2. 0 \in N
      BY <1>1, PassSteps, PassBegins
<1>3. ASSUME NEW k \in Nat, k \in N PROVE k + 1 \in N
  <2> SUFFICES ASSUME k + 1 <= n PROVE PassTold(Passed(curve, k + 1), curve, k + 1)
      OBVIOUS
  <2>1. k \in 0..(n - 1) /\ k <= n
        BY <1>1
  <2>2. PassTold(Passed(curve, k), curve, k)
        BY <1>3, <2>1
  <2>3. Passed(curve, k + 1) = AfterPass(Passed(curve, k), curve[k + 1])
        BY <1>1, <2>1, PassSteps
  <2> QED BY <2>1, <2>2, <2>3, PassGoesOn
<1>4. Nat \subseteq N
  <2> HIDE DEF N
  <2> QED BY <1>2, <1>3, SetInduction
<1>5. PassTold(Passed(curve, n), curve, n)
      BY <1>1, <1>4
<1>6. MaxDrawdown(curve) = depth
      BY <1>1, PassSteps DEF Depth
<1> HIDE DEF N, depth
<1>7. PICK i \in 1..n, j \in 1..n : i <= j /\ depth = Fall(curve[i], curve[j])
      BY <1>5 DEF PassTold, depth
<1>8. \A p \in pairs : p[1] \in 1..n /\ p[2] \in 1..n /\ p[1] <= p[2]
      BY <1>1
<1>9. falls = {Fall(curve[p[1]], curve[p[2]]) : p \in pairs}
      BY DEF Fall
<1>10. depth \in falls
  <2>1. <<i, j>> \in pairs /\ <<i, j>>[1] = i /\ <<i, j>>[2] = j
        BY <1>1, <1>7
  <2> HIDE DEF pairs, falls
  <2> QED BY <1>7, <1>9, <2>1
<1>11. \A fall \in falls : AtMost(fall, depth) /\ fall \in Lows
  <2> SUFFICES ASSUME NEW p \in pairs
               PROVE  AtMost(Fall(curve[p[1]], curve[p[2]]), depth) /\ Fall(curve[p[1]], curve[p[2]]) \in Lows
      BY <1>9
  <2>1. p[1] \in 1..n /\ p[2] \in 1..n /\ p[1] <= p[2]
        BY <1>8
  <2> HIDE DEF pairs, falls
  <2>2. AtMost(Fall(curve[p[1]], curve[p[2]]), depth)
        BY <1>5, <2>1 DEF PassTold, depth
  <2>3. Fall(curve[p[1]], curve[p[2]]) \in Lows
        BY <1>1, <2>1, FallWorth
  <2> QED BY <2>2, <2>3
<1>12. WorstFall(curve) = CHOOSE worst \in falls : \A fall \in falls : AtMost(fall, worst)
      BY DEF WorstFall
<1> HIDE DEF falls, pairs
<1>13. PICK worst \in falls : worst = WorstFall(curve) /\ \A fall \in falls : AtMost(fall, worst)
      BY <1>10, <1>11, <1>12
<1>14. worst = depth
      BY <1>10, <1>11, <1>13, AtMostBothWays
<1> QED BY <1>6, <1>13, <1>14

-------------------------------------------------------------------------------
(* The equity is above zero                                                  *)

Paid == Nat \ {0}

LEMMA FractionIsPositive ==
    ASSUME NEW n \in Paid, NEW d \in Paid
    PROVE  Fraction(n, d) \in Positives
<1>1. n \in Int /\ n > 0 /\ d \in Nat \ {0}
      BY DEF Paid
<1>2. Fraction(n, d) \in Lows /\ Worth(Fraction(n, d), n, d)
      BY <1>1, FractionIsLowest, FractionWorth
<1>3. Fraction(n, d).n > 0
      BY <1>1, <1>2, WorthSign
<1> QED BY <1>2, <1>3 DEF Positives

LEMMA WholeIsPositive ==
    ASSUME NEW n \in Paid
    PROVE  Whole(n) \in Positives /\ Whole(n) = Fraction(n, 1)
<1>1. n \in Int /\ 1 \in Paid
      BY DEF Paid
<1> QED BY <1>1, WholeIsLowest, FractionIsPositive

LEMMA PositionIs ==
    ASSUME NEW ps, NEW i
    PROVE  Position(ps, i) \in {-1, 0, 1}
BY DEF Position, Signal

LEMMA PowerIsPositive ==
    ASSUME NEW f \in Positives, NEW e \in {-1, 0, 1}
    PROVE  Power(f, e) \in Positives
<1>1. Whole(1) \in Positives /\ Over(Whole(1), f) \in Positives
  <2>1. 1 \in Paid
        BY DEF Paid
  <2> QED BY <2>1, WholeIsPositive, PositiveArithmetic
<1>2. CASE e = 1
      BY <1>2 DEF Power
<1>3. CASE e = 0
      BY <1>1, <1>3 DEF Power
<1>4. CASE e = -1
      BY <1>1, <1>4 DEF Power
<1> QED BY <1>2, <1>3, <1>4

\* What a change of position leaves, in lowest terms.
Kept == Fraction(Keep.n, Keep.d)

LEMMA KeepIs ==
    /\ Kept \in Positives
    /\ \A f \in Lows : Times(f, Keep) = Times(f, Kept) /\ Times(Keep, f) = Times(Kept, f)
<1>1. Keep.n \in Paid /\ Keep.d \in Paid /\ Worth(Keep, Keep.n, Keep.d)
      BY BacktestAssumption DEF IsFraction, Worth, Paid
<1>2. Kept \in Positives
      BY <1>1, FractionIsPositive DEF Kept
<1>3. Worth(Kept, Keep.n, Keep.d)
      BY <1>1, FractionWorth DEF Kept, Worth
<1>4. ASSUME NEW f \in Lows
      PROVE  Times(f, Keep) = Times(f, Kept) /\ Times(Keep, f) = Times(Kept, f)
  <2>1. Worth(f, f.n, f.d) /\ f.n \in Int /\ f.d \in Nat \ {0}
        BY LowWorth, LowFields
  <2>2. /\ Worth(Times(f, Keep), f.n * Keep.n, f.d * Keep.d)
        /\ Worth(Times(Keep, f), Keep.n * f.n, Keep.d * f.d)
        /\ Worth(Times(f, Kept), f.n * Keep.n, f.d * Keep.d)
        /\ Worth(Times(Kept, f), Keep.n * f.n, Keep.d * f.d)
        BY <1>1, <1>3, <2>1, TimesWorth
  <2>3. Times(f, Kept) \in Lows /\ Times(Kept, f) \in Lows
        BY <1>2, LowArithmetic DEF Positives
  <2>4. /\ f.n * Keep.n \in Int /\ f.d * Keep.d \in Nat \ {0}
        /\ Keep.n * f.n \in Int /\ Keep.d * f.d \in Nat \ {0}
        BY <2>2 DEF Worth
  <2>5. Times(f, Keep) \in Lows /\ Times(Keep, f) \in Lows
        BY <2>4, FractionIsLowest DEF Times
  <2> QED BY <2>2, <2>3, <2>5, WorthDecides
<1> QED BY <1>2, <1>4

LEMMA BarFactorIsPositive ==
    ASSUME NEW ps \in Seq(Paid), NEW i \in 2..Len(ps)
    PROVE  BarFactor(ps, i) \in Positives
<1> DEFINE held == Power(Fraction(ps[i], ps[i - 1]), Position(ps, i))
<1>1. Len(ps) \in Nat /\ i \in 1..Len(ps) /\ i - 1 \in 1..Len(ps)
      BY LenProperties
<1>2. ps[i] \in Paid /\ ps[i - 1] \in Paid
      BY <1>1, ElementOfSeq
<1>3. held \in Positives
      BY <1>2, FractionIsPositive, PositionIs, PowerIsPositive
<1>4. BarFactor(ps, i) \in {held, Times(held, Keep)}
      BY DEF BarFactor
<1> HIDE DEF held
<1>5. Times(held, Keep) \in Positives
      BY <1>3, KeepIs, PositiveArithmetic DEF Positives
<1> QED BY <1>3, <1>4, <1>5

LEMMA PaidAreNatural ==
    ASSUME NEW ps \in Seq(Paid)
    PROVE  ps \in Seq(Nat)
<1>1. Len(ps) \in Nat /\ ps \in [1..Len(ps) -> Paid] /\ Paid \subseteq Nat
      BY LenProperties DEF Paid
<1>2. ps \in [1..Len(ps) -> Nat]
      BY <1>1
<1> QED BY <1>1, <1>2

LEMMA EquityIsPositive ==
    ASSUME NEW ps \in Seq(Paid)
    PROVE  /\ Equity(ps) \in Seq(Positives) /\ Len(Equity(ps)) = Len(ps)
           /\ Len(ps) > 0 => Equity(ps)[1] = Whole(1)
           /\ \A i \in 2..Len(ps) : Equity(ps)[i] = Times(Equity(ps)[i - 1], BarFactor(ps, i))
<1> DEFINE F == EquityFcn(ps)
           n == Len(ps)
           N == {k \in Nat : k \in 1..n => F[k] \in Positives}
<1>1. n \in Nat
      BY LenProperties
<1>2. /\ Equity(ps) = [i \in 1..n |-> F[i]]
      /\ F = [i \in 1..n |-> EquityStep(ps, F, i)]
      BY PaidAreNatural, EquityFcnIs
<1> HIDE DEF F
<1>3. \A i \in 1..n : F[i] = EquityStep(ps, F, i)
      BY <1>2
<1>4. 0 \in N
      OBVIOUS
<1>5. ASSUME NEW k \in Nat, k \in N PROVE k + 1 \in N
  <2> SUFFICES ASSUME k + 1 \in 1..n PROVE F[k + 1] \in Positives
      OBVIOUS
  <2>1. CASE k + 1 = 1
    <3>1. F[k + 1] = Whole(1) /\ 1 \in Paid
          BY <1>3, <2>1 DEF EquityStep, Paid
    <3> QED BY <3>1, WholeIsPositive
  <2>2. CASE k + 1 # 1
    <3>1. k + 1 \in 2..n /\ k \in 1..n /\ (k + 1) - 1 = k
          BY <1>1, <2>2
    <3>2. F[k] \in Positives
          BY <1>5, <3>1
    <3>3. F[k + 1] = Times(F[k], BarFactor(ps, k + 1))
          BY <1>3, <2>2, <3>1 DEF EquityStep
    <3>4. BarFactor(ps, k + 1) \in Positives
          BY <3>1, BarFactorIsPositive
    <3> QED BY <3>2, <3>3, <3>4, PositiveArithmetic
  <2> QED BY <2>1, <2>2
<1>6. Nat \subseteq N
  <2> HIDE DEF N
  <2> QED BY <1>4, <1>5, SetInduction
<1>7. \A i \in 1..n : F[i] \in Positives
      BY <1>6
<1>8. Equity(ps) \in [1..n -> Positives]
      BY <1>2, <1>7
<1>9. Equity(ps) \in Seq(Positives) /\ Len(Equity(ps)) = n
      BY <1>1, <1>8
<1>10. n > 0 => Equity(ps)[1] = Whole(1)
  <2> SUFFICES ASSUME n > 0 PROVE Equity(ps)[1] = Whole(1)
      OBVIOUS
  <2>1. 1 \in 1..n
        BY <1>1
  <2> QED BY <1>2, <1>3, <2>1 DEF EquityStep
<1>11. ASSUME NEW i \in 2..n PROVE Equity(ps)[i] = Times(Equity(ps)[i - 1], BarFactor(ps, i))
  <2>1. i \in 1..n /\ i - 1 \in 1..n /\ i # 1
        BY <1>1
  <2> QED BY <1>2, <1>3, <2>1 DEF EquityStep
<1> QED BY <1>9, <1>10, <1>11

\* Only rows with a close are kept.
LEMMA PricesArePaid ==
    ASSUME RowsOK
    PROVE  Prices(rows) \in Seq(Paid)
<1> DEFINE clean == CleanPrices(rows)
           sorted == InDateOrder(rows)
<1>1. Keeps(clean, sorted, Len(sorted)) /\ Collects(sorted, rows, Len(rows))
      BY CleanPricesKeeps, InDateOrderCollects DEF RowsOK
<1> HIDE DEF clean, sorted
<1>2. /\ clean \in Seq(DatedRows) /\ Len(clean) \in Nat /\ DOMAIN clean = 1..Len(clean)
      /\ sorted \in Seq(DatedRows) /\ DOMAIN sorted = 1..Len(sorted)
      /\ \A i \in 1..Len(clean) : clean[i].close \in Nat
      BY <1>1, DatedSeq DEF Keeps, Collects
<1>3. ASSUME NEW i \in 1..Len(clean) PROVE clean[i].close \in Paid
  <2>1. PICK p \in 1..Len(sorted) : clean[i] = sorted[p]
        BY <1>1, <1>2 DEF Keeps
  <2>2. PICK j \in 1..Len(rows) : rows[j].close > 0 /\ rows[j] = sorted[p]
        BY <1>1, <1>2 DEF Collects
  <2>3. clean[i].close \in Nat /\ clean[i].close > 0
        BY <1>2, <2>1, <2>2
  <2> QED BY <2>3 DEF Paid
<1>4. Prices(rows) = [i \in 1..Len(clean) |-> clean[i].close]
      BY <1>2 DEF Prices, clean
<1>5. Prices(rows) \in [1..Len(clean) -> Paid]
      BY <1>3, <1>4
<1> QED BY <1>2, <1>5

-------------------------------------------------------------------------------
(* Compounding the returns                                                   *)

Curves == Seq(Positives) \ {<<>>}
Yields == {r \in Lows : Plus(Whole(1), r) \in Positives}

AfterReturn(equity, r) == Append(equity, Times(Last(equity), Plus(Whole(1), r)))

LEMMA AfterReturnIs ==
    ASSUME NEW equity \in Curves, NEW r \in Yields
    PROVE  /\ AfterReturn(equity, r) \in Curves
           /\ Len(AfterReturn(equity, r)) = Len(equity) + 1
           /\ \A i \in 1..Len(equity) : AfterReturn(equity, r)[i] = equity[i]
           /\ AfterReturn(equity, r)[Len(equity) + 1] = Times(Last(equity), Plus(Whole(1), r))
<1> DEFINE e == Times(Last(equity), Plus(Whole(1), r))
<1>1. equity \in Seq(Positives) /\ Len(equity) \in Nat /\ Len(equity) \in 1..Len(equity)
      BY LenProperties, EmptySeq DEF Curves
<1>2. Last(equity) \in Positives /\ Plus(Whole(1), r) \in Positives
      BY <1>1, ElementOfSeq DEF Last, Yields
<1>3. e \in Positives
      BY <1>2, PositiveArithmetic
<1> HIDE DEF e
<1>4. /\ Append(equity, e) \in Seq(Positives) /\ Len(Append(equity, e)) = Len(equity) + 1
      /\ (\A i \in 1..Len(equity) : Append(equity, e)[i] = equity[i])
      /\ Append(equity, e)[Len(equity) + 1] = e
      BY <1>1, <1>3, AppendProperties
<1>5. Append(equity, e) # <<>>
      BY <1>1, <1>4
<1> QED BY <1>4, <1>5 DEF AfterReturn, Curves, e

ReturnStep(s, g, T) ==
    IF T = {} THEN <<Whole(1)>> ELSE AfterReturn(g[T \ {Max(T)}], s[Max(T)])

ReturnFcn(s) == CHOOSE g : g = [T \in SUBSET (DOMAIN s) |-> ReturnStep(s, g, T)]

\* The equity after k returns.
ReturnedTo(s, k) == ReturnFcn(s)[1..k]

LEMMA ReturnSteps ==
    ASSUME NEW s \in Seq(Yields)
    PROVE  /\ Compounded(s) = ReturnedTo(s, Len(s))
           /\ ReturnedTo(s, 0) = <<Whole(1)>>
           /\ \A k \in 0..(Len(s) - 1) :
                 ReturnedTo(s, k + 1) = AfterReturn(ReturnedTo(s, k), s[k + 1])
<1> DEFINE op == [p \in Curves \X Yields |-> AfterReturn(p[1], p[2])]
           F == ReturnFcn(s)
           n == Len(s)
<1>1. n \in Nat /\ DOMAIN s = 1..n /\ \A i \in 1..n : s[i] \in Yields
      BY LenProperties, ElementOfSeq
<1>2. \A x \in Curves, e \in Yields : op[<<x, e>>] = AfterReturn(x, e)
      OBVIOUS
<1>3. op \in [Curves \X Yields -> Curves]
      BY AfterReturnIs
<1>4. <<Whole(1)>> \in Curves
  <2>1. 1 \in Paid
        BY DEF Paid
  <2>2. Whole(1) \in Positives
        BY <2>1, WholeIsPositive
  <2> HIDE DEF op
  <2> QED BY <2>2 DEF Curves
<1> HIDE DEF op, n
<1>5. HasFold(op, <<Whole(1)>>, s, Curves, n)
      BY <1>1, <1>3, <1>4, FoldExists
<1>6. PICK g \in [SUBSET (1..n) -> Curves] :
              \A T \in SUBSET (1..n) : g[T] = FoldStep(op, <<Whole(1)>>, s, g, T)
      BY <1>5 DEF HasFold
<1>7. ASSUME NEW T \in SUBSET (1..n) PROVE g[T] = ReturnStep(s, g, T)
  <2>1. CASE T = {}
        BY <1>6, <2>1 DEF FoldStep, ReturnStep
  <2>2. CASE T # {}
    <3>1. g[T \ {Max(T)}] \in Curves /\ s[Max(T)] \in Yields
          BY <1>1, <2>2, FoldArguments
    <3>2. g[T] = op[<<g[T \ {Max(T)}], s[Max(T)]>>]
          BY <1>6, <2>2 DEF FoldStep
    <3> QED BY <1>2, <2>2, <3>1, <3>2 DEF ReturnStep
  <2> QED BY <2>1, <2>2
<1>8. g = [T \in SUBSET (DOMAIN s) |-> ReturnStep(s, g, T)]
      BY <1>1, <1>7
<1>9. F = [T \in SUBSET (DOMAIN s) |-> ReturnStep(s, F, T)]
      BY <1>8 DEF ReturnFcn
<1> HIDE DEF F
<1>10. F[1..0] = <<Whole(1)>>
      BY <1>1, <1>9 DEF ReturnStep
<1>11. ASSUME NEW k \in 0..(n - 1) PROVE F[1..(k + 1)] = AfterReturn(F[1..k], s[k + 1])
  <2>1. 1..(k + 1) \in SUBSET (DOMAIN s) /\ k \in Nat
        BY <1>1
  <2>2. F[1..(k + 1)] = ReturnStep(s, F, 1..(k + 1))
        BY <1>9, <2>1
  <2> QED BY <2>1, <2>2, FirstOnes DEF ReturnStep
<1>12. Compounded(s) = F[DOMAIN s]
      BY DEF Compounded, FoldLeft, MapThenFoldSet, ReturnFcn, ReturnStep, AfterReturn, F
<1> QED BY <1>1, <1>10, <1>11, <1>12 DEF ReturnedTo, F, n

\* One and what a number is above one.
LEMMA OneAndTheRest ==
    ASSUME NEW f \in Lows
    PROVE  Minus(f, Whole(1)) \in Lows /\ Plus(Whole(1), Minus(f, Whole(1))) = f
<1> DEFINE a == f.n
           b == f.d
<1>1. a \in Int /\ b \in Nat \ {0} /\ Worth(f, a, b) /\ Fraction(a, b) = f
      BY LowFields, LowWorth DEF Lows
<1> HIDE DEF a, b
<1>2. Whole(1) \in Lows /\ Worth(Whole(1), 1 * b, b)
      BY <1>1, WholeIsLowest, WholeWorth
<1>3. Worth(Minus(f, Whole(1)), a - 1 * b, b) /\ Minus(f, Whole(1)) \in Lows
      BY <1>1, <1>2, PlusWorth, LowArithmetic
<1>4. /\ Worth(Plus(Whole(1), Minus(f, Whole(1))), 1 * b + (a - 1 * b), b)
      /\ Plus(Whole(1), Minus(f, Whole(1))) \in Lows
      BY <1>2, <1>3, PlusWorth, LowArithmetic
<1>5. 1 * b + (a - 1 * b) = a
      BY <1>1
<1> QED BY <1>1, <1>3, <1>4, <1>5, WorthDecides

LEMMA ReturnsAreYields ==
    ASSUME NEW ps \in Seq(Paid), Len(ps) > 0
    PROVE  /\ Returns(ps) \in Seq(Yields) /\ Len(Returns(ps)) = Len(ps) - 1
           /\ \A i \in 1..(Len(ps) - 1) :
                 Plus(Whole(1), Returns(ps)[i]) = Fraction(ps[i + 1], ps[i])
<1> DEFINE n == Len(ps)
<1>1. n \in Nat /\ n > 0 /\ n - 1 \in Nat /\ \A i \in 1..n : ps[i] \in Paid
      BY LenProperties, ElementOfSeq
<1>2. Returns(ps) = [i \in 1..(n - 1) |-> Minus(Fraction(ps[i + 1], ps[i]), Whole(1))]
      BY DEF Returns
<1> HIDE DEF n
<1>3. ASSUME NEW i \in 1..(n - 1)
      PROVE  /\ Returns(ps)[i] \in Yields
             /\ Plus(Whole(1), Returns(ps)[i]) = Fraction(ps[i + 1], ps[i])
  <2>1. i \in 1..n /\ i + 1 \in 1..n
        BY <1>1
  <2>2. Fraction(ps[i + 1], ps[i]) \in Positives
        BY <1>1, <2>1, FractionIsPositive
  <2>3. Returns(ps)[i] = Minus(Fraction(ps[i + 1], ps[i]), Whole(1))
        BY <1>2
  <2>4. Returns(ps)[i] \in Lows /\ Plus(Whole(1), Returns(ps)[i]) = Fraction(ps[i + 1], ps[i])
        BY <2>2, <2>3, OneAndTheRest DEF Positives
  <2> QED BY <2>2, <2>4 DEF Yields
<1>4. Returns(ps) \in [1..(n - 1) -> Yields]
      BY <1>2, <1>3
<1>5. Returns(ps) \in Seq(Yields) /\ Len(Returns(ps)) = n - 1
      BY <1>1, <1>4
<1> QED BY <1>3, <1>5 DEF n

\* The returns of a course of prices compound to the course over its first price.
LEMMA ReturnsCompound ==
    ASSUME NEW ps \in Seq(Paid), Len(ps) > 0
    PROVE  /\ Compounded(Returns(ps)) \in Seq(Positives) /\ Len(Compounded(Returns(ps))) = Len(ps)
           /\ \A i \in 1..Len(ps) : Compounded(Returns(ps))[i] = Fraction(ps[i], ps[1])
<1> DEFINE n == Len(ps)
           s == Returns(ps)
           Goes(k, c) == /\ c \in Curves /\ Len(c) = k + 1
                         /\ \A i \in 1..(k + 1) : c[i] = Fraction(ps[i], ps[1])
           N == {k \in Nat : k + 1 <= n => Goes(k, ReturnedTo(s, k))}
<1>1. n \in Nat /\ n > 0 /\ 1 \in 1..n /\ \A i \in 1..n : ps[i] \in Paid
      BY LenProperties, ElementOfSeq
<1>2. /\ s \in Seq(Yields) /\ Len(s) = n - 1
      /\ \A i \in 1..(n - 1) : Plus(Whole(1), s[i]) = Fraction(ps[i + 1], ps[i])
      BY ReturnsAreYields
<1> HIDE DEF n, s
<1>3. 0 \in N
  <2>1. ReturnedTo(s, 0) = <<Whole(1)>>
        BY <1>2, ReturnSteps
  <2>2. Whole(1) = Fraction(ps[1], ps[1]) /\ Whole(1) \in Positives
    <3>1. ps[1] \in Int /\ ps[1] \in Nat \ {0} /\ 1 \in Paid
          BY <1>1 DEF Paid
    <3>2. Whole(1) = Fraction(1, 1) /\ Whole(1) \in Positives
          BY <3>1, WholeIsPositive
    <3>3. Fraction(ps[1], ps[1]) = Fraction(1, 1)
      <4>1. ps[1] * 1 = 1 * ps[1]
            BY <3>1
      <4> QED BY <3>1, <4>1, FractionsAreUnique
    <3> QED BY <3>2, <3>3
  <2>3. <<Whole(1)>> \in Curves /\ Len(<<Whole(1)>>) = 1 /\ <<Whole(1)>>[1] = Whole(1)
        BY <2>2 DEF Curves
  <2>4. Goes(0, ReturnedTo(s, 0))
        BY <2>1, <2>2, <2>3
  <2> QED BY <2>4
<1>4. ASSUME NEW k \in Nat, k \in N PROVE k + 1 \in N
  <2> SUFFICES ASSUME (k + 1) + 1 <= n PROVE Goes(k + 1, ReturnedTo(s, k + 1))
      OBVIOUS
  <2> DEFINE c == ReturnedTo(s, k)
             d == ReturnedTo(s, k + 1)
             r == s[k + 1]
  <2>1. k \in 0..(Len(s) - 1) /\ k + 1 \in 1..(n - 1) /\ k + 1 <= n /\ k + 1 \in 1..n /\ (k + 1) + 1 \in 1..n
        BY <1>1, <1>2
  <2>2. c \in Curves /\ Len(c) = k + 1 /\ \A i \in 1..(k + 1) : c[i] = Fraction(ps[i], ps[1])
        BY <1>4, <2>1
  <2>3. d = AfterReturn(c, r)
        BY <1>2, <2>1, ReturnSteps
  <2>4. r \in Yields /\ Plus(Whole(1), r) = Fraction(ps[(k + 1) + 1], ps[k + 1])
        BY <1>2, <2>1, ElementOfSeq
  <2> HIDE DEF c, d, r, N
  <2>5. /\ d \in Curves /\ Len(d) = (k + 1) + 1
        /\ \A i \in 1..(k + 1) : d[i] = c[i]
        /\ d[(k + 1) + 1] = Times(Last(c), Plus(Whole(1), r))
        BY <2>2, <2>3, <2>4, AfterReturnIs
  <2>6. Last(c) = Fraction(ps[k + 1], ps[1])
    <3>1. k + 1 \in 1..(k + 1)
          OBVIOUS
    <3> QED BY <2>2, <3>1 DEF Last
  <2>7. d[(k + 1) + 1] = Fraction(ps[(k + 1) + 1], ps[1])
    <3>1. ps[1] \in Nat \ {0} /\ ps[k + 1] \in Nat \ {0} /\ ps[(k + 1) + 1] \in Nat \ {0}
          BY <1>1, <2>1 DEF Paid
    <3> QED BY <2>4, <2>5, <2>6, <3>1, TimesOver
  <2>8. ASSUME NEW i \in 1..((k + 1) + 1) PROVE d[i] = Fraction(ps[i], ps[1])
    <3>1. i \in 1..(k + 1) \/ i = (k + 1) + 1
          OBVIOUS
    <3> QED BY <2>2, <2>5, <2>7, <3>1
  <2> QED BY <2>5, <2>8 DEF d
<1>5. Nat \subseteq N
  <2> HIDE DEF N
  <2> QED BY <1>3, <1>4, SetInduction
<1>6. n - 1 \in Nat /\ (n - 1) + 1 = n
      BY <1>1
<1>7. Goes(n - 1, ReturnedTo(s, n - 1))
      BY <1>5, <1>6
<1>8. Compounded(s) = ReturnedTo(s, n - 1)
      BY <1>2, ReturnSteps
<1> QED BY <1>6, <1>7, <1>8 DEF Curves, s, n

-------------------------------------------------------------------------------
(* The drawdown                                                              *)

\* A fall does not depend on the unit.
LEMMA FallsScale ==
    ASSUME NEW a \in Paid, NEW b \in Paid, NEW c \in Paid
    PROVE  Over(Fraction(b, c), Fraction(a, c)) = Over(Whole(b), Whole(a))
<1>1. a \in Int /\ b \in Int /\ a > 0 /\ c \in Nat \ {0} /\ 1 \in Paid /\ 1 \in Nat \ {0} /\ a \in Nat \ {0}
      BY DEF Paid
<1>2. /\ Worth(Fraction(b, c), b, c) /\ Worth(Fraction(a, c), a, c)
      /\ Worth(Fraction(b, 1), b, 1) /\ Worth(Fraction(a, 1), a, 1)
      BY <1>1, FractionWorth
<1>3. /\ Worth(Over(Fraction(b, c), Fraction(a, c)), b * c, c * a)
      /\ Worth(Over(Fraction(b, 1), Fraction(a, 1)), b * 1, 1 * a)
      BY <1>1, <1>2, OverWorth
<1>4. /\ Over(Fraction(b, c), Fraction(a, c)) \in Positives
      /\ Over(Fraction(b, 1), Fraction(a, 1)) \in Positives
      BY <1>1, FractionIsPositive, PositiveArithmetic
<1>5. /\ Over(Fraction(b, c), Fraction(a, c)) = Fraction(b * c, c * a)
      /\ Over(Fraction(b, 1), Fraction(a, 1)) = Fraction(b * 1, 1 * a)
      BY <1>3, <1>4, WorthDecides DEF Positives
<1>6. b * c = c * b /\ b * 1 = b /\ 1 * a = a
      BY <1>1
<1>7. Fraction(c * b, c * a) = Fraction(b, a)
      BY <1>1, FractionScales
<1> QED BY <1>5, <1>6, <1>7, WholeIsPositive

LEMMA DrawdownsAreWorstFalls == RowsOK => DrawdownIsWorstFall
<1> SUFFICES ASSUME RowsOK PROVE DrawdownIsWorstFall
    OBVIOUS
<1> DEFINE ps == Prices(rows)
           n == Len(ps)
<1>1. ps \in Seq(Paid) /\ n \in Nat /\ DOMAIN ps = 1..n /\ \A i \in 1..n : ps[i] \in Paid
      BY PricesArePaid, LenProperties, ElementOfSeq
<1> HIDE DEF ps
<1>2. ASSUME Sufficient(ps) PROVE Result(ps).maxDrawdown = WorstFall(Equity(ps))
  <2>1. n > 0
        BY <1>1, <1>2, BacktestAssumption DEF Sufficient
  <2>2. Equity(ps) \in Seq(Positives) /\ Len(Equity(ps)) = n
        BY <1>1, EquityIsPositive
  <2>3. Equity(ps) # <<>>
        BY <2>1, <2>2
  <2>4. Result(ps).maxDrawdown = MaxDrawdown(Equity(ps))
        BY <1>2 DEF Result
  <2> QED BY <2>2, <2>3, <2>4, OnePassFindsTheWorstFall
<1>3. ASSUME n > 1
      PROVE  RiskResult(Returns(ps)).maxDrawdown = WorstFall([i \in DOMAIN ps |-> Whole(ps[i])])
  <2> DEFINE c == Compounded(Returns(ps))
             w == [i \in DOMAIN ps |-> Whole(ps[i])]
  <2>1. n > 0 /\ 1 \in 1..n /\ ps[1] \in Paid
        BY <1>1, <1>3
  <2>2. Returns(ps) # <<>>
    <3>1. Len(Returns(ps)) = n - 1
          BY <1>1, <2>1, ReturnsAreYields
    <3>2. n - 1 # 0
          BY <1>1, <1>3
    <3> QED BY <3>1, <3>2
  <2>3. RiskResult(Returns(ps)).maxDrawdown = MaxDrawdown(c)
        BY <2>2 DEF RiskResult
  <2>4. c \in Seq(Positives) /\ Len(c) = n /\ \A i \in 1..n : c[i] = Fraction(ps[i], ps[1])
        BY <1>1, <2>1, ReturnsCompound
  <2> HIDE DEF c
  <2>5. c # <<>> /\ DOMAIN c = 1..n
        BY <2>1, <2>4, LenProperties
  <2>6. MaxDrawdown(c) = WorstFall(c)
        BY <2>4, <2>5, OnePassFindsTheWorstFall
  <2>7. DOMAIN w = 1..n /\ \A i \in 1..n : w[i] = Whole(ps[i])
        BY <1>1
  <2> HIDE DEF w
  <2>8. ASSUME NEW i \in 1..n, NEW j \in 1..n PROVE Over(c[j], c[i]) = Over(w[j], w[i])
        BY <1>1, <2>1, <2>4, <2>7, FallsScale
  <2> DEFINE pairs == {p \in (1..n) \X (1..n) : p[1] <= p[2]}
  <2>9. /\ WorstFall(c) = LET falls == {Minus(Whole(1), Over(c[p[2]], c[p[1]])) : p \in pairs}
                          IN  CHOOSE worst \in falls : \A fall \in falls : AtMost(fall, worst)
        /\ WorstFall(w) = LET falls == {Minus(Whole(1), Over(w[p[2]], w[p[1]])) : p \in pairs}
                          IN  CHOOSE worst \in falls : \A fall \in falls : AtMost(fall, worst)
        BY <2>5, <2>7 DEF WorstFall
  <2>10. \A p \in pairs : Over(c[p[2]], c[p[1]]) = Over(w[p[2]], w[p[1]])
        BY <2>8
  <2>11. {Minus(Whole(1), Over(c[p[2]], c[p[1]])) : p \in pairs}
            = {Minus(Whole(1), Over(w[p[2]], w[p[1]])) : p \in pairs}
    <3> HIDE DEF pairs
    <3> QED BY <2>10
  <2>12. WorstFall(c) = WorstFall(w)
    <3> HIDE DEF pairs
    <3> QED BY <2>9, <2>11
  <2> QED BY <2>3, <2>6, <2>12 DEF w
<1> QED BY <1>2, <1>3 DEF DrawdownIsWorstFall, ps

\* The drawdown found in one pass is the worst fall between any two points of the
\* equity and of the prices, for any rows, windows and costs (risk.py 78-99).
THEOREM TheDrawdownIsTheWorstFall == Spec => []DrawdownIsWorstFall
BY RowsStayOK, DrawdownsAreWorstFalls, PTL

-------------------------------------------------------------------------------
(* The held runs, bar by bar                                                 *)

\* A run of held bars as it looks after k bars: it may go on in the next one.
IsRun(ps, k, s, e) ==
    /\ s \in 2..k /\ e \in 2..k /\ s <= e
    /\ \A i \in s..e : Position(ps, i) # 0 /\ Position(ps, i) = Position(ps, s)
    /\ Position(ps, s - 1) # Position(ps, s)
    /\ e < k => Position(ps, e + 1) # Position(ps, e)

RunsTo(ps, k) == {run \in (2..k) \X (2..k) : IsRun(ps, k, run[1], run[2])}

LEMMA RunsToIs ==
    ASSUME NEW ps, NEW k
    PROVE  /\ \A s, e : <<s, e>> \in RunsTo(ps, k) <=> IsRun(ps, k, s, e)
           /\ \A run \in RunsTo(ps, k) : run = <<run[1], run[2]>> /\ IsRun(ps, k, run[1], run[2])
<1>1. \A s, e : IsRun(ps, k, s, e) => <<s, e>> \in (2..k) \X (2..k)
      BY DEF IsRun
<1>2. \A s, e : <<s, e>>[1] = s /\ <<s, e>>[2] = e
      OBVIOUS
<1>3. \A run \in (2..k) \X (2..k) : run = <<run[1], run[2]>>
      OBVIOUS
<1> QED BY <1>1, <1>2, <1>3 DEF RunsTo

LEMMA HeldRunsAre ==
    ASSUME NEW ps
    PROVE  HeldRuns(ps) = RunsTo(ps, Len(ps))
BY DEF HeldRuns, RunsTo, IsRun

LEMMA RunsAreFinite ==
    ASSUME NEW ps, NEW k \in Nat
    PROVE  IsFiniteSet(RunsTo(ps, k))
<1>1. IsFiniteSet((2..k) \X (2..k))
  <2>1. IsFiniteSet(2..k)
        BY FS_Interval
  <2> QED BY <2>1, FS_Product
<1>2. RunsTo(ps, k) \subseteq (2..k) \X (2..k)
      BY DEF RunsTo
<1> QED BY <1>1, <1>2, FS_Subset

\* Only one run can still go on.
LEMMA OneOpenRun ==
    ASSUME NEW ps, NEW k \in Nat, NEW s, NEW t, IsRun(ps, k, s, k), IsRun(ps, k, t, k)
    PROVE  s = t
<1> SUFFICES ASSUME NEW x, NEW y, IsRun(ps, k, x, k), IsRun(ps, k, y, k), x < y PROVE FALSE
  <2>1. s \in Int /\ t \in Int
        BY DEF IsRun
  <2> QED BY <2>1
<1>1. x \in Int /\ y \in Int /\ x <= k /\ y <= k /\ y - 1 \in x..k /\ y \in x..k
      BY DEF IsRun
<1>2. Position(ps, y - 1) = Position(ps, x) /\ Position(ps, y) = Position(ps, x)
      BY <1>1 DEF IsRun
<1>3. Position(ps, y - 1) # Position(ps, y)
      BY DEF IsRun
<1> QED BY <1>2, <1>3

\* No position in the next bar: every run ends.
LEMMA RunsEnd ==
    ASSUME NEW ps, NEW k \in Nat \ {0}, Position(ps, k + 1) = 0
    PROVE  RunsTo(ps, k + 1) = RunsTo(ps, k)
<1>1. ASSUME NEW s, NEW e, IsRun(ps, k, s, e) PROVE IsRun(ps, k + 1, s, e)
  <2>1. s \in 2..(k + 1) /\ e \in 2..(k + 1) /\ s <= e /\ e \in s..e /\ e <= k
        BY <1>1 DEF IsRun
  <2>2. Position(ps, e) # 0
        BY <1>1, <2>1 DEF IsRun
  <2>3. e < k + 1 => Position(ps, e + 1) # Position(ps, e)
    <3>1. CASE e = k
          BY <2>2, <3>1
    <3>2. CASE e # k
          BY <1>1, <2>1, <3>2 DEF IsRun
    <3> QED BY <3>1, <3>2
  <2> QED BY <1>1, <2>1, <2>3 DEF IsRun
<1>2. ASSUME NEW s, NEW e, IsRun(ps, k + 1, s, e) PROVE IsRun(ps, k, s, e)
  <2>1. s \in Int /\ e \in Int /\ s <= e /\ e \in s..e /\ e <= k + 1
        BY <1>2 DEF IsRun
  <2>2. e # k + 1
        BY <1>2, <2>1 DEF IsRun
  <2>3. s \in 2..k /\ e \in 2..k
        BY <1>2, <2>1, <2>2 DEF IsRun
  <2>4. e < k => Position(ps, e + 1) # Position(ps, e)
        BY <1>2, <2>1 DEF IsRun
  <2> QED BY <1>2, <2>1, <2>3, <2>4 DEF IsRun
<1>3. \A run : run \in RunsTo(ps, k) <=> run \in RunsTo(ps, k + 1)
      BY <1>1, <1>2, RunsToIs
<1> QED BY <1>3

\* A position other than the last: one more run.
LEMMA RunBegins ==
    ASSUME NEW ps, NEW k \in Nat \ {0}, Position(ps, k + 1) # 0,
           Position(ps, k + 1) # Position(ps, k)
    PROVE  /\ RunsTo(ps, k + 1) = RunsTo(ps, k) \cup {<<k + 1, k + 1>>}
           /\ <<k + 1, k + 1>> \notin RunsTo(ps, k)
           /\ IsRun(ps, k + 1, k + 1, k + 1)
<1>1. ASSUME NEW s, NEW e, IsRun(ps, k, s, e) PROVE IsRun(ps, k + 1, s, e)
  <2>1. s \in 2..(k + 1) /\ e \in 2..(k + 1) /\ s <= e /\ e <= k
        BY <1>1 DEF IsRun
  <2>2. e < k + 1 => Position(ps, e + 1) # Position(ps, e)
    <3>1. CASE e = k
          BY <3>1
    <3>2. CASE e # k
          BY <1>1, <2>1, <3>2 DEF IsRun
    <3> QED BY <3>1, <3>2
  <2> QED BY <1>1, <2>1, <2>2 DEF IsRun
<1>2. IsRun(ps, k + 1, k + 1, k + 1)
  <2>1. k + 1 \in 2..(k + 1) /\ (k + 1) - 1 = k /\ (\A i \in (k + 1)..(k + 1) : i = k + 1)
        /\ ~ (k + 1 < k + 1) /\ k + 1 <= k + 1
        OBVIOUS
  <2> QED BY <2>1 DEF IsRun
<1>3. ASSUME NEW s, NEW e, IsRun(ps, k + 1, s, e)
      PROVE  IsRun(ps, k, s, e) \/ (s = k + 1 /\ e = k + 1)
  <2>1. s \in Int /\ e \in Int /\ s <= e /\ e \in s..e /\ e <= k + 1
        BY <1>3 DEF IsRun
  <2>2. CASE e # k + 1
    <3>1. s \in 2..k /\ e \in 2..k
          BY <1>3, <2>1, <2>2 DEF IsRun
    <3>2. e < k => Position(ps, e + 1) # Position(ps, e)
          BY <1>3, <2>1 DEF IsRun
    <3> QED BY <1>3, <2>1, <3>1, <3>2 DEF IsRun
  <2>3. CASE e = k + 1 /\ s # k + 1
    <3>1. k \in s..e /\ k + 1 \in s..e
          BY <2>1, <2>3
    <3>2. Position(ps, k) = Position(ps, s) /\ Position(ps, k + 1) = Position(ps, s)
          BY <1>3, <3>1 DEF IsRun
    <3> QED BY <3>2
  <2> QED BY <2>2, <2>3
<1>4. <<k + 1, k + 1>> \notin RunsTo(ps, k)
  <2>1. ~ IsRun(ps, k, k + 1, k + 1)
        BY DEF IsRun
  <2> QED BY <2>1, RunsToIs
<1>5. \A run : run \in RunsTo(ps, k + 1) <=> run \in RunsTo(ps, k) \/ run = <<k + 1, k + 1>>
      BY <1>1, <1>2, <1>3, RunsToIs
<1> QED BY <1>2, <1>4, <1>5

\* The same position: the open run goes on.
LEMMA RunGoesOn ==
    ASSUME NEW ps, NEW k \in Nat \ {0}, Position(ps, k) # 0,
           Position(ps, k + 1) = Position(ps, k), NEW o, IsRun(ps, k, o, k)
    PROVE  /\ RunsTo(ps, k + 1) = (RunsTo(ps, k) \ {<<o, k>>}) \cup {<<o, k + 1>>}
           /\ <<o, k + 1>> \notin RunsTo(ps, k)
           /\ IsRun(ps, k + 1, o, k + 1)
<1>0. o \in 2..k /\ o <= k /\ o \in Int /\ k \in o..k /\ Position(ps, k) = Position(ps, o)
      BY DEF IsRun
<1>1. ASSUME NEW s, NEW e, IsRun(ps, k, s, e), ~ (s = o /\ e = k) PROVE IsRun(ps, k + 1, s, e)
  <2>1. s \in 2..(k + 1) /\ e \in 2..(k + 1) /\ s <= e /\ e <= k
        BY <1>1 DEF IsRun
  <2>2. e # k
        BY <1>1, OneOpenRun
  <2>3. e < k + 1 => Position(ps, e + 1) # Position(ps, e)
        BY <1>1, <2>1, <2>2 DEF IsRun
  <2> QED BY <1>1, <2>1, <2>3 DEF IsRun
<1>2. IsRun(ps, k + 1, o, k + 1)
  <2>1. /\ o \in 2..(k + 1) /\ k + 1 \in 2..(k + 1) /\ o <= k + 1 /\ ~ (k + 1 < k + 1)
        /\ \A i \in o..(k + 1) : i \in o..k \/ i = k + 1
        BY <1>0
  <2>2. \A i \in o..(k + 1) : Position(ps, i) # 0 /\ Position(ps, i) = Position(ps, o)
        BY <1>0, <2>1 DEF IsRun
  <2> QED BY <2>1, <2>2 DEF IsRun
<1>3. ASSUME NEW s, NEW e, IsRun(ps, k + 1, s, e)
      PROVE  (IsRun(ps, k, s, e) /\ ~ (s = o /\ e = k)) \/ (s = o /\ e = k + 1)
  <2>1. s \in Int /\ e \in Int /\ s <= e /\ e <= k + 1 /\ 2 <= s
        BY <1>3 DEF IsRun
  <2>2. CASE e # k + 1
    <3>1. s \in 2..k /\ e \in 2..k
          BY <2>1, <2>2
    <3>2. Position(ps, e + 1) # Position(ps, e)
          BY <1>3, <2>1, <2>2 DEF IsRun
    <3>3. IsRun(ps, k, s, e)
          BY <1>3, <2>1, <3>1, <3>2 DEF IsRun
    <3> QED BY <3>2, <3>3
  <2>3. CASE e = k + 1
    <3>1. s # k + 1
      <4>1. CASE s = k + 1
        <5>1. s - 1 = k
              BY <4>1
        <5> QED BY <1>3, <4>1, <5>1 DEF IsRun
      <4> QED BY <4>1
    <3>2. s \in 2..k /\ k \in 2..k /\ s <= k /\ (\A i \in s..k : i \in s..e) /\ ~ (k < k)
          BY <2>1, <2>3, <3>1
    <3>3. IsRun(ps, k, s, k)
          BY <1>3, <3>2 DEF IsRun
    <3> QED BY <2>3, <3>3, OneOpenRun
  <2> QED BY <2>2, <2>3
<1>4. <<o, k + 1>> \notin RunsTo(ps, k)
  <2>1. ~ IsRun(ps, k, o, k + 1)
        BY DEF IsRun
  <2> QED BY <2>1, RunsToIs
<1>5. \A s, e : <<s, e>> = <<o, k>> <=> s = o /\ e = k
      OBVIOUS
<1>6. \A s, e : <<s, e>> = <<o, k + 1>> <=> s = o /\ e = k + 1
      OBVIOUS
<1>7. \A run : run \in RunsTo(ps, k + 1)
                 <=> (run \in RunsTo(ps, k) /\ run # <<o, k>>) \/ run = <<o, k + 1>>
      BY <1>1, <1>2, <1>3, <1>5, <1>6, RunsToIs
<1> QED BY <1>2, <1>4, <1>7

-------------------------------------------------------------------------------
(* What the runs make and the changes cost                                   *)

\* One over a quotient turns it round.
LEMMA InverseOf ==
    ASSUME NEW a \in Paid, NEW b \in Paid
    PROVE  Over(Whole(1), Fraction(b, a)) = Fraction(a, b)
<1>1. a \in Int /\ b \in Int /\ b > 0 /\ a \in Nat \ {0} /\ b \in Nat \ {0} /\ 1 \in Paid
      /\ 1 \in Int /\ 1 \in Nat \ {0}
      BY DEF Paid
<1>2. /\ Worth(Fraction(1, 1), 1, 1) /\ Worth(Fraction(b, a), b, a)
      /\ Fraction(1, 1) \in Positives /\ Fraction(b, a) \in Positives /\ Whole(1) = Fraction(1, 1)
      BY <1>1, FractionWorth, FractionIsPositive, WholeIsPositive
<1>3. Worth(Over(Fraction(1, 1), Fraction(b, a)), 1 * a, 1 * b)
      BY <1>1, <1>2, OverWorth
<1>4. Over(Fraction(1, 1), Fraction(b, a)) = Fraction(1 * a, 1 * b)
      BY <1>2, <1>3, PositiveArithmetic, WorthDecides DEF Positives
<1>5. 1 * a = a /\ 1 * b = b
      BY <1>1
<1> QED BY <1>2, <1>4, <1>5

\* What a position makes from a to b and from b to c it makes from a to c.
LEMMA PowersChain ==
    ASSUME NEW a \in Paid, NEW b \in Paid, NEW c \in Paid, NEW e \in {-1, 0, 1}
    PROVE  Times(Power(Fraction(b, a), e), Power(Fraction(c, b), e)) = Power(Fraction(c, a), e)
<1>1. a \in Nat \ {0} /\ b \in Nat \ {0} /\ c \in Nat \ {0} /\ 1 \in Paid
      BY DEF Paid
<1>2. CASE e = 1
      BY <1>1, <1>2, TimesOver DEF Power
<1>3. CASE e = 0
  <2>1. Times(Whole(1), Whole(1)) = Whole(1)
        BY <1>1, WholeIsPositive, TimesOne DEF Positives
  <2> QED BY <1>3, <2>1 DEF Power
<1>4. CASE e = -1
  <2>1. /\ Power(Fraction(b, a), e) = Fraction(a, b) /\ Power(Fraction(c, b), e) = Fraction(b, c)
        /\ Power(Fraction(c, a), e) = Fraction(a, c)
        BY <1>4, InverseOf DEF Power
  <2>2. Times(Fraction(a, b), Fraction(b, c)) = Times(Fraction(b, c), Fraction(a, b))
        BY FractionIsPositive, TimesCommutes DEF Positives
  <2>3. Times(Fraction(b, c), Fraction(a, b)) = Fraction(a, c)
        BY <1>1, TimesOver
  <2> QED BY <2>1, <2>2, <2>3
<1> QED BY <1>2, <1>3, <1>4

\* What a position makes from the close of bar i to that of bar j.
Held(ps, i, j, position) == Power(Fraction(ps[j], ps[i]), position)

Gains(ps, k) == [run \in RunsTo(ps, k) |-> Held(ps, run[1] - 1, run[2], Position(ps, run[1]))]

HeldTo(ps, k) == ProductOver(Gains(ps, k), RunsTo(ps, k))

LEMMA GainIs ==
    ASSUME NEW ps \in Seq(Paid), NEW k \in 1..Len(ps), NEW s, NEW e, IsRun(ps, k, s, e)
    PROVE  /\ Gains(ps, k)[<<s, e>>] = Held(ps, s - 1, e, Position(ps, s))
           /\ Held(ps, s - 1, e, Position(ps, s)) \in Positives
<1>1. <<s, e>> \in RunsTo(ps, k) /\ <<s, e>>[1] = s /\ <<s, e>>[2] = e
      BY RunsToIs
<1>2. Gains(ps, k)[<<s, e>>] = Held(ps, s - 1, e, Position(ps, s))
      BY <1>1 DEF Gains
<1>3. s - 1 \in 1..Len(ps) /\ e \in 1..Len(ps)
      BY LenProperties DEF IsRun
<1>4. ps[s - 1] \in Paid /\ ps[e] \in Paid
      BY <1>3, ElementOfSeq
<1>5. Held(ps, s - 1, e, Position(ps, s)) \in Positives
      BY <1>4, FractionIsPositive, PositionIs, PowerIsPositive DEF Held
<1> QED BY <1>2, <1>5

LEMMA GainsAre ==
    ASSUME NEW ps \in Seq(Paid), NEW k \in 1..Len(ps)
    PROVE  \A run \in RunsTo(ps, k) :
              /\ Gains(ps, k)[run] = Held(ps, run[1] - 1, run[2], Position(ps, run[1]))
              /\ Gains(ps, k)[run] \in Positives
BY RunsToIs, GainIs

\* In every bar the runs make what the position of the bar makes in it.
LEMMA HeldGrows ==
    ASSUME NEW ps \in Seq(Paid), NEW k \in 1..(Len(ps) - 1),
           Position(ps, k) # 0 => \E o : IsRun(ps, k, o, k)
    PROVE  /\ HeldTo(ps, k) \in Positives
           /\ HeldTo(ps, k + 1)
                 = Times(HeldTo(ps, k), Held(ps, k, k + 1, Position(ps, k + 1)))
           /\ Position(ps, k + 1) # 0 => \E o : IsRun(ps, k + 1, o, k + 1)
<1> DEFINE p == Position(ps, k)
           q == Position(ps, k + 1)
           R == RunsTo(ps, k)
           G == Gains(ps, k)
           RR == RunsTo(ps, k + 1)
           GG == Gains(ps, k + 1)
           bar == Held(ps, k, k + 1, q)
<1>1. /\ Len(ps) \in Nat /\ k \in Nat \ {0} /\ k \in Nat /\ k + 1 \in Nat
      /\ k \in 1..Len(ps) /\ k + 1 \in 1..Len(ps)
      BY LenProperties
<1>2. IsFiniteSet(R) /\ IsFiniteSet(RR)
      BY <1>1, RunsAreFinite
<1>3. /\ \A run \in R : G[run] \in Positives
      /\ \A run \in RR : GG[run] \in Positives
      /\ \A run \in R : run \in RR => G[run] = GG[run]
      BY <1>1, GainsAre
<1>4. HeldTo(ps, k) = ProductOver(G, R) /\ HeldTo(ps, k + 1) = ProductOver(GG, RR)
      BY DEF HeldTo
<1>5. ProductOver(G, R) \in Positives
      BY <1>2, <1>3, ProductType
<1>6. CASE q = 0
  <2>1. RR = R
        BY <1>1, <1>6, RunsEnd
  <2>2. ProductOver(GG, R) = ProductOver(G, R)
    <3>1. \A run \in R : ActsAs(GG[run], G[run])
          BY <1>3, <2>1 DEF ActsAs
    <3> HIDE DEF R, G, GG
    <3> QED BY <1>2, <3>1, ProductSame
  <2>3. bar = Whole(1)
        BY <1>6 DEF Power, Held
  <2>4. Times(ProductOver(G, R), Whole(1)) = ProductOver(G, R)
        BY <1>5, TimesOne DEF Positives
  <2> QED BY <1>4, <1>5, <1>6, <2>1, <2>2, <2>3, <2>4
<1>7. CASE q # 0 /\ q # p
  <2> DEFINE x == <<k + 1, k + 1>>
  <2>1. RR = R \cup {x} /\ x \notin R /\ IsRun(ps, k + 1, k + 1, k + 1)
        BY <1>1, <1>7, RunBegins
  <2>2. GG[x] = bar /\ bar \in Positives
    <3>1. (k + 1) - 1 = k
          BY <1>1
    <3> QED BY <1>1, <2>1, <3>1, GainIs
  <2>3. \A run \in R : G[run] = GG[run] /\ G[run] \in Positives
        BY <1>3, <2>1
  <2> HIDE DEF x, R, RR, G, GG, bar
  <2>4. IsFiniteSet(R) /\ x \notin R /\ GG[x] \in Positives
        BY <1>2, <2>1, <2>2
  <2>5. ProductOver(GG, R \cup {x}) = Times(ProductOver(G, R), GG[x])
        BY <2>3, <2>4, ProductTimes
  <2> QED BY <1>4, <1>5, <2>1, <2>2, <2>5 DEF bar
<1>8. CASE q # 0 /\ q = p
  <2>1. PICK o : IsRun(ps, k, o, k)
        BY <1>8
  <2> DEFINE x == <<o, k>>
             y == <<o, k + 1>>
             S == R \ {x}
  <2>2. RR = S \cup {y} /\ y \notin R /\ IsRun(ps, k + 1, o, k + 1)
        BY <1>1, <1>8, <2>1, RunGoesOn
  <2>3. x \in R /\ R = S \cup {x} /\ x \notin S /\ y \notin S /\ IsFiniteSet(S)
    <3>1. x \in R
          BY <2>1, RunsToIs
    <3>2. IsFiniteSet(S)
          BY <1>2, FS_Subset
    <3> QED BY <2>2, <3>1, <3>2
  <2>4. Position(ps, o) = q /\ o - 1 \in 1..Len(ps)
    <3>1. k \in o..k /\ o - 1 \in 1..Len(ps)
          BY <1>1, <2>1 DEF IsRun
    <3> QED BY <1>8, <2>1, <3>1 DEF IsRun
  <2>5. G[x] = Held(ps, o - 1, k, q) /\ GG[y] = Held(ps, o - 1, k + 1, q)
        BY <1>1, <2>1, <2>2, <2>4, GainIs
  <2>6. GG[y] = Times(G[x], bar)
    <3>1. ps[o - 1] \in Paid /\ ps[k] \in Paid /\ ps[k + 1] \in Paid
          BY <1>1, <2>4, ElementOfSeq
    <3>2. q \in {-1, 0, 1}
          BY PositionIs
    <3> HIDE DEF q, G, GG
    <3>3. Times(Held(ps, o - 1, k, q), bar) = Held(ps, o - 1, k + 1, q)
          BY <3>1, <3>2, PowersChain DEF Held
    <3> HIDE DEF bar
    <3> QED BY <2>5, <3>3
  <2>7. bar \in Positives
    <3>1. ps[k] \in Paid /\ ps[k + 1] \in Paid
          BY <1>1, ElementOfSeq
    <3> QED BY <3>1, FractionIsPositive, PositionIs, PowerIsPositive DEF Held
  <2>8. G[x] \in Positives /\ GG[y] \in Positives
        BY <1>3, <2>2, <2>3
  <2>9. \A run \in S : GG[run] = G[run] /\ G[run] \in Positives
        BY <1>3, <2>2, <2>3
  <2> HIDE DEF x, y, S, R, RR, G, GG, bar
  <2>10. ProductOver(G, S \cup {x}) = Times(ProductOver(G, S), G[x])
    <3>1. \A run \in S \cup {x} : G[run] \in Positives
          BY <2>8, <2>9
    <3> QED BY <2>3, <3>1, ProductMore
  <2>11. ProductOver(GG, S \cup {y}) = Times(ProductOver(G, S), GG[y])
    <3>1. \A run \in S \cup {y} : GG[run] \in Positives
          BY <2>8, <2>9
    <3>2. ProductOver(GG, S) = ProductOver(G, S)
      <4>1. \A run \in S : ActsAs(GG[run], G[run])
            BY <2>9 DEF ActsAs
      <4> QED BY <2>3, <4>1, ProductSame
    <3> QED BY <2>3, <3>1, <3>2, ProductMore
  <2>12. ProductOver(G, S) \in Positives
        BY <2>3, <2>9, ProductType
  <2>13. Times(ProductOver(G, S), Times(G[x], bar)) = Times(Times(ProductOver(G, S), G[x]), bar)
        BY <2>7, <2>8, <2>12, TimesAssociates DEF Positives
  <2>14. ProductOver(GG, RR) = Times(ProductOver(G, R), bar)
        BY <2>2, <2>3, <2>6, <2>10, <2>11, <2>13
  <2> QED BY <1>4, <1>5, <2>2, <2>14 DEF bar
<1> QED BY <1>6, <1>7, <1>8

\* The cost of so many changes.
CostsOf(c) == ProductOver([i \in 1..c |-> Keep], 1..c)

LEMMA CostsGrow ==
    ASSUME NEW c \in Nat
    PROVE  /\ CostsOf(c) \in Positives /\ CostsOf(0) = Whole(1)
           /\ CostsOf(c + 1) = Times(CostsOf(c), Kept)
<1> DEFINE k(m) == [i \in 1..m |-> Kept]
<1>1. \A m \in Nat : IsFiniteSet(1..m)
      BY FS_Interval
<1>2. ASSUME NEW m \in Nat PROVE CostsOf(m) = ProductOver(k(m), 1..m)
  <2>1. \A i \in 1..m : ActsAs([j \in 1..m |-> Keep][i], k(m)[i])
        BY KeepIs DEF ActsAs
  <2> HIDE DEF k
  <2> QED BY <1>1, <2>1, ProductSame DEF CostsOf
<1>3. CostsOf(c) \in Positives
  <2>1. \A i \in 1..c : k(c)[i] \in Positives
        BY KeepIs
  <2> HIDE DEF k
  <2> QED BY <1>1, <1>2, <2>1, ProductType
<1>4. CostsOf(0) = Whole(1)
  <2>1. 1..0 = {}
        OBVIOUS
  <2> QED BY <2>1, ProductEmpty DEF CostsOf
<1>5. CostsOf(c + 1) = Times(CostsOf(c), Kept)
  <2>1. 1..(c + 1) = (1..c) \cup {c + 1} /\ c + 1 \notin 1..c /\ c + 1 \in Nat
        OBVIOUS
  <2>2. /\ \A i \in 1..c : k(c)[i] = k(c + 1)[i] /\ k(c)[i] \in Positives
        /\ k(c + 1)[c + 1] = Kept /\ k(c + 1)[c + 1] \in Positives
        BY KeepIs
  <2> DEFINE f == k(c)
             h == k(c + 1)
             S == 1..c
             x == c + 1
  <2>3. /\ IsFiniteSet(S) /\ x \notin S /\ h[x] = Kept /\ h[x] \in Positives
        /\ \A i \in S : f[i] = h[i] /\ f[i] \in Positives
        BY <1>1, <2>1, <2>2
  <2> HIDE DEF f, h, S, x
  <2>4. ProductOver(h, S \cup {x}) = Times(ProductOver(f, S), h[x])
        BY <2>3, ProductTimes
  <2>5. CostsOf(c) = ProductOver(f, S) /\ CostsOf(c + 1) = ProductOver(h, S \cup {x})
        BY <1>2, <2>1 DEF f, h, S, x
  <2> QED BY <2>3, <2>4, <2>5
<1> QED BY <1>3, <1>4, <1>5

\* The bars in which the position has changed.
ChangesTo(ps, k) == {i \in 2..k : Changes(ps, i)}

LEMMA ChangesGrow ==
    ASSUME NEW ps, NEW k \in Nat \ {0}
    PROVE  /\ Cardinality(ChangesTo(ps, k)) \in Nat /\ Cardinality(ChangesTo(ps, 1)) = 0
           /\ Cardinality(ChangesTo(ps, k + 1))
                 = Cardinality(ChangesTo(ps, k)) + (IF Changes(ps, k + 1) THEN 1 ELSE 0)
<1>1. IsFiniteSet(ChangesTo(ps, k))
  <2>1. IsFiniteSet(2..k) /\ ChangesTo(ps, k) \subseteq 2..k
        BY FS_Interval DEF ChangesTo
  <2> QED BY <2>1, FS_Subset
<1>2. ChangesTo(ps, 1) = {}
      BY DEF ChangesTo
<1>3. k + 1 \notin ChangesTo(ps, k)
      BY DEF ChangesTo
<1>4. 2..(k + 1) = (2..k) \cup {k + 1}
      OBVIOUS
<1>5. CASE Changes(ps, k + 1)
  <2>1. ChangesTo(ps, k + 1) = ChangesTo(ps, k) \cup {k + 1}
        BY <1>4, <1>5 DEF ChangesTo
  <2>2. Cardinality(ChangesTo(ps, k) \cup {k + 1}) = Cardinality(ChangesTo(ps, k)) + 1
        BY <1>1, <1>3, FS_AddElement
  <2>3. Cardinality(ChangesTo(ps, k)) \in Nat /\ Cardinality({}) = 0
        BY <1>1, FS_CardinalityType, FS_EmptySet
  <2> QED BY <1>2, <1>5, <2>1, <2>2, <2>3
<1>6. CASE ~ Changes(ps, k + 1)
  <2>1. ChangesTo(ps, k + 1) = ChangesTo(ps, k)
        BY <1>4, <1>6 DEF ChangesTo
  <2>2. Cardinality(ChangesTo(ps, k)) \in Nat /\ Cardinality({}) = 0
        BY <1>1, FS_CardinalityType, FS_EmptySet
  <2> QED BY <1>2, <1>6, <2>1, <2>2
<1> QED BY <1>5, <1>6

-------------------------------------------------------------------------------
(* The equity                                                                *)

\* After k bars the equity is what the runs made, less what the changes cost.
Reconciled(ps, k) ==
    /\ Equity(ps)[k] = Times(HeldTo(ps, k), CostsOf(Cardinality(ChangesTo(ps, k))))
    /\ Position(ps, k) # 0 => \E o : IsRun(ps, k, o, k)

LEMMA FirstBarReconciled ==
    ASSUME NEW ps \in Seq(Paid), Len(ps) > 0
    PROVE  Reconciled(ps, 1)
<1>1. Position(ps, 1) = 0
      BY DEF Position
<1>2. RunsTo(ps, 1) = {}
      BY DEF RunsTo
<1>3. HeldTo(ps, 1) = Whole(1)
      BY <1>2, ProductEmpty DEF HeldTo
<1>4. CostsOf(Cardinality(ChangesTo(ps, 1))) = Whole(1)
      BY ChangesGrow, CostsGrow
<1>5. Times(Whole(1), Whole(1)) = Whole(1)
      BY WholeIsLowest, TimesOne
<1>6. Equity(ps)[1] = Whole(1)
      BY EquityIsPositive
<1> QED BY <1>1, <1>3, <1>4, <1>5, <1>6 DEF Reconciled

LEMMA BarReconciles ==
    ASSUME NEW ps \in Seq(Paid), NEW k \in 1..(Len(ps) - 1), Reconciled(ps, k)
    PROVE  Reconciled(ps, k + 1)
<1> DEFINE m == HeldTo(ps, k)
           w == Held(ps, k, k + 1, Position(ps, k + 1))
           c == Cardinality(ChangesTo(ps, k))
           x == CostsOf(c)
<1>1. /\ Len(ps) \in Nat /\ k \in Nat \ {0} /\ k \in 1..Len(ps) /\ k + 1 \in 1..Len(ps)
      /\ k + 1 \in 2..Len(ps) /\ (k + 1) - 1 = k
      BY LenProperties
<1>2. /\ m \in Positives /\ HeldTo(ps, k + 1) = Times(m, w)
      /\ Position(ps, k + 1) # 0 => \E o : IsRun(ps, k + 1, o, k + 1)
      BY HeldGrows DEF Reconciled
<1>3. w \in Positives
  <2>1. ps[k] \in Paid /\ ps[k + 1] \in Paid
        BY <1>1, ElementOfSeq
  <2> QED BY <2>1, FractionIsPositive, PositionIs, PowerIsPositive DEF Held
<1>4. c \in Nat
      BY <1>1, ChangesGrow
<1>5. x \in Positives /\ CostsOf(c + 1) = Times(x, Kept)
      BY <1>4, CostsGrow
<1>6. Equity(ps)[k + 1] = Times(Equity(ps)[k], BarFactor(ps, k + 1))
      BY <1>1, EquityIsPositive
<1>7. Equity(ps)[k] = Times(m, x)
      BY DEF Reconciled
<1>8. BarFactor(ps, k + 1) = IF Changes(ps, k + 1) THEN Times(w, Keep) ELSE w
      BY <1>1 DEF BarFactor, Held
<1>9. Times(w, Keep) = Times(w, Kept) /\ Kept \in Positives
      BY <1>3, KeepIs DEF Positives
<1>10. Cardinality(ChangesTo(ps, k + 1)) = c + (IF Changes(ps, k + 1) THEN 1 ELSE 0)
      BY <1>1, ChangesGrow
<1> HIDE DEF m, w, c, x
<1>11. m \in Lows /\ w \in Lows /\ x \in Lows /\ Kept \in Lows
      BY <1>2, <1>3, <1>5, <1>9 DEF Positives
<1>12. Times(Times(m, x), w) = Times(Times(m, w), x)
  <2>1. Times(Times(m, x), w) = Times(m, Times(x, w))
        BY <1>11, TimesAssociates
  <2>2. Times(m, Times(w, x)) = Times(Times(m, w), x)
        BY <1>11, TimesAssociates
  <2>3. Times(x, w) = Times(w, x)
        BY <1>11, TimesCommutes
  <2> QED BY <2>1, <2>2, <2>3
<1>13. CASE Changes(ps, k + 1)
  <2>1. Times(Times(m, x), Times(w, Kept)) = Times(Times(Times(m, x), w), Kept)
    <3>1. Times(m, x) \in Lows
          BY <1>11, LowArithmetic
    <3> QED BY <1>11, <3>1, TimesAssociates
  <2>2. Times(Times(Times(m, w), x), Kept) = Times(Times(m, w), Times(x, Kept))
    <3>1. Times(m, w) \in Lows
          BY <1>11, LowArithmetic
    <3> QED BY <1>11, <3>1, TimesAssociates
  <2>3. Cardinality(ChangesTo(ps, k + 1)) = c + 1
        BY <1>10, <1>13
  <2>4. Equity(ps)[k + 1] = Times(Times(m, x), Times(w, Kept))
        BY <1>6, <1>7, <1>8, <1>9, <1>13
  <2>5. Equity(ps)[k + 1] = Times(HeldTo(ps, k + 1), CostsOf(Cardinality(ChangesTo(ps, k + 1))))
        BY <1>2, <1>5, <1>12, <2>1, <2>2, <2>3, <2>4
  <2> QED BY <1>2, <2>5 DEF Reconciled
<1>14. CASE ~ Changes(ps, k + 1)
  <2>1. Cardinality(ChangesTo(ps, k + 1)) = c
        BY <1>4, <1>10, <1>14
  <2>2. CostsOf(c) = x
        BY DEF x
  <2>3. Equity(ps)[k + 1] = Times(Times(m, x), w)
        BY <1>6, <1>7, <1>8, <1>14
  <2>4. Equity(ps)[k + 1] = Times(HeldTo(ps, k + 1), CostsOf(Cardinality(ChangesTo(ps, k + 1))))
        BY <1>2, <1>12, <2>1, <2>2, <2>3
  <2> QED BY <1>2, <2>4 DEF Reconciled
<1> QED BY <1>13, <1>14

LEMMA BarsReconcile ==
    ASSUME NEW ps \in Seq(Paid), Len(ps) > 0
    PROVE  Reconciled(ps, Len(ps))
<1> DEFINE n == Len(ps)
           N == {k \in Nat : k + 1 <= n => Reconciled(ps, k + 1)}
<1>1. n \in Nat /\ n - 1 \in Nat /\ (n - 1) + 1 = n
      BY LenProperties
<1>2. 0 \in N
      BY FirstBarReconciled
<1>3. ASSUME NEW k \in Nat, k \in N PROVE k + 1 \in N
  <2> SUFFICES ASSUME (k + 1) + 1 <= n PROVE Reconciled(ps, (k + 1) + 1)
      OBVIOUS
  <2>1. k + 1 \in 1..(n - 1) /\ k + 1 <= n
        BY <1>1
  <2> QED BY <1>3, <2>1, BarReconciles
<1>4. Nat \subseteq N
  <2> HIDE DEF N
  <2> QED BY <1>2, <1>3, SetInduction
<1> QED BY <1>1, <1>4

-------------------------------------------------------------------------------
(* Buying and holding                                                        *)

AfterBar(ps, made, i) == Times(made, Fraction(ps[i], ps[i - 1]))

\* The bars that make something: all but the first.
LaterBars(ps) == [i \in 1..(Len(ps) - 1) |-> i + 1]

BarStep(ps, s, g, T) ==
    IF T = {} THEN Whole(1) ELSE AfterBar(ps, g[T \ {Max(T)}], s[Max(T)])

BarFcn(ps, s) == CHOOSE g : g = [T \in SUBSET (DOMAIN s) |-> BarStep(ps, s, g, T)]

Holding(ps) == FoldLeft(LAMBDA made, i : Times(made, Fraction(ps[i], ps[i - 1])),
                        Whole(1), LaterBars(ps))

LEMMA HoldingMakes ==
    ASSUME NEW ps \in Seq(Paid), Len(ps) > 0
    PROVE  Holding(ps) = Fraction(ps[Len(ps)], ps[1])
<1> DEFINE s == LaterBars(ps)
           n == Len(ps) - 1
           E == 2..Len(ps)
           op == [p \in Positives \X E |-> AfterBar(ps, p[1], p[2])]
           F == BarFcn(ps, s)
<1>1. /\ Len(ps) \in Nat /\ n \in Nat /\ n + 1 = Len(ps) /\ DOMAIN s = 1..n
      /\ \A i \in 1..n : s[i] = i + 1 /\ s[i] \in E
      BY LenProperties DEF LaterBars
<1>2. \A x \in Positives, e \in E : op[<<x, e>>] = AfterBar(ps, x, e)
      OBVIOUS
<1>3. ASSUME NEW x \in Positives, NEW e \in E PROVE AfterBar(ps, x, e) \in Positives
  <2>1. e \in 1..Len(ps) /\ e - 1 \in 1..Len(ps)
        BY <1>1
  <2>2. Fraction(ps[e], ps[e - 1]) \in Positives
        BY <2>1, ElementOfSeq, FractionIsPositive
  <2> QED BY <2>2, PositiveArithmetic DEF AfterBar
<1>4. op \in [Positives \X E -> Positives]
      BY <1>3
<1>5. Whole(1) \in Positives /\ 1 \in Paid
  <2>1. 1 \in Paid
        BY DEF Paid
  <2> QED BY <2>1, WholeIsPositive
<1> HIDE DEF op, n, s, E
<1>6. HasFold(op, Whole(1), s, Positives, n)
      BY <1>1, <1>4, <1>5, FoldExists
<1>7. PICK g \in [SUBSET (1..n) -> Positives] :
              \A T \in SUBSET (1..n) : g[T] = FoldStep(op, Whole(1), s, g, T)
      BY <1>6 DEF HasFold
<1>8. ASSUME NEW T \in SUBSET (1..n) PROVE g[T] = BarStep(ps, s, g, T)
  <2>1. CASE T = {}
        BY <1>7, <2>1 DEF FoldStep, BarStep
  <2>2. CASE T # {}
    <3>1. g[T \ {Max(T)}] \in Positives /\ s[Max(T)] \in E
          BY <1>1, <2>2, FoldArguments
    <3>2. g[T] = op[<<g[T \ {Max(T)}], s[Max(T)]>>]
          BY <1>7, <2>2 DEF FoldStep
    <3> QED BY <1>2, <2>2, <3>1, <3>2 DEF BarStep
  <2> QED BY <2>1, <2>2
<1>9. g = [T \in SUBSET (DOMAIN s) |-> BarStep(ps, s, g, T)]
      BY <1>1, <1>8
<1>10. F = [T \in SUBSET (DOMAIN s) |-> BarStep(ps, s, F, T)]
      BY <1>9 DEF BarFcn
<1> HIDE DEF F
<1> DEFINE N == {k \in Nat : k <= n => F[1..k] = Fraction(ps[k + 1], ps[1])}
<1>11. 0 \in N
  <2>1. F[1..0] = Whole(1)
        BY <1>1, <1>10 DEF BarStep
  <2>2. 1 \in 1..Len(ps) /\ ps[1] \in Paid
        BY <1>1, ElementOfSeq
  <2>3. ps[1] \in Int /\ ps[1] \in Nat \ {0} /\ ps[1] * 1 = 1 * ps[1]
        BY <2>2 DEF Paid
  <2>4. Fraction(ps[1], ps[1]) = Fraction(1, 1) /\ Whole(1) = Fraction(1, 1)
        BY <1>5, <2>3, FractionsAreUnique, WholeIsPositive
  <2> QED BY <2>1, <2>4
<1>12. ASSUME NEW k \in Nat, k \in N PROVE k + 1 \in N
  <2> SUFFICES ASSUME k + 1 <= n PROVE F[1..(k + 1)] = Fraction(ps[(k + 1) + 1], ps[1])
      OBVIOUS
  <2>1. /\ 1..(k + 1) \in SUBSET (DOMAIN s) /\ k <= n /\ k + 1 \in 1..n /\ ((k + 1) + 1) - 1 = k + 1
        /\ 1 \in 1..Len(ps) /\ k + 1 \in 1..Len(ps) /\ (k + 1) + 1 \in 1..Len(ps)
        BY <1>1
  <2>2. F[1..(k + 1)] = BarStep(ps, s, F, 1..(k + 1))
        BY <1>10, <2>1
  <2>3. F[1..(k + 1)] = AfterBar(ps, F[1..k], s[k + 1])
        BY <2>2, FirstOnes DEF BarStep
  <2>4. s[k + 1] = (k + 1) + 1
        BY <1>1, <2>1
  <2>5. F[1..k] = Fraction(ps[k + 1], ps[1])
        BY <1>12, <2>1
  <2>6. ps[1] \in Nat \ {0} /\ ps[k + 1] \in Nat \ {0} /\ ps[(k + 1) + 1] \in Nat \ {0}
        BY <2>1, ElementOfSeq DEF Paid
  <2> QED BY <2>1, <2>3, <2>4, <2>5, <2>6, TimesOver DEF AfterBar
<1>13. Nat \subseteq N
  <2> HIDE DEF N
  <2> QED BY <1>11, <1>12, SetInduction
<1>14. F[1..n] = Fraction(ps[Len(ps)], ps[1])
      BY <1>1, <1>13
<1>15. Holding(ps) = F[DOMAIN s]
      BY DEF Holding, FoldLeft, MapThenFoldSet, BarFcn, BarStep, AfterBar, F, s
<1> QED BY <1>1, <1>14, <1>15

-------------------------------------------------------------------------------
(* The trades                                                                *)

LEMMA ProductIs ==
    ASSUME NEW made
    PROVE  Product(made) = ProductOver(made, DOMAIN made)
BY DEF Product, FoldFunction, FoldFunctionOnSet, MapThenFoldSet, ProductOver, ProductFcn,
       ProductStep, Pick

LEMMA TradesReconciled == RowsOK => TradesReconcile
<1> SUFFICES ASSUME RowsOK, Sufficient(Prices(rows)) PROVE TradesReconcile
    BY DEF TradesReconcile
<1> DEFINE ps == Prices(rows)
           n == Len(ps)
           trades == Result(ps).trades
           gains == [run \in HeldRuns(ps) |->
                        Power(Fraction(ps[run[2]], ps[run[1] - 1]), Position(ps, run[1]))]
           costs == [k \in 1..trades |-> Keep]
<1>1. ps \in Seq(Paid) /\ n \in Nat
      BY PricesArePaid, LenProperties
<1>2. Sufficient(ps)
      OBVIOUS
<1> HIDE DEF ps
<1>3. n > 0
      BY <1>1, <1>2, BacktestAssumption DEF Sufficient
<1>4. Equity(ps)[n] = Times(HeldTo(ps, n), CostsOf(Cardinality(ChangesTo(ps, n))))
      BY <1>1, <1>3, BarsReconcile DEF Reconciled
<1>5. Result(ps).strategy = Equity(ps)[n]
  <2>1. Len(Equity(ps)) = n
        BY <1>1, EquityIsPositive
  <2> QED BY <1>2, <2>1 DEF Result, Last
<1>6. trades = Cardinality(ChangesTo(ps, n))
      BY <1>2 DEF Result, ChangesTo
<1>7. HeldTo(ps, n) = Product(gains)
  <2>1. gains = Gains(ps, n) /\ DOMAIN gains = RunsTo(ps, n)
        BY HeldRunsAre DEF Gains, Held
  <2> HIDE DEF gains
  <2> QED BY <2>1, ProductIs DEF HeldTo
<1>8. CostsOf(Cardinality(ChangesTo(ps, n))) = Product(costs)
  <2>1. DOMAIN costs = 1..trades
        OBVIOUS
  <2>2. Product(costs) = ProductOver(costs, 1..trades)
    <3> HIDE DEF costs
    <3> QED BY <2>1, ProductIs
  <2> QED BY <1>6, <2>2 DEF CostsOf
<1>9. Result(ps).buyAndHold = Fraction(Last(ps), ps[1])
  <2>1. Result(ps).buyAndHold = Holding(ps)
        BY <1>2 DEF Result, Holding, LaterBars
  <2> QED BY <1>1, <1>3, <2>1, HoldingMakes DEF Last
<1>10. Result(ps).strategy = Times(Product(gains), Product(costs))
      BY <1>4, <1>5, <1>7, <1>8
<1> QED BY <1>9, <1>10 DEF TradesReconcile, ps

\* What the strategy makes is what its held runs make from entry to exit less one
\* cost for each change of position, and holding makes the last close over the
\* first, for any rows, windows and cost (strategy.py 99-119).
THEOREM TheTradesReconcile == Spec => []TradesReconcile
BY RowsStayOK, TradesReconciled, PTL

-------------------------------------------------------------------------------
(* Sums and means of fractions                                               *)

Total(s) == FoldLeft(Plus, Whole(0), s)

TotalStep(s, g, T) ==
    IF T = {} THEN Whole(0) ELSE Plus(g[T \ {Max(T)}], s[Max(T)])

TotalFcn(s) == CHOOSE g : g = [T \in SUBSET (DOMAIN s) |-> TotalStep(s, g, T)]

\* The sum of the first k.
TotalTo(s, k) == TotalFcn(s)[1..k]

LEMMA TotalSteps ==
    ASSUME NEW s \in Seq(Lows)
    PROVE  /\ Total(s) = TotalTo(s, Len(s))
           /\ TotalTo(s, 0) = Whole(0)
           /\ \A k \in 0..(Len(s) - 1) : TotalTo(s, k + 1) = Plus(TotalTo(s, k), s[k + 1])
<1> DEFINE op == [p \in Lows \X Lows |-> Plus(p[1], p[2])]
           F == TotalFcn(s)
           n == Len(s)
<1>1. n \in Nat /\ DOMAIN s = 1..n /\ \A i \in 1..n : s[i] \in Lows
      BY LenProperties, ElementOfSeq
<1>2. \A x \in Lows, e \in Lows : op[<<x, e>>] = Plus(x, e)
      OBVIOUS
<1>3. op \in [Lows \X Lows -> Lows]
      BY LowArithmetic
<1>4. Whole(0) \in Lows
      BY WholeIsLowest
<1> HIDE DEF op, n
<1>5. HasFold(op, Whole(0), s, Lows, n)
      BY <1>1, <1>3, <1>4, FoldExists
<1>6. PICK g \in [SUBSET (1..n) -> Lows] :
              \A T \in SUBSET (1..n) : g[T] = FoldStep(op, Whole(0), s, g, T)
      BY <1>5 DEF HasFold
<1>7. ASSUME NEW T \in SUBSET (1..n) PROVE g[T] = TotalStep(s, g, T)
  <2>1. CASE T = {}
        BY <1>6, <2>1 DEF FoldStep, TotalStep
  <2>2. CASE T # {}
    <3>1. g[T \ {Max(T)}] \in Lows /\ s[Max(T)] \in Lows
          BY <1>1, <2>2, FoldArguments
    <3>2. g[T] = op[<<g[T \ {Max(T)}], s[Max(T)]>>]
          BY <1>6, <2>2 DEF FoldStep
    <3> QED BY <1>2, <2>2, <3>1, <3>2 DEF TotalStep
  <2> QED BY <2>1, <2>2
<1>8. g = [T \in SUBSET (DOMAIN s) |-> TotalStep(s, g, T)]
      BY <1>1, <1>7
<1>9. F = [T \in SUBSET (DOMAIN s) |-> TotalStep(s, F, T)]
      BY <1>8 DEF TotalFcn
<1> HIDE DEF F
<1>10. F[1..0] = Whole(0)
      BY <1>1, <1>9 DEF TotalStep
<1>11. ASSUME NEW k \in 0..(n - 1) PROVE F[1..(k + 1)] = Plus(F[1..k], s[k + 1])
  <2>1. 1..(k + 1) \in SUBSET (DOMAIN s) /\ k \in Nat
        BY <1>1
  <2>2. F[1..(k + 1)] = TotalStep(s, F, 1..(k + 1))
        BY <1>9, <2>1
  <2> QED BY <2>1, <2>2, FirstOnes DEF TotalStep
<1>12. Total(s) = F[DOMAIN s]
      BY DEF Total, FoldLeft, MapThenFoldSet, TotalFcn, TotalStep, F
<1> QED BY <1>1, <1>10, <1>11, <1>12 DEF TotalTo, F, n

\* The sum of the first k is of them alone.
LEMMA TotalsAgree ==
    ASSUME NEW s \in Seq(Lows), NEW t \in Seq(Lows), Len(s) <= Len(t),
           \A i \in 1..Len(s) : s[i] = t[i]
    PROVE  TotalTo(s, Len(s)) = TotalTo(t, Len(s)) /\ TotalTo(s, Len(s)) \in Lows
<1> DEFINE n == Len(s)
           N == {k \in Nat : k <= n => TotalTo(s, k) = TotalTo(t, k) /\ TotalTo(s, k) \in Lows}
<1>1. n \in Nat /\ Len(t) \in Nat /\ \A i \in 1..n : s[i] = t[i] /\ s[i] \in Lows
      BY LenProperties, ElementOfSeq
<1>2. 0 \in N
      BY TotalSteps, WholeIsLowest
<1>3. ASSUME NEW k \in Nat, k \in N PROVE k + 1 \in N
  <2> SUFFICES ASSUME k + 1 <= n
               PROVE  TotalTo(s, k + 1) = TotalTo(t, k + 1) /\ TotalTo(s, k + 1) \in Lows
      OBVIOUS
  <2> HIDE DEF n
  <2>1. k \in 0..(n - 1) /\ k \in 0..(Len(t) - 1) /\ k + 1 \in 1..n /\ k <= n
        BY <1>1 DEF n
  <2>2. TotalTo(s, k) = TotalTo(t, k) /\ TotalTo(s, k) \in Lows
        BY <1>3, <2>1
  <2>3. /\ TotalTo(s, k + 1) = Plus(TotalTo(s, k), s[k + 1])
        /\ TotalTo(t, k + 1) = Plus(TotalTo(t, k), t[k + 1])
        BY <2>1, TotalSteps DEF n
  <2>4. s[k + 1] = t[k + 1] /\ s[k + 1] \in Lows
        BY <1>1, <2>1
  <2> QED BY <2>2, <2>3, <2>4, LowArithmetic
<1>4. n \in N
  <2> HIDE DEF N
  <2> QED BY <1>1, <1>2, <1>3, SetInduction
<1> QED BY <1>1, <1>4

LEMMA TotalIsLow ==
    ASSUME NEW s \in Seq(Lows)
    PROVE  Total(s) \in Lows
<1>1. Len(s) \in Nat /\ Len(s) <= Len(s)
      BY LenProperties
<1>2. TotalTo(s, Len(s)) \in Lows
      BY <1>1, TotalsAgree
<1> QED BY <1>2, TotalSteps

LEMMA TotalOfAppended ==
    ASSUME NEW s \in Seq(Lows), NEW r \in Lows
    PROVE  Total(Append(s, r)) = Plus(Total(s), r)
<1> DEFINE t == Append(s, r)
           n == Len(s)
<1>1. /\ t \in Seq(Lows) /\ n \in Nat /\ Len(t) = n + 1 /\ t[n + 1] = r
      /\ \A i \in 1..n : t[i] = s[i]
      BY AppendProperties, LenProperties
<1> HIDE DEF t
<1>2. TotalTo(s, n) = TotalTo(t, n)
      BY <1>1, TotalsAgree
<1>3. TotalTo(t, n + 1) = Plus(TotalTo(t, n), t[n + 1])
  <2>1. n \in 0..(Len(t) - 1)
        BY <1>1
  <2> QED BY <1>1, <2>1, TotalSteps
<1> QED BY <1>1, <1>2, <1>3, TotalSteps DEF t, n

\* A mean lies between what its numbers lie between.
LEMMA MeanIsBetween ==
    ASSUME NEW s \in Seq(Lows), Len(s) > 0, NEW low \in Lows, NEW high \in Lows,
           \A i \in 1..Len(s) : AtMost(low, s[i]) /\ AtMost(s[i], high)
    PROVE  AtMost(low, Mean(s)) /\ AtMost(Mean(s), high)
<1> DEFINE n == Len(s)
           Within(k) == /\ TotalTo(s, k) \in Lows
                        /\ AtMost(Scale(k, low), TotalTo(s, k))
                        /\ AtMost(TotalTo(s, k), Scale(k, high))
           N == {k \in Nat : k <= n => Within(k)}
<1>1. n \in Nat /\ n > 0 /\ n \in Nat \ {0} /\ \A i \in 1..n : s[i] \in Lows
      BY LenProperties, ElementOfSeq
<1>2. 0 \in N
  <2>1. TotalTo(s, 0) = Whole(0) /\ Whole(0) \in Lows
        BY TotalSteps, WholeIsLowest
  <2>2. Scale(0, low) = Whole(0) /\ Scale(0, high) = Whole(0)
        BY ScaleSteps
  <2>3. AtMost(Whole(0), Whole(0))
        BY <2>1, LowFields, OrderOfFractions
  <2> QED BY <2>1, <2>2, <2>3
<1>3. ASSUME NEW k \in Nat, k \in N PROVE k + 1 \in N
  <2> SUFFICES ASSUME k + 1 <= n PROVE Within(k + 1)
      OBVIOUS
  <2>1. k \in 0..(Len(s) - 1) /\ k + 1 \in 1..n /\ k <= n
        BY <1>1
  <2>2. Within(k)
        BY <1>3, <2>1
  <2>3. TotalTo(s, k + 1) = Plus(TotalTo(s, k), s[k + 1])
        BY <2>1, TotalSteps
  <2>4. /\ Scale(k, low) \in Lows /\ Scale(k + 1, low) = Plus(Scale(k, low), low)
        /\ Scale(k, high) \in Lows /\ Scale(k + 1, high) = Plus(Scale(k, high), high)
        BY ScaleSteps
  <2>5. s[k + 1] \in Lows /\ AtMost(low, s[k + 1]) /\ AtMost(s[k + 1], high)
        BY <1>1, <2>1
  <2> HIDE DEF n, N
  <2>6. /\ AtMost(Plus(Scale(k, low), low), Plus(TotalTo(s, k), s[k + 1]))
        /\ AtMost(Plus(TotalTo(s, k), s[k + 1]), Plus(Scale(k, high), high))
        BY <2>2, <2>4, <2>5, PlusAtMost
  <2>7. TotalTo(s, k + 1) \in Lows
        BY <2>2, <2>3, <2>5, LowArithmetic
  <2> QED BY <2>3, <2>4, <2>6, <2>7
<1>4. Within(n)
  <2> HIDE DEF Within
  <2>1. Nat \subseteq N
    <3> HIDE DEF N
    <3> QED BY <1>2, <1>3, SetInduction
  <2> QED BY <1>1, <2>1
<1>5. Mean(s) = DividedBy(TotalTo(s, n), n)
      BY TotalSteps DEF Mean, Total
<1>6. /\ Scale(n, low) \in Lows /\ DividedBy(Scale(n, low), n) = low
      /\ Scale(n, high) \in Lows /\ DividedBy(Scale(n, high), n) = high
      BY <1>1, ScaleSteps
<1> HIDE DEF n
<1>7. /\ AtMost(DividedBy(Scale(n, low), n), DividedBy(TotalTo(s, n), n))
      /\ AtMost(DividedBy(TotalTo(s, n), n), DividedBy(Scale(n, high), n))
      BY <1>1, <1>4, <1>6, DividedKeepsOrder
<1> QED BY <1>5, <1>6, <1>7

-------------------------------------------------------------------------------
(* The losses among the returns                                              *)

AfterOne(losses, r) == IF r.n < 0 THEN Append(losses, r) ELSE losses

LossStep(s, g, T) == IF T = {} THEN <<>> ELSE AfterOne(g[T \ {Max(T)}], s[Max(T)])

LossFcn(s) == CHOOSE g : g = [T \in SUBSET (DOMAIN s) |-> LossStep(s, g, T)]

\* The losses among the first k.
LossesTo(s, k) == LossFcn(s)[1..k]

LEMMA LossSteps ==
    ASSUME NEW s \in Seq(Lows)
    PROVE  /\ Losses(s) = LossesTo(s, Len(s))
           /\ LossesTo(s, 0) = <<>>
           /\ \A k \in 0..(Len(s) - 1) : LossesTo(s, k + 1) = AfterOne(LossesTo(s, k), s[k + 1])
<1> DEFINE op == [p \in Seq(Lows) \X Lows |-> AfterOne(p[1], p[2])]
           F == LossFcn(s)
           n == Len(s)
<1>1. n \in Nat /\ DOMAIN s = 1..n /\ \A i \in 1..n : s[i] \in Lows
      BY LenProperties, ElementOfSeq
<1>2. \A x \in Seq(Lows), e \in Lows : op[<<x, e>>] = AfterOne(x, e)
      OBVIOUS
<1>3. op \in [Seq(Lows) \X Lows -> Seq(Lows)]
      BY AppendProperties DEF AfterOne
<1>4. <<>> \in Seq(Lows)
      OBVIOUS
<1> HIDE DEF op, n
<1>5. HasFold(op, <<>>, s, Seq(Lows), n)
      BY <1>1, <1>3, <1>4, FoldExists
<1>6. PICK g \in [SUBSET (1..n) -> Seq(Lows)] :
              \A T \in SUBSET (1..n) : g[T] = FoldStep(op, <<>>, s, g, T)
      BY <1>5 DEF HasFold
<1>7. ASSUME NEW T \in SUBSET (1..n) PROVE g[T] = LossStep(s, g, T)
  <2>1. CASE T = {}
        BY <1>6, <2>1 DEF FoldStep, LossStep
  <2>2. CASE T # {}
    <3>1. g[T \ {Max(T)}] \in Seq(Lows) /\ s[Max(T)] \in Lows
          BY <1>1, <2>2, FoldArguments
    <3>2. g[T] = op[<<g[T \ {Max(T)}], s[Max(T)]>>]
          BY <1>6, <2>2 DEF FoldStep
    <3> QED BY <1>2, <2>2, <3>1, <3>2 DEF LossStep
  <2> QED BY <2>1, <2>2
<1>8. g = [T \in SUBSET (DOMAIN s) |-> LossStep(s, g, T)]
      BY <1>1, <1>7
<1>9. F = [T \in SUBSET (DOMAIN s) |-> LossStep(s, F, T)]
      BY <1>8 DEF LossFcn
<1> HIDE DEF F
<1>10. F[1..0] = <<>>
      BY <1>1, <1>9 DEF LossStep
<1>11. ASSUME NEW k \in 0..(n - 1) PROVE F[1..(k + 1)] = AfterOne(F[1..k], s[k + 1])
  <2>1. 1..(k + 1) \in SUBSET (DOMAIN s) /\ k \in Nat
        BY <1>1
  <2>2. F[1..(k + 1)] = LossStep(s, F, 1..(k + 1))
        BY <1>9, <2>1
  <2> QED BY <2>1, <2>2, FirstOnes DEF LossStep
<1>12. Losses(s) = F[DOMAIN s]
      BY DEF Losses, FoldLeft, MapThenFoldSet, LossFcn, LossStep, AfterOne, F
<1> QED BY <1>1, <1>10, <1>11, <1>12 DEF LossesTo, F, n

\* The losses make no more than all returns.
LEMMA LossesMakeLess ==
    ASSUME NEW s \in Seq(Lows)
    PROVE  /\ Losses(s) \in Seq(Lows)
           /\ AtMost(Total(Losses(s)), Total(s))
<1> DEFINE n == Len(s)
           Less(k) == /\ LossesTo(s, k) \in Seq(Lows) /\ TotalTo(s, k) \in Lows
                      /\ AtMost(Total(LossesTo(s, k)), TotalTo(s, k))
           N == {k \in Nat : k <= n => Less(k)}
<1>1. n \in Nat /\ \A i \in 1..n : s[i] \in Lows
      BY LenProperties, ElementOfSeq
<1>2. 0 \in N
  <2>1. <<>> \in Seq(Lows) /\ Len(<<>>) = 0
        OBVIOUS
  <2>2. Total(<<>>) = Whole(0)
        BY <2>1, TotalSteps
  <2>3. TotalTo(s, 0) = Whole(0) /\ LossesTo(s, 0) = <<>> /\ Whole(0) \in Lows
        BY TotalSteps, LossSteps, WholeIsLowest
  <2>4. AtMost(Whole(0), Whole(0))
        BY <2>3, LowFields, OrderOfFractions
  <2> QED BY <2>1, <2>2, <2>3, <2>4
<1>3. ASSUME NEW k \in Nat, k \in N PROVE k + 1 \in N
  <2> SUFFICES ASSUME k + 1 <= n PROVE Less(k + 1)
      OBVIOUS
  <2>1. k \in 0..(Len(s) - 1) /\ k + 1 \in 1..n /\ k <= n
        BY <1>1
  <2>2. Less(k)
        BY <1>3, <2>1
  <2> DEFINE r == s[k + 1]
             some == LossesTo(s, k)
             all == TotalTo(s, k)
  <2>3. TotalTo(s, k + 1) = Plus(all, r) /\ LossesTo(s, k + 1) = AfterOne(some, r)
        BY <2>1, TotalSteps, LossSteps
  <2>4. r \in Lows /\ some \in Seq(Lows) /\ all \in Lows /\ AtMost(Total(some), all)
        BY <1>1, <2>1, <2>2
  <2> HIDE DEF r, some, all, n, N
  <2>5. Total(some) \in Lows /\ Plus(all, r) \in Lows
        BY <2>4, TotalIsLow, LowArithmetic
  <2>6. CASE r.n < 0
    <3>1. AfterOne(some, r) = Append(some, r) /\ Append(some, r) \in Seq(Lows)
          BY <2>4, <2>6, AppendProperties DEF AfterOne
    <3>2. Total(Append(some, r)) = Plus(Total(some), r)
          BY <2>4, TotalOfAppended
    <3>3. AtMost(Plus(Total(some), r), Plus(all, r))
          BY <2>4, <2>5, PlusKeepsOrder
    <3> QED BY <2>3, <2>5, <3>1, <3>2, <3>3
  <2>7. CASE ~ (r.n < 0)
    <3>1. AfterOne(some, r) = some
          BY <2>7 DEF AfterOne
    <3>2. Whole(0) \in Lows /\ AtMost(Whole(0), r)
      <4>1. r.n \in Int /\ r.d \in Nat /\ r.n >= 0
            BY <2>4, <2>7, LowFields
      <4>2. 0 * r.d <= r.n * 1
            BY <4>1
      <4> QED BY <4>2, WholeIsLowest DEF AtMost, Whole
    <3>3. AtMost(Plus(Total(some), Whole(0)), Plus(all, r))
          BY <2>4, <2>5, <3>2, PlusAtMost
    <3>4. Plus(Total(some), Whole(0)) = Total(some)
          BY <2>5, PlusNothing
    <3> QED BY <2>3, <2>4, <2>5, <3>1, <3>3, <3>4
  <2> QED BY <2>6, <2>7
<1>4. Less(n)
  <2> HIDE DEF Less
  <2>1. Nat \subseteq N
    <3> HIDE DEF N
    <3> QED BY <1>2, <1>3, SetInduction
  <2> QED BY <1>1, <2>1
<1> QED BY <1>4, TotalSteps, LossSteps

-------------------------------------------------------------------------------
(* The losses in order                                                       *)

\* Those that a value is ranked behind.
NotAbove(sorted, value) == {i \in DOMAIN sorted : AtMost(sorted[i], value)}

LEMMA RankedType ==
    ASSUME NEW sorted \in Seq(Lows), NEW value \in Lows
    PROVE  Ranked(sorted, value) \in Seq(Lows)
<1> DEFINE S == NotAbove(sorted, value)
<1>1. Len(sorted) \in Nat /\ S \subseteq 1..Len(sorted)
      BY LenProperties DEF NotAbove
<1>2. Cardinality(S) \in 0..Len(sorted)
  <2>1. IsFiniteSet(1..Len(sorted)) /\ Cardinality(1..Len(sorted)) = Len(sorted)
        BY <1>1, SizeOfFirst
  <2>2. Cardinality(S) \in Nat /\ Cardinality(S) <= Len(sorted)
        BY <1>1, <2>1, FS_Subset, FS_CardinalityType
  <2> QED BY <1>1, <2>2
<1>3. Ranked(sorted, value) = InsertAt(sorted, Cardinality(S) + 1, value)
      BY DEF Ranked, NotAbove
<1> HIDE DEF S
<1> QED BY <1>2, <1>3, InsertAtIs DEF WithRow

RankStep(s, g, T) == IF T = {} THEN <<>> ELSE Ranked(g[T \ {Max(T)}], s[Max(T)])

RankFcn(s) == CHOOSE g : g = [T \in SUBSET (DOMAIN s) |-> RankStep(s, g, T)]

\* The first k in order.
RankedTo(s, k) == RankFcn(s)[1..k]

LEMMA RankSteps ==
    ASSUME NEW s \in Seq(Lows)
    PROVE  /\ Sorted(s) = RankedTo(s, Len(s))
           /\ RankedTo(s, 0) = <<>>
           /\ \A k \in 0..(Len(s) - 1) : RankedTo(s, k + 1) = Ranked(RankedTo(s, k), s[k + 1])
<1> DEFINE op == [p \in Seq(Lows) \X Lows |-> Ranked(p[1], p[2])]
           F == RankFcn(s)
           n == Len(s)
<1>1. n \in Nat /\ DOMAIN s = 1..n /\ \A i \in 1..n : s[i] \in Lows
      BY LenProperties, ElementOfSeq
<1>2. \A x \in Seq(Lows), e \in Lows : op[<<x, e>>] = Ranked(x, e)
      OBVIOUS
<1>3. op \in [Seq(Lows) \X Lows -> Seq(Lows)]
      BY RankedType
<1>4. <<>> \in Seq(Lows)
      OBVIOUS
<1> HIDE DEF op, n
<1>5. HasFold(op, <<>>, s, Seq(Lows), n)
      BY <1>1, <1>3, <1>4, FoldExists
<1>6. PICK g \in [SUBSET (1..n) -> Seq(Lows)] :
              \A T \in SUBSET (1..n) : g[T] = FoldStep(op, <<>>, s, g, T)
      BY <1>5 DEF HasFold
<1>7. ASSUME NEW T \in SUBSET (1..n) PROVE g[T] = RankStep(s, g, T)
  <2>1. CASE T = {}
        BY <1>6, <2>1 DEF FoldStep, RankStep
  <2>2. CASE T # {}
    <3>1. g[T \ {Max(T)}] \in Seq(Lows) /\ s[Max(T)] \in Lows
          BY <1>1, <2>2, FoldArguments
    <3>2. g[T] = op[<<g[T \ {Max(T)}], s[Max(T)]>>]
          BY <1>6, <2>2 DEF FoldStep
    <3> QED BY <1>2, <2>2, <3>1, <3>2 DEF RankStep
  <2> QED BY <2>1, <2>2
<1>8. g = [T \in SUBSET (DOMAIN s) |-> RankStep(s, g, T)]
      BY <1>1, <1>7
<1>9. F = [T \in SUBSET (DOMAIN s) |-> RankStep(s, F, T)]
      BY <1>8 DEF RankFcn
<1> HIDE DEF F
<1>10. F[1..0] = <<>>
      BY <1>1, <1>9 DEF RankStep
<1>11. ASSUME NEW k \in 0..(n - 1) PROVE F[1..(k + 1)] = Ranked(F[1..k], s[k + 1])
  <2>1. 1..(k + 1) \in SUBSET (DOMAIN s) /\ k \in Nat
        BY <1>1
  <2>2. F[1..(k + 1)] = RankStep(s, F, 1..(k + 1))
        BY <1>9, <2>1
  <2> QED BY <2>1, <2>2, FirstOnes DEF RankStep
<1>12. Sorted(s) = F[DOMAIN s]
      BY DEF Sorted, FoldLeft, MapThenFoldSet, RankFcn, RankStep, F
<1> QED BY <1>1, <1>10, <1>11, <1>12 DEF RankedTo, F, n

Rising(sorted) == \A i, j \in DOMAIN sorted : i < j => AtMost(sorted[i], sorted[j])

\* place says where each element of sorted stands among the first k values.
Arranges(place, sorted, values, k) ==
    /\ place \in Bijection(1..k, 1..k)
    /\ \A i \in 1..k : sorted[i] = values[place[i]]

Arranged(sorted, values, k) ==
    /\ sorted \in Seq(Lows) /\ Len(sorted) = k
    /\ Rising(sorted)
    /\ \E place : Arranges(place, sorted, values, k)

\* In a rising sequence they are its beginning.
LEMMA NotAboveIsPrefix ==
    ASSUME NEW sorted \in Seq(Lows), Rising(sorted), NEW value \in Lows
    PROVE  \E q \in 0..Len(sorted) :
              /\ Cardinality(NotAbove(sorted, value)) = q
              /\ \A i \in DOMAIN sorted : AtMost(sorted[i], value) <=> i <= q
<1> DEFINE n == Len(sorted)
           S == NotAbove(sorted, value)
<1>1. /\ n \in Nat /\ DOMAIN sorted = 1..n
      /\ \A i \in 1..n : sorted[i] \in Lows /\ sorted[i] \in Fracs
      BY LenProperties, ElementOfSeq, LowFields
<1>2. S \in SUBSET (1..n) /\ \A i \in 1..n : i \in S <=> AtMost(sorted[i], value)
      BY <1>1 DEF NotAbove
<1>3. value \in Fracs
      BY LowFields
<1> HIDE DEF n, S
<1>4. ASSUME NEW q \in 0..n, \A i \in 1..n : i \in S <=> i <= q
      PROVE  Cardinality(S) = q
  <2>1. \A i \in 1..n : i \in 1..q <=> i <= q
        BY <1>1
  <2>2. 1..q \subseteq 1..n
        BY <1>1
  <2>3. S = 1..q
        BY <1>2, <1>4, <2>1, <2>2
  <2> QED BY <1>1, <2>3, SizeOfFirst
<1>5. CASE S = {}
  <2>1. 0 \in 0..n /\ \A i \in 1..n : i \in S <=> i <= 0
        BY <1>1, <1>5
  <2> QED BY <1>1, <1>2, <1>4, <2>1 DEF n, S
<1>6. CASE S # {}
  <2>1. PICK q \in S : \A j \in S : j <= q
        BY <1>1, <1>2, <1>6, GreatestElement
  <2>2. q \in 1..n /\ q \in 0..n
        BY <1>1, <1>2
  <2>3. ASSUME NEW i \in 1..n, i < q PROVE i \in S
    <3>1. AtMost(sorted[i], sorted[q]) /\ AtMost(sorted[q], value)
          BY <1>1, <1>2, <2>1, <2>2, <2>3 DEF Rising
    <3>2. AtMost(sorted[i], value)
          BY <1>1, <1>3, <2>2, <3>1, AtMostTransitive
    <3> QED BY <1>2, <3>2
  <2>4. \A i \in 1..n : i \in S <=> i <= q
        BY <1>1, <2>1, <2>2, <2>3
  <2> QED BY <1>1, <1>2, <1>4, <2>2, <2>4 DEF n, S
<1> QED BY <1>5, <1>6

\* Where the elements stand once the next value has come behind the first q.
Shifted(place, k, q) ==
    [i \in 1..(k + 1) |-> IF i <= q THEN place[i]
                          ELSE IF i = q + 1 THEN k + 1 ELSE place[i - 1]]

LEMMA ShiftedIsBijection ==
    ASSUME NEW k \in Nat, NEW q \in 0..k, NEW place \in Bijection(1..k, 1..k)
    PROVE  Shifted(place, k, q) \in Bijection(1..(k + 1), 1..(k + 1))
<1> DEFINE new == Shifted(place, k, q)
           n == k + 1
<1>1. /\ place \in [1..k -> 1..k]
      /\ \A i, j \in 1..k : place[i] = place[j] => i = j
      /\ \A j \in 1..k : \E i \in 1..k : place[i] = j
      BY DEF Bijection, Injection, Surjection, IsInjective
<1>2. n \in Nat /\ \A i \in 1..n : \/ i <= q /\ i \in 1..k
                                   \/ i = q + 1
                                   \/ i > q + 1 /\ i - 1 \in 1..k
      OBVIOUS
<1>3. /\ \A i \in 1..n : i <= q => new[i] = place[i]
      /\ \A i \in 1..n : i = q + 1 => new[i] = n
      /\ \A i \in 1..n : i > q + 1 => new[i] = place[i - 1]
      BY DEF Shifted
<1>4. \A i \in 1..n : new[i] \in 1..n
  <2>1. \A i \in 1..k : place[i] \in 1..n
        BY <1>1
  <2>2. n \in 1..n
        OBVIOUS
  <2> HIDE DEF new, n
  <2> QED BY <1>2, <1>3, <2>1, <2>2
<1>5. new \in [1..n -> 1..n]
  <2>1. new = [i \in 1..n |-> new[i]]
        BY DEF Shifted
  <2> HIDE DEF new, n
  <2> QED BY <1>4, <2>1
<1> HIDE DEF new
<1>6. ASSUME NEW i \in 1..n, NEW j \in 1..n, new[i] = new[j]
      PROVE  i = j
  <2> DEFINE Stands(x) == \/ x <= q /\ x \in 1..k /\ new[x] = place[x]
                          \/ x = q + 1 /\ new[x] = n
                          \/ x > q + 1 /\ x - 1 \in 1..k /\ new[x] = place[x - 1]
  <2>1. Stands(i) /\ Stands(j)
    <3> HIDE DEF n
    <3> QED BY <1>2, <1>3
  <2>2. i \in Nat /\ j \in Nat /\ q \in Nat /\ \A x \in 1..k : place[x] # n
        BY <1>1
  <2> HIDE DEF n
  <2>3. CASE i = q + 1
        BY <1>6, <2>1, <2>2, <2>3
  <2>4. CASE j = q + 1
        BY <1>6, <2>1, <2>2, <2>4
  <2>5. CASE i <= q /\ j <= q
        BY <1>1, <1>6, <2>1, <2>2, <2>5
  <2>6. CASE i <= q /\ j > q + 1
    <3>1. i \in 1..k /\ j - 1 \in 1..k /\ place[i] = place[j - 1]
          BY <1>6, <2>1, <2>2, <2>6
    <3>2. i = j - 1
          BY <1>1, <3>1
    <3> QED BY <2>2, <2>6, <3>2
  <2>7. CASE i > q + 1 /\ j <= q
    <3>1. j \in 1..k /\ i - 1 \in 1..k /\ place[j] = place[i - 1]
          BY <1>6, <2>1, <2>2, <2>7
    <3>2. j = i - 1
          BY <1>1, <3>1
    <3> QED BY <2>2, <2>7, <3>2
  <2>8. CASE i > q + 1 /\ j > q + 1
    <3>1. i - 1 \in 1..k /\ j - 1 \in 1..k /\ place[i - 1] = place[j - 1]
          BY <1>6, <2>1, <2>2, <2>8
    <3>2. i - 1 = j - 1
          BY <1>1, <3>1
    <3> QED BY <2>2, <3>2
  <2> QED BY <2>1, <2>3, <2>4, <2>5, <2>6, <2>7, <2>8
<1>7. ASSUME NEW j \in 1..n PROVE \E i \in 1..n : new[i] = j
  <2>1. CASE j = n
    <3>1. q + 1 \in 1..n
          OBVIOUS
    <3> QED BY <1>3, <2>1, <3>1
  <2>2. CASE j # n
    <3>1. j \in 1..k
          BY <2>2
    <3>2. PICK i \in 1..k : place[i] = j
          BY <1>1, <3>1
    <3>3. CASE i <= q
      <4>1. i \in 1..n
            OBVIOUS
      <4> QED BY <1>3, <3>2, <3>3, <4>1
    <3>4. CASE i > q
      <4>1. i + 1 \in 1..n /\ i + 1 > q + 1 /\ (i + 1) - 1 = i
            BY <3>4
      <4> HIDE DEF n
      <4>2. new[i + 1] = place[i]
            BY <1>3, <4>1
      <4> QED BY <3>2, <4>1, <4>2
    <3> QED BY <3>3, <3>4
  <2> QED BY <2>1, <2>2
<1> QED BY <1>5, <1>6, <1>7 DEF Bijection, Injection, Surjection, IsInjective, new, n

LEMMA RankedArranges ==
    ASSUME NEW values \in Seq(Lows), NEW k \in 0..(Len(values) - 1), NEW sorted,
           Arranged(sorted, values, k)
    PROVE  Arranged(Ranked(sorted, values[k + 1]), values, k + 1)
<1> DEFINE value == values[k + 1]
           r == Ranked(sorted, value)
<1>1. k \in Nat /\ k + 1 \in 1..Len(values)
      BY LenProperties
<1>2. value \in Lows
      BY <1>1, ElementOfSeq
<1>3. sorted \in Seq(Lows) /\ Len(sorted) = k /\ Rising(sorted) /\ DOMAIN sorted = 1..k
      BY LenProperties DEF Arranged
<1>4. PICK place : Arranges(place, sorted, values, k)
      BY DEF Arranged
<1> HIDE DEF value
<1>5. \E q \in 0..Len(sorted) :
         /\ Cardinality(NotAbove(sorted, value)) = q
         /\ \A i \in DOMAIN sorted : AtMost(sorted[i], value) <=> i <= q
      BY <1>2, <1>3, NotAboveIsPrefix
<1>6. PICK q \in 0..k :
         /\ Cardinality(NotAbove(sorted, value)) = q
         /\ \A i \in 1..k : AtMost(sorted[i], value) <=> i <= q
      BY <1>3, <1>5
<1>7. r = InsertAt(sorted, q + 1, value)
      BY <1>6 DEF Ranked, NotAbove
<1> HIDE DEF r
<1>8. /\ r \in Seq(Lows) /\ Len(r) = k + 1
      /\ \A i \in 1..q : r[i] = sorted[i]
      /\ r[q + 1] = value
      /\ \A i \in (q + 2)..(k + 1) : r[i] = sorted[i - 1]
  <2>1. WithRow(InsertAt(sorted, q + 1, value), Lows, sorted, value, q)
        BY <1>2, <1>3, <1>6, InsertAtIs
  <2> QED BY <1>3, <1>7, <2>1 DEF WithRow
<1>9. q \in Nat /\ q <= k /\ DOMAIN r = 1..(k + 1)
      BY <1>6, <1>8, LenProperties
<1>10. \A i \in 1..k : sorted[i] \in Fracs /\ value \in Fracs
       BY <1>2, <1>3, ElementOfSeq, LowFields
<1>11. Rising(r)
  <2> SUFFICES ASSUME NEW i \in 1..(k + 1), NEW j \in 1..(k + 1), i < j
               PROVE  AtMost(r[i], r[j])
      BY <1>9 DEF Rising
  <2>1. CASE j <= q
    <3>1. i \in 1..q /\ j \in 1..q /\ i \in 1..k /\ j \in 1..k
          BY <1>9, <2>1
    <3> QED BY <1>3, <1>8, <3>1 DEF Rising
  <2>2. CASE j = q + 1
    <3>1. i \in 1..q /\ i \in 1..k /\ i <= q
          BY <1>9, <2>2
    <3> QED BY <1>6, <1>8, <2>2, <3>1
  <2>3. CASE j > q + 1
    <3>1. j \in (q + 2)..(k + 1) /\ j - 1 \in 1..k /\ ~ (j - 1 <= q)
          BY <1>1, <1>9, <2>3
    <3>2. r[j] = sorted[j - 1]
          BY <1>8, <3>1
    <3>3. AtMost(value, sorted[j - 1])
          BY <1>6, <1>10, <3>1, OrderOfFractions
    <3>4. CASE i <= q
      <4>1. i \in 1..q /\ i \in 1..k /\ i < j - 1
            BY <1>9, <2>3, <3>4
      <4> QED BY <1>3, <1>8, <3>1, <3>2, <4>1 DEF Rising
    <3>5. CASE i = q + 1
          BY <1>8, <3>2, <3>3, <3>5
    <3>6. CASE i > q + 1
      <4>1. i \in (q + 2)..(k + 1) /\ i - 1 \in 1..k /\ i - 1 < j - 1
            BY <1>1, <1>9, <3>6
      <4> QED BY <1>3, <1>8, <3>1, <3>2, <4>1 DEF Rising
    <3> QED BY <1>9, <3>4, <3>5, <3>6
  <2> QED BY <1>9, <2>1, <2>2, <2>3
<1>12. Arranges(Shifted(place, k, q), r, values, k + 1)
  <2>1. place \in Bijection(1..k, 1..k) /\ \A i \in 1..k : sorted[i] = values[place[i]]
        BY <1>4 DEF Arranges
  <2>2. Shifted(place, k, q) \in Bijection(1..(k + 1), 1..(k + 1))
        BY <1>1, <1>6, <2>1, ShiftedIsBijection
  <2>3. ASSUME NEW i \in 1..(k + 1) PROVE r[i] = values[Shifted(place, k, q)[i]]
    <3>1. CASE i <= q
      <4>1. i \in 1..q /\ i \in 1..k
            BY <1>9, <3>1
      <4>2. Shifted(place, k, q)[i] = place[i]
            BY <3>1 DEF Shifted
      <4> QED BY <1>8, <2>1, <4>1, <4>2
    <3>2. CASE i = q + 1
      <4>1. Shifted(place, k, q)[i] = k + 1
            BY <1>9, <3>2 DEF Shifted
      <4> QED BY <1>8, <3>2, <4>1 DEF value
    <3>3. CASE i > q + 1
      <4>1. i \in (q + 2)..(k + 1) /\ i - 1 \in 1..k
            BY <1>1, <1>9, <3>3
      <4>2. Shifted(place, k, q)[i] = place[i - 1]
            BY <1>9, <3>3 DEF Shifted
      <4> QED BY <1>8, <2>1, <4>1, <4>2
    <3> QED BY <1>9, <3>1, <3>2, <3>3
  <2> QED BY <2>2, <2>3 DEF Arranges
<1> QED BY <1>8, <1>11, <1>12 DEF Arranged, r, value

LEMMA SortedIsArranged ==
    ASSUME NEW values \in Seq(Lows)
    PROVE  Arranged(Sorted(values), values, Len(values))
<1> DEFINE n == Len(values)
           N == {k \in Nat : k <= n => Arranged(RankedTo(values, k), values, k)}
<1>1. n \in Nat
      BY LenProperties
<1>2. 0 \in N
  <2>1. RankedTo(values, 0) = <<>> /\ <<>> \in Seq(Lows) /\ Len(<<>>) = 0 /\ DOMAIN <<>> = {}
        BY RankSteps
  <2>2. <<>> \in Bijection(1..0, 1..0) /\ \A i \in 1..0 : FALSE
    <3>1. 1..0 = {} /\ <<>> \in [{} -> {}]
          OBVIOUS
    <3> QED BY <3>1 DEF Bijection, Injection, Surjection, IsInjective
  <2>3. Arranges(<<>>, <<>>, values, 0)
        BY <2>2 DEF Arranges
  <2>4. Rising(<<>>)
        BY <2>1 DEF Rising
  <2> QED BY <2>1, <2>3, <2>4 DEF Arranged
<1>3. ASSUME NEW k \in Nat, k \in N PROVE k + 1 \in N
  <2> SUFFICES ASSUME k + 1 <= n PROVE Arranged(RankedTo(values, k + 1), values, k + 1)
      OBVIOUS
  <2>1. k \in 0..(Len(values) - 1) /\ k <= n
        BY <1>1
  <2>2. Arranged(RankedTo(values, k), values, k)
        BY <1>3, <2>1
  <2>3. RankedTo(values, k + 1) = Ranked(RankedTo(values, k), values[k + 1])
        BY <2>1, RankSteps
  <2> QED BY <2>1, <2>2, <2>3, RankedArranges
<1>4. n \in N
  <2> HIDE DEF N
  <2> QED BY <1>1, <1>2, <1>3, SetInduction
<1> QED BY <1>1, <1>4, RankSteps

-------------------------------------------------------------------------------
(* The loss figures                                                          *)

\* At least half of what is arranged does not come before its middle, and at least
\* half not after it.
LEMMA MedianHalves ==
    ASSUME NEW values \in Seq(Lows), Len(values) > 0, NEW sorted,
           Arranged(sorted, values, Len(values)),
           NEW median, median = sorted[Len(sorted) \div 2 + 1]
    PROVE  /\ 2 * Cardinality({i \in DOMAIN values : AtMost(median, values[i])}) >= Len(values)
           /\ 2 * Cardinality({i \in DOMAIN values : AtMost(values[i], median)}) >= Len(values)
<1> DEFINE n == Len(values)
           m == n \div 2 + 1
           above == {i \in DOMAIN values : AtMost(median, values[i])}
           below == {i \in DOMAIN values : AtMost(values[i], median)}
<1>1. /\ n \in Nat /\ n > 0 /\ DOMAIN values = 1..n
      /\ sorted \in Seq(Lows) /\ Len(sorted) = n /\ DOMAIN sorted = 1..n /\ Rising(sorted)
      BY LenProperties DEF Arranged
<1>2. PICK place : Arranges(place, sorted, values, n)
      BY DEF Arranged
<1>3. /\ place \in [1..n -> 1..n]
      /\ \A i, j \in 1..n : place[i] = place[j] => i = j
      /\ \A i \in 1..n : sorted[i] = values[place[i]]
      BY <1>2 DEF Arranges, Bijection, Injection, IsInjective
<1> HIDE DEF n
<1>4. m \in 1..n /\ 2 * m >= n /\ 2 * (n - m + 1) >= n
      BY <1>1
<1>5. median = sorted[m]
      BY <1>1
<1> HIDE DEF m
<1>6. \A i \in 1..n : sorted[i] \in Fracs
      BY <1>1, ElementOfSeq, LowFields
<1>7. ASSUME NEW i \in 1..n
      PROVE  /\ m <= i => AtMost(median, values[place[i]])
             /\ i <= m => AtMost(values[place[i]], median)
  <2>1. m < i => AtMost(sorted[m], sorted[i])
        BY <1>1, <1>4 DEF Rising
  <2>2. i < m => AtMost(sorted[i], sorted[m])
        BY <1>1, <1>4 DEF Rising
  <2>3. AtMost(sorted[i], sorted[i])
        BY <1>6, OrderOfFractions
  <2> QED BY <1>3, <1>4, <1>5, <2>1, <2>2, <2>3
<1>8. ASSUME NEW a \in 1..n, NEW b \in 1..n, NEW S \in SUBSET (1..n),
             \A i \in a..b : place[i] \in S
      PROVE  /\ Cardinality(S) \in Nat
             /\ a <= b => b - a + 1 <= Cardinality(S)
  <2> DEFINE f == [i \in a..b |-> place[i]]
  <2>1. a..b \subseteq 1..n
        BY <1>1
  <2>2. f \in Injection(a..b, S)
        BY <1>3, <1>8, <2>1 DEF Injection, IsInjective
  <2> HIDE DEF f
  <2>3. IsFiniteSet(S) /\ Cardinality(S) \in Nat
        BY <1>1, SizeOfFirst, FS_Subset, FS_CardinalityType
  <2>4. Cardinality(a..b) <= Cardinality(S)
        BY <2>2, <2>3, FS_Injection
  <2>5. a <= b => Cardinality(a..b) = b - a + 1
        BY FS_Interval
  <2> QED BY <2>3, <2>4, <2>5
<1>9. above \in SUBSET (1..n) /\ \A i \in m..n : place[i] \in above
  <2>1. \A i \in m..n : i \in 1..n /\ m <= i /\ place[i] \in 1..n
        BY <1>1, <1>3, <1>4
  <2> QED BY <1>1, <1>7, <2>1
<1>10. below \in SUBSET (1..n) /\ \A i \in 1..m : place[i] \in below
  <2>1. \A i \in 1..m : i \in 1..n /\ i <= m /\ place[i] \in 1..n
        BY <1>1, <1>3, <1>4
  <2> QED BY <1>1, <1>7, <2>1
<1> HIDE DEF above, below
<1>11. Cardinality(above) \in Nat /\ n - m + 1 <= Cardinality(above)
  <2>1. n \in 1..n /\ m <= n
        BY <1>1, <1>4
  <2> QED BY <1>4, <1>8, <1>9, <2>1
<1>12. Cardinality(below) \in Nat /\ m <= Cardinality(below)
  <2>1. 1 \in 1..n /\ 1 <= m /\ m - 1 + 1 = m
        BY <1>1, <1>4
  <2> QED BY <1>4, <1>8, <1>10, <2>1
<1>13. 2 * Cardinality(above) >= n /\ 2 * Cardinality(below) >= n
       BY <1>1, <1>4, <1>11, <1>12
<1> QED BY <1>13 DEF above, below, n

\* What is arranged lies between its first and its last.
LEMMA FirstAndLastBound ==
    ASSUME NEW values \in Seq(Lows), Len(values) > 0, NEW sorted,
           Arranged(sorted, values, Len(values))
    PROVE  /\ sorted[1] \in Lows /\ Last(sorted) \in Lows
           /\ \A j \in 1..Len(values) : AtMost(sorted[1], values[j]) /\ AtMost(values[j], Last(sorted))
<1> DEFINE n == Len(values)
<1>1. /\ n \in Nat /\ n > 0 /\ 1 \in 1..n /\ n \in 1..n
      /\ sorted \in Seq(Lows) /\ Len(sorted) = n /\ DOMAIN sorted = 1..n /\ Rising(sorted)
      BY LenProperties DEF Arranged
<1>2. PICK place : Arranges(place, sorted, values, n)
      BY DEF Arranged
<1> HIDE DEF n
<1>3. \A i \in 1..n : sorted[i] \in Lows /\ sorted[i] \in Fracs
      BY <1>1, ElementOfSeq, LowFields
<1>4. Last(sorted) = sorted[n]
      BY <1>1 DEF Last
<1>5. ASSUME NEW j \in 1..n PROVE AtMost(sorted[1], values[j]) /\ AtMost(values[j], sorted[n])
  <2>1. PICK i \in 1..n : place[i] = j
        BY <1>2 DEF Arranges, Bijection, Surjection
  <2>2. values[j] = sorted[i]
        BY <1>2, <2>1 DEF Arranges
  <2>3. AtMost(sorted[i], sorted[i])
        BY <1>3, OrderOfFractions
  <2>4. /\ i = 1 \/ AtMost(sorted[1], sorted[i])
        /\ i = n \/ AtMost(sorted[i], sorted[n])
        BY <1>1 DEF Rising
  <2> QED BY <2>2, <2>3, <2>4
<1> QED BY <1>1, <1>3, <1>4, <1>5 DEF n

\* How often there is a loss times what it is: the losses over all returns.
LEMMA LossesOverAll ==
    ASSUME NEW losses \in Seq(Lows), Len(losses) > 0, NEW n \in Nat \ {0}
    PROVE  Times(Fraction(Len(losses), n), Mean(losses)) = DividedBy(Total(losses), n)
<1> DEFINE t == Total(losses)
           l == Len(losses)
<1>1. t \in Lows /\ l \in Nat \ {0}
      BY TotalIsLow, LenProperties
<1>2. Mean(losses) = DividedBy(t, l)
      BY DEF Mean, Total
<1> HIDE DEF t, l
<1> DEFINE a == t.n
           b == t.d
<1>3. a \in Int /\ b \in Nat \ {0} /\ Worth(t, a, b)
      BY <1>1, LowFields, LowWorth
<1>4. DividedBy(t, l) = Fraction(a, b * l) /\ DividedBy(t, n) = Fraction(a, b * n)
      BY DEF DividedBy
<1> HIDE DEF a, b
<1>5. b * l \in Nat \ {0}
      BY <1>1, <1>3
<1>6. /\ DividedBy(t, l) \in Lows /\ Worth(DividedBy(t, l), a, b * l)
      /\ Fraction(l, n) \in Lows /\ Worth(Fraction(l, n), l, n)
      BY <1>1, <1>3, <1>4, <1>5, FractionIsLowest, FractionWorth
<1>7. /\ Times(Fraction(l, n), DividedBy(t, l)) \in Lows
      /\ Worth(Times(Fraction(l, n), DividedBy(t, l)), l * a, n * (b * l))
      BY <1>6, LowArithmetic, TimesWorth
<1>8. Times(Fraction(l, n), DividedBy(t, l)) = Fraction(l * a, n * (b * l))
      BY <1>7, WorthDecides
<1>9. n * (b * l) = l * (b * n) /\ b * n \in Nat \ {0}
      BY <1>1, <1>3
<1>10. Fraction(l * a, l * (b * n)) = Fraction(a, b * n)
       BY <1>1, <1>3, <1>9, FractionScales
<1>11. Times(Fraction(l, n), DividedBy(t, l)) = DividedBy(t, n)
       BY <1>4, <1>8, <1>9, <1>10
<1> QED BY <1>2, <1>11 DEF t, l

LEMMA LossFiguresAgree == RowsOK => LossesAddUp
<1> SUFFICES ASSUME RowsOK PROVE LossesAddUp
    OBVIOUS
<1> DEFINE ps == Prices(rows)
           returns == Returns(ps)
           losses == Losses(returns)
           sorted == Sorted(losses)
           r == RiskResult(returns)
           median == sorted[Len(sorted) \div 2 + 1]
<1> SUFFICES ASSUME losses # <<>>
             PROVE  /\ AtMost(r.lossDistribution.min, r.expectedLoss)
                    /\ AtMost(r.expectedLoss, r.lossDistribution.max)
                    /\ 2 * Cardinality({i \in DOMAIN losses :
                                          AtMost(r.lossDistribution.median, losses[i])})
                          >= Len(losses)
                    /\ 2 * Cardinality({i \in DOMAIN losses :
                                          AtMost(losses[i], r.lossDistribution.median)})
                          >= Len(losses)
                    /\ AtMost(Times(r.lossProbability, r.expectedLoss), r.expectedReturn)
    BY DEF LossesAddUp
<1>1. returns \in Seq(Lows)
  <2>1. ps \in Seq(Paid) /\ Len(ps) \in Nat
        BY PricesArePaid, LenProperties
  <2> HIDE DEF ps
  <2>2. CASE Len(ps) > 0
    <3>1. returns \in Seq(Yields) /\ Yields \subseteq Lows
          BY <2>1, <2>2, ReturnsAreYields DEF Yields
    <3> QED BY <3>1
  <2>3. CASE Len(ps) = 0
    <3>1. 1..(Len(ps) - 1) = 1..0 /\ 1..0 = {}
          BY <2>3
    <3>2. returns \in [1..0 -> Lows]
          BY <3>1 DEF Returns
    <3> HIDE DEF returns
    <3> QED BY <3>2
  <2> QED BY <2>1, <2>2, <2>3
<1> HIDE DEF returns
<1>2. losses \in Seq(Lows) /\ AtMost(Total(losses), Total(returns))
      BY <1>1, LossesMakeLess
<1>3. returns # <<>>
  <2>1. LossesTo(<<>>, 0) = <<>> /\ Len(<<>>) = 0 /\ Losses(<<>>) = LossesTo(<<>>, Len(<<>>))
        BY <<>> \in Seq(Lows), LossSteps
  <2> QED BY <2>1
<1>4. /\ r.expectedReturn = Mean(returns)
      /\ r.lossProbability = Fraction(Len(losses), Len(returns))
      /\ r.expectedLoss = Mean(losses)
      /\ r.lossDistribution.min = sorted[1]
      /\ r.lossDistribution.median = median
      /\ r.lossDistribution.max = Last(sorted)
      BY <1>3 DEF RiskResult
<1>5. Len(losses) > 0 /\ Len(returns) \in Nat \ {0}
      BY <1>1, <1>2, <1>3, LenProperties, EmptySeq
<1> HIDE DEF losses, r
<1>6. Arranged(sorted, losses, Len(losses))
      BY <1>2, SortedIsArranged
<1> HIDE DEF sorted
<1>7. AtMost(sorted[1], Mean(losses)) /\ AtMost(Mean(losses), Last(sorted))
      BY <1>2, <1>5, <1>6, FirstAndLastBound, MeanIsBetween
<1>8. /\ 2 * Cardinality({i \in DOMAIN losses : AtMost(median, losses[i])}) >= Len(losses)
      /\ 2 * Cardinality({i \in DOMAIN losses : AtMost(losses[i], median)}) >= Len(losses)
  <2> HIDE DEF median
  <2>1. median = sorted[Len(sorted) \div 2 + 1]
        BY DEF median
  <2> QED BY <1>2, <1>5, <1>6, <2>1, MedianHalves
<1>9. AtMost(Times(r.lossProbability, r.expectedLoss), r.expectedReturn)
  <2>1. Times(r.lossProbability, r.expectedLoss) = DividedBy(Total(losses), Len(returns))
        BY <1>2, <1>4, <1>5, LossesOverAll
  <2>2. r.expectedReturn = DividedBy(Total(returns), Len(returns))
        BY <1>4 DEF Mean, Total
  <2>3. Total(losses) \in Lows /\ Total(returns) \in Lows
        BY <1>1, <1>2, TotalIsLow
  <2> QED BY <1>2, <1>5, <2>1, <2>2, <2>3, DividedKeepsOrder
<1> HIDE DEF median
<1> QED BY <1>4, <1>7, <1>8, <1>9

\* The loss figures agree for any rows: the median halves the losses, the expected
\* loss lies between the extremes, and the losses alone make no more than the expected
\* return (risk.py 96-113).
THEOREM TheLossesAddUp == Spec => []LossesAddUp
BY RowsStayOK, LossFiguresAgree, PTL

===============================================================================
