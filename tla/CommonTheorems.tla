---------------------------- MODULE CommonTheorems ----------------------------
(***************************************************************************)
(* What the proofs about several models need: induction, sums and products   *)
(* over finite sets, folds over sequences, fractions in lowest terms, and    *)
(* elements put into a sequence.                                             *)
(*                                                                         *)
(* The provers know no induction over data; here it is won from the well-    *)
(* foundedness of the naturals, for sets of numbers in place of predicates.  *)
(* The sums and products the models use are shown not to depend on the order *)
(* in which they go through a set, and how an element more changes them; a   *)
(* fold that it goes through its sequence from the left.                     *)
(***************************************************************************)
EXTENDS Fractions, SequencesExt, FiniteSetTheorems, SequenceTheorems, WellFoundedInduction, TLAPS

-------------------------------------------------------------------------------
(* Induction                                                                 *)

LEMMA LeastElement ==
    ASSUME NEW T \in SUBSET Nat, T # {}
    PROVE  \E n \in T : \A m \in T : n <= m
<1> DEFINE R == OpToRel(<, Nat)
<1>1. IsWellFoundedOn(R, Nat)
      BY NatLessThanWellFounded
<1>2. \A m, n \in Nat : m < n => <<m, n>> \in R
      BY DEF OpToRel
<1> HIDE DEF R
<1>3. PICK n \in T : \A m \in T : ~ (<<m, n>> \in R)
      BY <1>1, WFMin
<1>4. n \in Nat /\ \A m \in T : m \in Nat /\ ~(m < n)
      BY <1>2, <1>3
<1> QED BY <1>4

\* The greatest of some of the first numbers.
LEMMA GreatestElement ==
    ASSUME NEW n \in Nat, NEW S \in SUBSET (1..n), S # {}
    PROVE  \E i \in S : \A j \in S : j <= i
<1> DEFINE T == {n - i : i \in S}
<1>1. T \in SUBSET Nat /\ T # {}
      BY S \subseteq Nat, \A i \in S : n - i \in Nat
<1> HIDE DEF T
<1>2. PICK m \in T : \A k \in T : m <= k
      BY <1>1, LeastElement
<1>3. PICK i \in S : m = n - i
      BY DEF T
<1>4. \A j \in S : n - i <= n - j
      BY <1>2, <1>3 DEF T
<1> QED BY <1>3, <1>4

\* What holds of zero and of every next number holds of all.
LEMMA SetInduction ==
    ASSUME NEW S, 0 \in S, \A n \in Nat : n \in S => n + 1 \in S
    PROVE  Nat \subseteq S
<1> SUFFICES ASSUME Nat \ S # {} PROVE FALSE
    OBVIOUS
<1>1. PICK n \in Nat \ S : \A m \in Nat \ S : n <= m
      BY LeastElement
<1>2. n # 0 /\ n - 1 \in Nat /\ (n - 1) + 1 = n
      BY <1>1
<1>3. n - 1 \in S
      BY <1>1, <1>2
<1> QED BY <1>1, <1>2, <1>3

-------------------------------------------------------------------------------
(* The sum as the function it is defined by                                  *)

Pick(T) == CHOOSE x \in T : TRUE

\* One step of the recursion.
SumStep(f, g, T) == IF T = {} THEN 0 ELSE f[Pick(T)] + g[T \ {Pick(T)}]

SumFcn(f, S) == CHOOSE g : g = [T \in SUBSET S |-> SumStep(f, g, T)]

SumOver(f, S) == SumFcn(f, S)[S]

LEMMA PickOne ==
    ASSUME NEW S, IsFiniteSet(S), S # {}
    PROVE  /\ Pick(S) \in S
           /\ IsFiniteSet(S \ {Pick(S)})
           /\ Cardinality(S) \in Nat /\ Cardinality(S \ {Pick(S)}) = Cardinality(S) - 1
<1>1. Pick(S) \in S
      BY DEF Pick
<1> QED BY <1>1, FS_RemoveElement, FS_CardinalityType

Small(S, n) == {T \in SUBSET S : Cardinality(T) <= n}

\* Approximations of the sum exist for the subsets of every size.
LEMMA SumFcnExists ==
    ASSUME NEW f, NEW S, IsFiniteSet(S)
    PROVE  \E g : g = [T \in SUBSET S |-> SumStep(f, g, T)]
<1> DEFINE N == {n \in Nat : \E g : g = [T \in Small(S, n) |-> SumStep(f, g, T)]}
<1>1. \A T \in SUBSET S : IsFiniteSet(T) /\ Cardinality(T) \in Nat
      BY FS_Subset, FS_CardinalityType
<1>2. 0 \in N
  <2> DEFINE g == [T \in Small(S, 0) |-> 0]
  <2>1. \A T \in Small(S, 0) : T = {}
        BY <1>1, FS_EmptySet DEF Small
  <2>2. g = [T \in Small(S, 0) |-> SumStep(f, g, T)]
        BY <2>1 DEF SumStep
  <2> QED BY <2>2
<1>3. ASSUME NEW n \in Nat, n \in N PROVE n + 1 \in N
  <2>1. PICK g : g = [T \in Small(S, n) |-> SumStep(f, g, T)]
        BY <1>3
  <2> DEFINE h == [T \in Small(S, n + 1) |-> SumStep(f, g, T)]
  <2>2. ASSUME NEW T \in Small(S, n + 1) PROVE SumStep(f, g, T) = SumStep(f, h, T)
    <3>1. CASE T = {}
          BY <3>1 DEF SumStep
    <3>2. CASE T # {}
      <4> DEFINE U == T \ {Pick(T)}
      <4>1. U \in SUBSET S /\ Cardinality(U) <= n /\ Cardinality(U) \in Nat
            BY <1>1, <3>2, PickOne DEF Small
      <4>2. U \in Small(S, n) /\ U \in Small(S, n + 1)
            BY <4>1 DEF Small
      <4> HIDE DEF U
      <4>3. g[U] = SumStep(f, g, U) /\ h[U] = SumStep(f, g, U)
            BY <2>1, <4>2
      <4>4. g[U] = h[U]
            BY <4>3
      <4> HIDE DEF h
      <4> QED BY <4>4 DEF SumStep, U
    <3> QED BY <3>1, <3>2
  <2>3. h = [T \in Small(S, n + 1) |-> SumStep(f, h, T)]
        BY <2>2
  <2> HIDE DEF h
  <2>4. \E hh : hh = [T \in Small(S, n + 1) |-> SumStep(f, hh, T)]
        BY <2>3
  <2> QED BY <2>4
<1>4. Nat \subseteq N
  <2> HIDE DEF N
  <2> QED BY <1>2, <1>3, SetInduction
<1>5. PICK g : g = [T \in Small(S, Cardinality(S)) |-> SumStep(f, g, T)]
      BY <1>4, FS_CardinalityType
<1>6. Small(S, Cardinality(S)) = SUBSET S
      BY FS_Subset DEF Small
<1> QED BY <1>5, <1>6

LEMMA SumFcnDef ==
    ASSUME NEW f, NEW S, IsFiniteSet(S), NEW T \in SUBSET S
    PROVE  SumFcn(f, S)[T] = SumStep(f, SumFcn(f, S), T)
<1>1. SumFcn(f, S) = [U \in SUBSET S |-> SumStep(f, SumFcn(f, S), U)]
      BY SumFcnExists DEF SumFcn
<1> QED BY <1>1

\* Induction on the size of a subset.
LEMMA SubsetInduction ==
    ASSUME NEW S, IsFiniteSet(S), NEW Good,
           \A T \in SUBSET S : (\A U \in SUBSET T : U # T => U \in Good) => T \in Good
    PROVE  SUBSET S \subseteq Good
<1> DEFINE N == {n \in Nat : Small(S, n) \subseteq Good}
<1>1. \A T \in SUBSET S : IsFiniteSet(T) /\ Cardinality(T) \in Nat
      BY FS_Subset, FS_CardinalityType
<1>2. \A T \in SUBSET S : \A U \in SUBSET T : U # T => Cardinality(U) < Cardinality(T)
      BY <1>1, FS_Subset
<1>3. 0 \in N
  <2>1. \A T \in Small(S, 0) : T = {}
        BY <1>1, FS_EmptySet DEF Small
  <2>2. {} \in SUBSET S /\ \A U \in SUBSET {} : U = {}
        OBVIOUS
  <2>3. {} \in Good
        BY <2>2
  <2> QED BY <2>1, <2>3
<1>4. ASSUME NEW n \in Nat, n \in N PROVE n + 1 \in N
  <2>1. ASSUME NEW T \in Small(S, n + 1) PROVE T \in Good
    <3>1. T \in SUBSET S /\ Cardinality(T) \in Nat /\ Cardinality(T) <= n + 1
          BY <1>1 DEF Small
    <3>2. ASSUME NEW U \in SUBSET T, U # T PROVE U \in Good
      <4>1. U \in SUBSET S /\ Cardinality(U) \in Nat /\ Cardinality(U) < Cardinality(T)
            BY <1>1, <1>2, <3>1, <3>2
      <4>2. U \in Small(S, n)
            BY <3>1, <4>1 DEF Small
      <4> QED BY <1>4, <4>2
    <3> QED BY <3>1, <3>2
  <2> QED BY <2>1
<1>5. Nat \subseteq N
  <2> HIDE DEF N
  <2> QED BY <1>3, <1>4, SetInduction
<1>6. Small(S, Cardinality(S)) \subseteq Good
      BY <1>1, <1>5
<1> QED BY <1>6, FS_Subset DEF Small

LEMMA SumFcnType ==
    ASSUME NEW S, IsFiniteSet(S), NEW f, \A x \in S : f[x] \in Int
    PROVE  \A T \in SUBSET S : SumFcn(f, S)[T] \in Int
<1> DEFINE Good == {T \in SUBSET S : SumFcn(f, S)[T] \in Int}
<1>1. ASSUME NEW T \in SUBSET S, \A U \in SUBSET T : U # T => U \in Good
      PROVE  T \in Good
  <2>1. IsFiniteSet(T)
        BY FS_Subset
  <2>2. SumFcn(f, S)[T] = SumStep(f, SumFcn(f, S), T)
        BY SumFcnDef
  <2>3. CASE T = {}
        BY <2>2, <2>3 DEF SumStep
  <2>4. CASE T # {}
    <3>1. Pick(T) \in T /\ T \ {Pick(T)} \in SUBSET T /\ T \ {Pick(T)} # T
          BY <2>1, <2>4, PickOne
    <3>2. SumFcn(f, S)[T \ {Pick(T)}] \in Int /\ f[Pick(T)] \in Int
          BY <1>1, <3>1
    <3> QED BY <2>2, <2>4, <3>2 DEF SumStep
  <2> QED BY <2>3, <2>4
<1>2. SUBSET S \subseteq Good
  <2> HIDE DEF Good
  <2> QED BY <1>1, SubsetInduction
<1> QED BY <1>2

\* The sum over a set depends only on the values the set is mapped to.
LEMMA SumFcnSame ==
    ASSUME NEW S, IsFiniteSet(S), NEW R, IsFiniteSet(R), NEW W \in SUBSET S, W \in SUBSET R,
           NEW f, NEW h, \A x \in W : f[x] = h[x]
    PROVE  \A T \in SUBSET W : SumFcn(f, S)[T] = SumFcn(h, R)[T]
<1> DEFINE Good == {T \in SUBSET W : SumFcn(f, S)[T] = SumFcn(h, R)[T]}
<1>1. ASSUME NEW T \in SUBSET W, \A U \in SUBSET T : U # T => U \in Good
      PROVE  T \in Good
  <2>1. IsFiniteSet(T) /\ T \in SUBSET S /\ T \in SUBSET R
        BY FS_Subset
  <2>2. /\ SumFcn(f, S)[T] = SumStep(f, SumFcn(f, S), T)
        /\ SumFcn(h, R)[T] = SumStep(h, SumFcn(h, R), T)
        BY <2>1, SumFcnDef
  <2>3. CASE T = {}
        BY <2>2, <2>3 DEF SumStep
  <2>4. CASE T # {}
    <3>1. Pick(T) \in T /\ T \ {Pick(T)} \in SUBSET T /\ T \ {Pick(T)} # T
          BY <2>1, <2>4, PickOne
    <3>2. /\ SumFcn(f, S)[T \ {Pick(T)}] = SumFcn(h, R)[T \ {Pick(T)}]
          /\ f[Pick(T)] = h[Pick(T)]
          BY <1>1, <3>1
    <3> QED BY <2>2, <2>4, <3>2 DEF SumStep
  <2> QED BY <2>3, <2>4
<1>2. IsFiniteSet(W)
      BY FS_Subset
<1>3. SUBSET W \subseteq Good
  <2> HIDE DEF Good
  <2> QED BY <1>1, <1>2, SubsetInduction
<1> QED BY <1>3

\* It does not matter which element is taken first.
LEMMA SumFcnTake ==
    ASSUME NEW S, IsFiniteSet(S), NEW f, \A x \in S : f[x] \in Int
    PROVE  \A T \in SUBSET S : \A x \in T : SumFcn(f, S)[T] = f[x] + SumFcn(f, S)[T \ {x}]
<1> DEFINE F == SumFcn(f, S)
           Good == {T \in SUBSET S : \A x \in T : F[T] = f[x] + F[T \ {x}]}
<1>1. ASSUME NEW T \in SUBSET S, \A U \in SUBSET T : U # T => U \in Good, NEW x \in T
      PROVE  F[T] = f[x] + F[T \ {x}]
  <2> DEFINE p == Pick(T)
  <2>1. IsFiniteSet(T) /\ T # {}
        BY FS_Subset
  <2>2. p \in T /\ F[T] = f[p] + F[T \ {p}]
    <3>1. F[T] = SumStep(f, F, T)
          BY SumFcnDef
    <3> HIDE DEF F
    <3> QED BY <2>1, <3>1, PickOne DEF SumStep
  <2> HIDE DEF p
  <2>3. CASE p = x
        BY <2>2, <2>3
  <2>4. CASE p # x
    <3>1. x \in T \ {p} /\ T \ {p} \in SUBSET T /\ T \ {p} # T
          BY <2>2, <2>4
    <3>2. p \in T \ {x} /\ T \ {x} \in SUBSET T /\ T \ {x} # T
          BY <2>2, <2>4
    <3>3. F[T \ {p}] = f[x] + F[(T \ {p}) \ {x}]
          BY <1>1, <3>1
    <3>4. F[T \ {x}] = f[p] + F[(T \ {x}) \ {p}]
          BY <1>1, <3>2
    <3>5. (T \ {p}) \ {x} = (T \ {x}) \ {p} /\ (T \ {p}) \ {x} \in SUBSET S
          OBVIOUS
    <3>6. F[(T \ {p}) \ {x}] \in Int /\ f[x] \in Int /\ f[p] \in Int
          BY <2>2, <3>5, SumFcnType
    <3> DEFINE rest == F[(T \ {p}) \ {x}]
    <3>7. F[T \ {p}] = f[x] + rest /\ F[T \ {x}] = f[p] + rest
          BY <3>3, <3>4, <3>5
    <3>8. rest \in Int /\ f[x] \in Int /\ f[p] \in Int
          BY <3>6
    <3> HIDE DEF F, rest
    <3>9. f[p] + (f[x] + rest) = f[x] + (f[p] + rest)
          BY <3>8
    <3> QED BY <2>2, <3>7, <3>9
  <2> QED BY <2>3, <2>4
<1>2. SUBSET S \subseteq Good
  <2>1. \A T \in SUBSET S : (\A U \in SUBSET T : U # T => U \in Good) => T \in Good
        BY <1>1
  <2> HIDE DEF Good
  <2> QED BY <2>1, SubsetInduction
<1> QED BY <1>2

-------------------------------------------------------------------------------
(* What the proofs about the models use                                      *)

\* Nothing adds up to zero.
THEOREM SumEmpty == \A f : SumOver(f, {}) = 0
BY SumFcnDef, FS_EmptySet DEF SumOver, SumStep

\* Integers add up to an integer.
THEOREM SumType ==
    ASSUME NEW S, IsFiniteSet(S), NEW f, \A x \in S : f[x] \in Int
    PROVE  SumOver(f, S) \in Int
BY SumFcnType DEF SumOver

\* Equal values add up to equal sums.
THEOREM SumSame ==
    ASSUME NEW S, IsFiniteSet(S), NEW f, NEW h, \A x \in S : f[x] = h[x]
    PROVE  SumOver(f, S) = SumOver(h, S)
BY SumFcnSame DEF SumOver

\* One more element adds its value, wherever the sum meets it.
THEOREM SumAdd ==
    ASSUME NEW S, IsFiniteSet(S), NEW x, x \notin S, NEW f, NEW h,
           \A y \in S : f[y] = h[y] /\ f[y] \in Int, h[x] \in Int
    PROVE  SumOver(h, S \cup {x}) = SumOver(f, S) + h[x]
<1> DEFINE R == S \cup {x}
<1>1. IsFiniteSet(R) /\ \A y \in R : h[y] \in Int
      BY FS_AddElement
<1>2. R \in SUBSET R /\ x \in R /\ R \ {x} = S /\ S \in SUBSET S /\ S \in SUBSET R
      OBVIOUS
<1> HIDE DEF R
<1>3. SumFcn(h, R)[R] = h[x] + SumFcn(h, R)[R \ {x}]
      BY <1>1, <1>2, SumFcnTake
<1>4. SumFcn(h, R)[S] = SumFcn(f, S)[S]
  <2>1. \A y \in S : h[y] = f[y]
        OBVIOUS
  <2> QED BY <1>1, <1>2, <2>1, SumFcnSame
<1>5. SumFcn(f, S)[S] \in Int
      BY SumFcnType
<1>6. SumOver(h, R) = h[x] + SumOver(f, S)
      BY <1>2, <1>3, <1>4 DEF SumOver
<1>7. SumOver(f, S) \in Int
      BY <1>5 DEF SumOver
<1>8. SumOver(h, R) = SumOver(f, S) + h[x]
      BY <1>6, <1>7
<1> QED BY <1>8 DEF R

\* R is the finite set S, or S with the new element x.
GrowsBy(x, S, R) == IsFiniteSet(S) /\ x \notin S /\ (R = S \/ R = S \cup {x})

\* The values on S are integers and the same in f and h, and h has one for x.
AgreeUpTo(x, S, f, h) == h[x] \in Int /\ \A y \in S : f[y] = h[y] /\ f[y] \in Int

\* The sum over a set that may have got a new element, as when a sequence grows
\* and the set is the part of its positions that is of interest.
THEOREM SumGrows ==
    ASSUME NEW x, NEW S, NEW R, GrowsBy(x, S, R), NEW f, NEW h, AgreeUpTo(x, S, f, h)
    PROVE  /\ SumOver(f, S) \in Int
           /\ SumOver(h, R) = SumOver(f, S) + (IF x \in R THEN h[x] ELSE 0)
<1>1. /\ IsFiniteSet(S) /\ x \notin S /\ h[x] \in Int
      /\ \A y \in S : f[y] = h[y] /\ f[y] \in Int
      BY DEF GrowsBy, AgreeUpTo
<1>2. SumOver(f, S) \in Int
      BY <1>1, SumType
<1>3. CASE R = S
  <2>1. SumOver(h, S) = SumOver(f, S)
        BY <1>1, SumSame
  <2>2. x \notin R
        BY <1>1, <1>3
  <2> QED BY <1>2, <1>3, <2>1, <2>2
<1>4. CASE R = S \cup {x}
  <2>1. SumOver(h, S \cup {x}) = SumOver(f, S) + h[x]
        BY <1>1, SumAdd, Z3T(30)
  <2>2. x \in R
        BY <1>4
  <2> QED BY <1>2, <1>4, <2>1, <2>2
<1>5. R = S \/ R = S \cup {x}
      BY DEF GrowsBy
<1> QED BY <1>3, <1>4, <1>5

\* Naturals add up to a natural.
THEOREM SumNatural ==
    ASSUME NEW S, IsFiniteSet(S), NEW f, \A x \in S : f[x] \in Nat
    PROVE  SumOver(f, S) \in Nat
<1> DEFINE F == SumFcn(f, S)
           Good == {T \in SUBSET S : F[T] \in Nat}
<1>1. ASSUME NEW T \in SUBSET S, \A U \in SUBSET T : U # T => U \in Good
      PROVE  T \in Good
  <2>1. IsFiniteSet(T) /\ F[T] = SumStep(f, F, T)
        BY FS_Subset, SumFcnDef
  <2> HIDE DEF F
  <2>2. CASE T = {}
        BY <2>1, <2>2 DEF SumStep
  <2>3. CASE T # {}
    <3>1. Pick(T) \in T /\ T \ {Pick(T)} \in SUBSET T /\ T \ {Pick(T)} # T
          BY <2>1, <2>3, PickOne
    <3>2. F[T \ {Pick(T)}] \in Nat /\ f[Pick(T)] \in Nat
          BY <1>1, <3>1
    <3> QED BY <2>1, <2>3, <3>2 DEF SumStep
  <2> QED BY <2>2, <2>3
<1>2. SUBSET S \subseteq Good
  <2> HIDE DEF Good
  <2> QED BY <1>1, SubsetInduction
<1> QED BY <1>2 DEF SumOver

\* Zeros may be left out.
THEOREM SumWithoutZeros ==
    ASSUME NEW S, IsFiniteSet(S), NEW f, \A x \in S : f[x] \in Int,
           NEW W \in SUBSET S, \A x \in S \ W : f[x] = 0
    PROVE  SumOver(f, S) = SumOver(f, W)
<1> DEFINE F == SumFcn(f, S)
           Good == {T \in SUBSET S : F[T] = F[T \cap W]}
<1>0. /\ \A T \in SUBSET S : F[T] \in Int
      /\ \A T \in SUBSET S : \A x \in T : F[T] = f[x] + F[T \ {x}]
      BY SumFcnType, SumFcnTake
<1> HIDE DEF F
<1>1. ASSUME NEW T \in SUBSET S, \A U \in SUBSET T : U # T => U \in Good
      PROVE  T \in Good
  <2>1. CASE T \subseteq W
    <3>1. T \cap W = T
          BY <2>1
    <3> QED BY <3>1
  <2>2. CASE ~(T \subseteq W)
    <3>1. PICK x \in T : x \notin W
          BY <2>2
    <3>2. T \ {x} \in SUBSET T /\ T \ {x} # T /\ (T \ {x}) \cap W = T \cap W /\ f[x] = 0
          BY <3>1
    <3>3. F[T \ {x}] = F[T \cap W]
          BY <1>1, <3>2
    <3>4. F[T] = 0 + F[T \ {x}] /\ F[T \ {x}] \in Int
          BY <1>0, <3>2
    <3>5. F[T] = F[T \cap W]
          BY <3>3, <3>4
    <3> QED BY <3>5
  <2> QED BY <2>1, <2>2
<1>2. SUBSET S \subseteq Good
  <2> HIDE DEF Good
  <2> QED BY <1>1, SubsetInduction
<1>3. S \cap W = W
      OBVIOUS
<1>4. F[S] = F[W]
  <2>1. S \in Good
        BY <1>2
  <2> QED BY <1>3, <2>1
<1>5. F[W] = SumFcn(f, W)[W]
  <2>1. IsFiniteSet(W) /\ W \in SUBSET W /\ \A x \in W : f[x] = f[x]
        BY FS_Subset
  <2>2. \A T \in SUBSET W : SumFcn(f, S)[T] = SumFcn(f, W)[T]
        BY <2>1, SumFcnSame
  <2> QED BY <2>1, <2>2 DEF F
<1> QED BY <1>4, <1>5 DEF SumOver, F

\* A new value for one element changes the sum by the difference.
THEOREM SumChange ==
    ASSUME NEW S, IsFiniteSet(S), NEW x \in S, NEW f, NEW h,
           \A y \in S : f[y] \in Int, h[x] \in Int, \A y \in S \ {x} : h[y] = f[y]
    PROVE  /\ SumOver(f, S) \in Int
           /\ SumOver(h, S) = SumOver(f, S) + (h[x] - f[x])
<1> DEFINE R == S \ {x}
<1>1. IsFiniteSet(R) /\ x \notin R /\ R \cup {x} = S /\ \A y \in R : y \in S /\ f[y] \in Int /\ h[y] = f[y]
      BY FS_Subset
<1> HIDE DEF R
<1>2. \A y \in S : h[y] \in Int
      OBVIOUS
<1>3. SumFcn(f, S)[S] = f[x] + SumFcn(f, S)[R] /\ SumFcn(h, S)[S] = h[x] + SumFcn(h, S)[R]
  <2>1. S \in SUBSET S
        OBVIOUS
  <2>2. SumFcn(f, S)[S] = f[x] + SumFcn(f, S)[S \ {x}]
        BY <2>1, SumFcnTake
  <2>3. SumFcn(h, S)[S] = h[x] + SumFcn(h, S)[S \ {x}]
        BY <1>2, <2>1, SumFcnTake
  <2> QED BY <2>2, <2>3 DEF R
<1>4. R \in SUBSET S /\ R \in SUBSET R
      BY <1>1
<1>5. SumFcn(h, S)[R] = SumFcn(f, S)[R]
  <2>1. IsFiniteSet(S) /\ R \in SUBSET S /\ \A y \in R : f[y] = h[y]
        BY <1>1, <1>4
  <2>2. \A T \in SUBSET R : SumFcn(f, S)[T] = SumFcn(h, S)[T]
        BY ONLY <2>1, SumFcnSame
  <2> QED BY <1>4, <2>2
<1>6. SumFcn(f, S)[R] \in Int /\ f[x] \in Int /\ SumFcn(f, S)[S] \in Int
      BY <1>4, SumFcnType
<1> DEFINE before == SumFcn(f, S)[S]
           after == SumFcn(h, S)[S]
           rest == SumFcn(f, S)[R]
<1>7. before = f[x] + rest /\ after = h[x] + rest
      BY <1>3, <1>5
<1>8. before \in Int /\ rest \in Int /\ f[x] \in Int /\ h[x] \in Int
      BY <1>6
<1>9. SumOver(f, S) = before /\ SumOver(h, S) = after
      BY DEF SumOver
<1> HIDE DEF before, after, rest
<1> QED BY <1>7, <1>8, <1>9

-------------------------------------------------------------------------------
(* Folds over sequences                                                      *)

LEMMA MaxIsIn ==
    ASSUME NEW n \in Nat, NEW T \in SUBSET (1..n), T # {}
    PROVE  Max(T) \in T /\ \A x \in T : x <= Max(T)
<1>1. \E i \in T : \A j \in T : i >= j
      BY GreatestElement
<1> QED BY <1>1 DEF Max

LEMMA MaxOfFirst ==
    ASSUME NEW n \in Nat, NEW T \in SUBSET (1..(n + 1)), n + 1 \in T
    PROVE  Max(T) = n + 1
<1> DEFINE k == n + 1
           m == Max(T)
<1>1. k \in Nat /\ T \in SUBSET (1..k) /\ T # {} /\ k \in T
      OBVIOUS
<1> HIDE DEF k, m
<1>2. m \in T /\ \A x \in T : x <= m
      BY <1>1, MaxIsIn DEF m
<1>3. m \in 1..k /\ k <= m
      BY <1>1, <1>2
<1>4. m = k
      BY <1>1, <1>3
<1> QED BY <1>4 DEF k, m

\* One step of a fold whose operator is given as a function.
FoldStep(op, base, s, g, T) ==
    IF T = {} THEN base ELSE op[<<g[T \ {Max(T)}], s[Max(T)]>>]

\* The fold over the first k elements exists, and stays in the range of its operator.
HasFold(op, base, s, X, k) ==
    \E g \in [SUBSET (1..k) -> X] :
       \A T \in SUBSET (1..k) : g[T] = FoldStep(op, base, s, g, T)

LEMMA FoldExists ==
    ASSUME NEW n \in Nat, NEW E, NEW s, \A i \in 1..n : s[i] \in E,
           NEW X, NEW base \in X, NEW op \in [X \X E -> X]
    PROVE  HasFold(op, base, s, X, n)
<1> DEFINE N == {k \in Nat : k <= n => HasFold(op, base, s, X, k)}
<1>1. 0 \in N
  <2> DEFINE g == [T \in SUBSET (1..0) |-> base]
  <2>1. \A T \in SUBSET (1..0) : T = {}
        OBVIOUS
  <2>2. /\ g \in [SUBSET (1..0) -> X]
           /\ \A T \in SUBSET (1..0) : g[T] = FoldStep(op, base, s, g, T)
        BY <2>1 DEF FoldStep
  <2> QED BY <2>2 DEF HasFold
<1>2. ASSUME NEW k \in Nat, k \in N PROVE k + 1 \in N
  <2> SUFFICES ASSUME k + 1 <= n
               PROVE  HasFold(op, base, s, X, k + 1)
      OBVIOUS
  <2>0. HasFold(op, base, s, X, k)
        BY <1>2
  <2>1. PICK g \in [SUBSET (1..k) -> X] :
                \A T \in SUBSET (1..k) : g[T] = FoldStep(op, base, s, g, T)
        BY <2>0 DEF HasFold
  <2> DEFINE h == [T \in SUBSET (1..(k + 1)) |->
                      IF k + 1 \in T THEN op[<<g[T \ {k + 1}], s[k + 1]>>] ELSE g[T]]
  <2>2. \A T \in SUBSET (1..(k + 1)) : k + 1 \notin T => T \in SUBSET (1..k)
        OBVIOUS
  <2>3. \A T \in SUBSET (1..(k + 1)) : T \ {k + 1} \in SUBSET (1..k)
        OBVIOUS
  <2>4. s[k + 1] \in E
        OBVIOUS
  <2>5. h \in [SUBSET (1..(k + 1)) -> X]
        BY <2>2, <2>3, <2>4
  <2>6. \A T \in SUBSET (1..k) : T \in SUBSET (1..(k + 1)) /\ h[T] = g[T]
        OBVIOUS
  <2>7. ASSUME NEW T \in SUBSET (1..(k + 1)) PROVE h[T] = FoldStep(op, base, s, h, T)
    <3>1. CASE k + 1 \in T
      <4>1. Max(T) = k + 1
            BY <3>1, MaxOfFirst
      <4>2. h[T \ {k + 1}] = g[T \ {k + 1}]
            BY <2>3, <2>6
      <4>3. h[T] = op[<<g[T \ {k + 1}], s[k + 1]>>]
            BY <3>1
      <4> HIDE DEF h
      <4> QED BY <3>1, <4>1, <4>2, <4>3 DEF FoldStep
    <3>2. CASE k + 1 \notin T
      <4>1. T \in SUBSET (1..k)
            BY <2>2, <3>2
      <4>2. h[T] = FoldStep(op, base, s, g, T)
            BY <2>1, <2>6, <4>1
      <4>3. T \ {Max(T)} \in SUBSET (1..k)
            BY <4>1
      <4>4. h[T \ {Max(T)}] = g[T \ {Max(T)}]
            BY <2>6, <4>3
      <4> HIDE DEF h
      <4> QED BY <4>2, <4>4 DEF FoldStep
    <3> QED BY <3>1, <3>2
  <2> HIDE DEF h
  <2> QED BY <2>5, <2>7 DEF HasFold
<1>3. Nat \subseteq N
  <2> HIDE DEF N
  <2> QED BY <1>1, <1>2, SetInduction
<1> QED BY <1>3

\* What the fold's operator is applied to.
LEMMA FoldArguments ==
    ASSUME NEW n \in Nat, NEW E, NEW s, \A i \in 1..n : s[i] \in E,
           NEW X, NEW g \in [SUBSET (1..n) -> X], NEW T \in SUBSET (1..n), T # {}
    PROVE  g[T \ {Max(T)}] \in X /\ s[Max(T)] \in E
<1>1. Max(T) \in 1..n
      BY MaxIsIn
<1> QED BY <1>1

LEMMA FirstOnes ==
    ASSUME NEW k \in Nat
    PROVE  /\ 1..(k + 1) # {} /\ Max(1..(k + 1)) = k + 1
           /\ (1..(k + 1)) \ {k + 1} = 1..k
<1>1. k + 1 \in 1..(k + 1)
      OBVIOUS
<1>2. Max(1..(k + 1)) = k + 1
      BY <1>1, MaxOfFirst
<1>3. (1..(k + 1)) \ {k + 1} = 1..k
      OBVIOUS
<1> QED BY <1>1, <1>2, <1>3

-------------------------------------------------------------------------------
(* The greatest common divisor divides                                       *)

LEMMA Remainder ==
    ASSUME NEW k \in Nat, NEW l \in Nat \ {0}
    PROVE  /\ k % l \in Nat /\ k % l <= l - 1 /\ k \div l \in Nat
           /\ k = (l * (k \div l)) + (k % l)
OBVIOUS

IsDivisors(f, n) == f = [l \in 0..n |-> [k \in Nat |-> IF l = 0 THEN k ELSE f[k % l][l]]]

LEMMA DivisorsExist ==
    ASSUME NEW n \in Nat
    PROVE  \E f : IsDivisors(f, n)
<1> DEFINE N == {i \in Nat : \E f : IsDivisors(f, i)}
<1>1. 0 \in N
  <2> DEFINE f == [l \in 0..0 |-> [k \in Nat |-> k]]
  <2>1. f = [l \in 0..0 |-> [k \in Nat |-> IF l = 0 THEN k ELSE f[k % l][l]]]
    <3>1. \A l \in 0..0 : l = 0
          OBVIOUS
    <3> QED BY <3>1
  <2> QED BY <2>1 DEF IsDivisors
<1>2. ASSUME NEW i \in Nat, i \in N
      PROVE  i + 1 \in N
  <2>1. PICK f : IsDivisors(f, i)
        BY <1>2
  <2> DEFINE h == [l \in 0..(i + 1) |-> [k \in Nat |-> IF l = 0 THEN k ELSE f[k % l][l]]]
  <2>2. \A l \in 0..i : h[l] = f[l]
    <3>1. \A l \in 0..i : f[l] = [k \in Nat |-> IF l = 0 THEN k ELSE f[k % l][l]]
          BY <2>1 DEF IsDivisors
    <3>2. \A l \in 0..i : l \in 0..(i + 1)
          OBVIOUS
    <3> QED BY <3>1, <3>2
  <2>3. ASSUME NEW l \in 0..(i + 1), l # 0, NEW k \in Nat
        PROVE  f[k % l][l] = h[k % l][l]
    <3>1. k % l \in 0..i
          BY <2>3, Remainder
    <3> HIDE DEF h
    <3> QED BY <2>2, <3>1
  <2>4. h = [l \in 0..(i + 1) |-> [k \in Nat |-> IF l = 0 THEN k ELSE h[k % l][l]]]
    <3> DEFINE row(l) == [k \in Nat |-> IF l = 0 THEN k ELSE f[k % l][l]]
               same(l) == [k \in Nat |-> IF l = 0 THEN k ELSE h[k % l][l]]
    <3>1. \A l \in 0..(i + 1) : row(l) = same(l)
      <4> HIDE DEF h
      <4> QED BY <2>3
    <3>2. h = [l \in 0..(i + 1) |-> row(l)]
          OBVIOUS
    <3> HIDE DEF row, same, h
    <3>3. h = [l \in 0..(i + 1) |-> same(l)]
          BY <3>1, <3>2
    <3> QED BY Zenon, <3>3 DEF same
  <2> HIDE DEF h
  <2>5. IsDivisors(h, i + 1)
        BY <2>4 DEF IsDivisors
  <2>6. \E g : IsDivisors(g, i + 1)
        BY <2>5
  <2>7. i + 1 \in Nat
        OBVIOUS
  <2> QED BY <2>6, <2>7
<1> HIDE DEF N
<1>3. n \in N
      BY <1>1, <1>2, SetInduction
<1> QED BY <1>3 DEF N

Divisors(n) == CHOOSE f : IsDivisors(f, n)

LEMMA DivisorIs ==
    ASSUME NEW m, NEW n \in Nat
    PROVE  GreatestDivisor(m, n) = Divisors(n)[n][m] /\ IsDivisors(Divisors(n), n)
<1>1. GreatestDivisor(m, n) = Divisors(n)[n][m]
      BY DEF GreatestDivisor, Divisors, IsDivisors
<1>2. IsDivisors(Divisors(n), n)
      BY DivisorsExist DEF Divisors
<1> QED BY <1>1, <1>2

DividesBoth(g, k, l) == g \in Nat \ {0} /\ \E p, q \in Nat : k = p * g /\ l = q * g

LEMMA DivisorDivides ==
    ASSUME NEW m \in Nat, NEW n \in Nat \ {0}
    PROVE  DividesBoth(GreatestDivisor(m, n), m, n)
<1> DEFINE f == Divisors(n)
           Good(i) == \A l \in 0..i, k \in Nat : l <= n /\ (k # 0 \/ l # 0) => DividesBoth(f[l][k], k, l)
           N == {i \in Nat : Good(i)}
<1>1. \A l \in 0..n, k \in Nat : f[l][k] = IF l = 0 THEN k ELSE f[k % l][l]
  <2>1. IsDivisors(f, n)
        BY DivisorIs
  <2> HIDE DEF f
  <2> QED BY <2>1 DEF IsDivisors
<1> HIDE DEF f
<1>2. ASSUME NEW k \in Nat \ {0}
      PROVE  DividesBoth(f[0][k], k, 0)
  <2>1. f[0][k] = k
        BY <1>1
  <2>2. k = 1 * k /\ 0 = 0 * k /\ 1 \in Nat /\ 0 \in Nat
        OBVIOUS
  <2> QED BY <2>1, <2>2 DEF DividesBoth
<1>3. 0 \in N
  <2>1. \A l \in 0..0 : l = 0
        OBVIOUS
  <2> QED BY <1>2, <2>1
<1>4. ASSUME NEW i \in Nat, i \in N
      PROVE  i + 1 \in N
  <2> SUFFICES ASSUME NEW l \in 0..(i + 1), NEW k \in Nat, l <= n, k # 0 \/ l # 0
               PROVE  DividesBoth(f[l][k], k, l)
      OBVIOUS
  <2>1. CASE l = 0
        BY <1>2, <2>1
  <2>2. CASE l # 0
    <3>1. /\ k % l \in 0..i /\ k % l <= n /\ k \div l \in Nat
          /\ k = (l * (k \div l)) + (k % l) /\ k % l \in Nat /\ l \in Nat
          BY <2>2, Remainder
    <3>2. f[l][k] = f[k % l][l]
      <4>1. l \in 0..n
            OBVIOUS
      <4> QED BY <1>1, <2>2, <4>1
    <3> DEFINE g == f[l][k]
               r == k % l
               s == k \div l
    <3>3. DividesBoth(g, l, r)
          BY <1>4, <2>2, <3>1, <3>2
    <3>4. PICK p, q \in Nat : l = p * g /\ r = q * g
          BY <3>3 DEF DividesBoth
    <3>5. g \in Nat \ {0}
          BY <3>3 DEF DividesBoth
    <3> HIDE DEF g, r, s
    <3>6. s \in Nat /\ k = (l * s) + r
          BY <3>1 DEF s, r
    <3>7. k = ((p * s) + q) * g /\ (p * s) + q \in Nat
          BY <3>4, <3>5, <3>6
    <3> QED BY <3>4, <3>5, <3>7 DEF DividesBoth, g
  <2> QED BY <2>1, <2>2
<1>5. n \in N
  <2> HIDE DEF N
  <2> QED BY <1>3, <1>4, SetInduction
<1>6. n \in 0..n /\ n <= n
      OBVIOUS
<1>7. DividesBoth(f[n][m], m, n)
      BY <1>5, <1>6
<1> QED BY <1>7, DivisorIs DEF f

-------------------------------------------------------------------------------
(* A fraction in lowest terms is worth what it was made of                    *)

LEMMA FractionParts ==
    ASSUME NEW n \in Int, NEW d \in Nat \ {0}
    PROVE  /\ IsFraction(Fraction(n, d))
           /\ \E g \in Nat \ {0} : n = Fraction(n, d).n * g /\ d = Fraction(n, d).d * g
<1> DEFINE m == Magnitude(n)
           g == GreatestDivisor(m, d)
<1>1. m \in Nat
      BY DEF Magnitude
<1>2. DividesBoth(g, m, d)
      BY <1>1, DivisorDivides
<1>3. PICK p, q \in Nat : g \in Nat \ {0} /\ m = p * g /\ d = q * g
      BY <1>2 DEF DividesBoth
<1>4. Fraction(n, d) = [n |-> IF n >= 0 THEN m \div g ELSE -(m \div g), d |-> d \div g]
      BY DEF Fraction
<1>5. n = IF n >= 0 THEN m ELSE -m
      BY DEF Magnitude
<1> HIDE DEF m, g
<1>6. m \div g = p /\ d \div g = q
      BY <1>3
<1>7. q # 0
      BY <1>3
<1>8. Fraction(n, d).n = (IF n >= 0 THEN p ELSE -p) /\ Fraction(n, d).d = q
      BY <1>4, <1>6
<1>9. n = Fraction(n, d).n * g
      BY <1>3, <1>5, <1>8
<1> QED BY <1>3, <1>7, <1>8, <1>9 DEF IsFraction

\* f is worth a / b.
Worth(f, a, b) == IsFraction(f) /\ a \in Int /\ b \in Nat \ {0} /\ f.n * b = a * f.d

LEMMA Cancel ==
    ASSUME NEW x \in Int, NEW y \in Int, NEW k \in Int, k # 0, x * k = y * k
    PROVE  x = y
OBVIOUS

LEMMA FractionWorth ==
    ASSUME NEW n \in Int, NEW d \in Nat \ {0}
    PROVE  Worth(Fraction(n, d), n, d)
<1> DEFINE f == Fraction(n, d)
<1>1. IsFraction(f)
      BY FractionParts
<1>2. PICK g \in Nat \ {0} : n = f.n * g /\ d = f.d * g
      BY FractionParts
<1> HIDE DEF f
<1>3. f.n \in Int /\ f.d \in Nat
      BY <1>1 DEF IsFraction
<1>4. f.n * d = n * f.d
  <2> DEFINE p == f.n
             q == f.d
  <2>1. p \in Int /\ q \in Int /\ g \in Int /\ n = p * g /\ d = q * g
        BY <1>2, <1>3
  <2> HIDE DEF p, q
  <2>2. p * (q * g) = (p * g) * q
        BY <2>1
  <2> QED BY <2>1, <2>2 DEF p, q
<1> QED BY <1>1, <1>4 DEF Worth, f

LEMMA WholeWorth ==
    ASSUME NEW n \in Int, NEW b \in Nat \ {0}
    PROVE  Worth(Whole(n), n * b, b)
<1>1. Whole(n).n = n /\ Whole(n).d = 1
      BY DEF Whole
<1>2. n * b = (n * b) * 1 /\ n * b \in Int
      OBVIOUS
<1> QED BY <1>1, <1>2 DEF Worth, IsFraction

\* Both terms of a fraction's worth may be multiplied.
LEMMA WorthTimes ==
    ASSUME NEW f, NEW a, NEW b, Worth(f, a, b), NEW k \in Nat \ {0}
    PROVE  Worth(f, a * k, b * k)
<1> DEFINE n == f.n
           d == f.d
<1>1. n \in Int /\ d \in Int /\ a \in Int /\ b \in Nat /\ b # 0 /\ n * b = a * d /\ IsFraction(f)
      BY DEF Worth, IsFraction
<1> HIDE DEF n, d
<1>2. n * (b * k) = (a * k) * d
  <2>1. n * (b * k) = (n * b) * k
        BY <1>1
  <2>2. (a * k) * d = (a * d) * k
        BY <1>1
  <2> QED BY <1>1, <2>1, <2>2
<1>3. a * k \in Int /\ b * k \in Nat /\ b * k # 0
      BY <1>1
<1> QED BY <1>1, <1>2, <1>3 DEF Worth, n, d

\* What is worth a / b when computed as n / d.
LEMMA WorthOf ==
    ASSUME NEW n \in Int, NEW d \in Nat \ {0}, NEW a \in Int, NEW b \in Nat \ {0},
           n * b = a * d
    PROVE  Worth(Fraction(n, d), a, b)
<1> DEFINE p == Fraction(n, d).n
           q == Fraction(n, d).d
<1>1. p \in Int /\ q \in Int /\ p * d = n * q /\ IsFraction(Fraction(n, d))
      BY FractionWorth DEF Worth, IsFraction
<1> HIDE DEF p, q
<1>2. (p * b) * d = (a * q) * d
  <2>1. (p * b) * d = (p * d) * b
        BY <1>1
  <2>2. (n * q) * b = (n * b) * q
        BY <1>1
  <2>3. (a * d) * q = (a * q) * d
        BY <1>1
  <2> QED BY <1>1, <2>1, <2>2, <2>3
<1>3. p * b = a * q
  <2>1. p * b \in Int /\ a * q \in Int
        BY <1>1
  <2> QED BY <1>2, <2>1, Cancel
<1> QED BY <1>1, <1>3 DEF Worth, p, q

LEMMA PlusWorth ==
    ASSUME NEW f, NEW g, NEW a, NEW c, NEW b, Worth(f, a, b), Worth(g, c, b)
    PROVE  /\ Worth(Plus(f, g), a + c, b)
           /\ Worth(Minus(f, g), a - c, b)
<1> DEFINE n == f.n
           d == f.d
           m == g.n
           e == g.d
<1>1. /\ n \in Int /\ d \in Nat \ {0} /\ m \in Int /\ e \in Nat \ {0}
      /\ a \in Int /\ c \in Int /\ b \in Nat \ {0}
      /\ n * b = a * d /\ m * b = c * e
      BY DEF Worth, IsFraction
<1>2. Plus(f, g) = Fraction(n * e + m * d, d * e) /\ Minus(f, g) = Fraction(n * e - m * d, d * e)
      BY DEF Plus, Minus
<1> HIDE DEF n, d, m, e
<1>3. d * e \in Nat \ {0} /\ n * e + m * d \in Int /\ n * e - m * d \in Int
      BY <1>1
<1>4. (n * e) * b = (a * d) * e /\ (m * d) * b = (c * e) * d
  <2>1. (n * e) * b = (n * b) * e /\ (m * d) * b = (m * b) * d
        BY <1>1
  <2> QED BY <1>1, <2>1
<1>5. (a * d) * e = a * (d * e) /\ (c * e) * d = c * (d * e)
      BY <1>1
<1> DEFINE D == d * e
           x == n * e
           y == m * d
<1>6. x \in Int /\ y \in Int /\ D \in Int /\ x * b = a * D /\ y * b = c * D
      BY <1>1, <1>4, <1>5
<1>7. (x + y) * b = x * b + y * b /\ (x - y) * b = x * b - y * b
  <2> HIDE DEF x, y
  <2> QED BY <1>1, <1>6
<1>8. (a + c) * D = a * D + c * D /\ (a - c) * D = a * D - c * D
  <2> HIDE DEF D
  <2> QED BY <1>1, <1>6
<1>9. (x + y) * b = (a + c) * D /\ (x - y) * b = (a - c) * D
      BY <1>6, <1>7, <1>8
<1>10. a + c \in Int /\ a - c \in Int /\ x + y \in Int /\ x - y \in Int /\ D \in Nat \ {0}
  <2>1. D \in Nat \ {0}
        BY <1>3
  <2> HIDE DEF x, y, D
  <2> QED BY <1>1, <1>6, <2>1
<1> HIDE DEF x, y, D
<1>11. Worth(Fraction(x + y, D), a + c, b) /\ Worth(Fraction(x - y, D), a - c, b)
      BY <1>1, <1>9, <1>10, WorthOf
<1> QED BY <1>2, <1>11 DEF x, y, D

LEMMA ScaleWorth ==
    ASSUME NEW f, NEW a, NEW b, Worth(f, a, b), NEW k \in Int
    PROVE  Worth(Scale(k, f), k * a, b)
<1> DEFINE n == f.n
           d == f.d
<1>1. n \in Int /\ d \in Nat \ {0} /\ a \in Int /\ b \in Nat \ {0} /\ n * b = a * d
      BY DEF Worth, IsFraction
<1>2. Scale(k, f) = Fraction(k * n, d)
      BY DEF Scale
<1> HIDE DEF n, d
<1>3. (k * n) * b = (k * a) * d
  <2>1. (k * n) * b = k * (n * b) /\ (k * a) * d = k * (a * d)
        BY <1>1
  <2> QED BY <1>1, <2>1
<1>4. k * n \in Int /\ k * a \in Int
      BY <1>1
<1> QED BY <1>1, <1>2, <1>3, <1>4, WorthOf

LEMMA DividedWorth ==
    ASSUME NEW f, NEW a, NEW b, Worth(f, a, b), NEW k \in Nat \ {0}
    PROVE  Worth(DividedBy(f, k), a, b * k)
<1> DEFINE n == f.n
           d == f.d
<1>1. n \in Int /\ d \in Nat \ {0} /\ a \in Int /\ b \in Nat \ {0} /\ n * b = a * d
      BY DEF Worth, IsFraction
<1>2. DividedBy(f, k) = Fraction(n, d * k)
      BY DEF DividedBy
<1> HIDE DEF n, d
<1>3. n * (b * k) = a * (d * k)
  <2>1. n * (b * k) = (n * b) * k /\ a * (d * k) = (a * d) * k
        BY <1>1
  <2> QED BY <1>1, <2>1
<1>4. d * k \in Nat \ {0} /\ b * k \in Nat \ {0}
      BY <1>1
<1> QED BY <1>1, <1>2, <1>3, <1>4, WorthOf

\* A multiple of the denominator is a whole number, in lowest terms.
LEMMA WholeFraction ==
    ASSUME NEW x \in Int, NEW d \in Nat \ {0}
    PROVE  Fraction(x * d, d) = Whole(x)
<1> DEFINE m == Magnitude(x * d)
           p == Magnitude(x)
<1>1. p \in Nat /\ m = p * d /\ m \in Nat
  <2>1. x >= 0 => x * d >= 0
        OBVIOUS
  <2>2. x < 0 => x * d < 0 /\ -(x * d) = (-x) * d
        OBVIOUS
  <2> QED BY <2>1, <2>2 DEF Magnitude
<1>2. m % d = 0 /\ m \div d = p
  <2> HIDE DEF m, p
  <2> QED BY <1>1
<1>3. GreatestDivisor(m, d) = d
  <2> DEFINE f == Divisors(d)
  <2>1. GreatestDivisor(m, d) = f[d][m] /\ IsDivisors(f, d)
        BY DivisorIs
  <2> HIDE DEF f, m
  <2>2. \A l \in 0..d, k \in Nat : f[l][k] = IF l = 0 THEN k ELSE f[k % l][l]
        BY <2>1 DEF IsDivisors
  <2>3. d \in 0..d /\ 0 \in 0..d /\ d \in Nat /\ d # 0
        OBVIOUS
  <2>4. f[d][m] = f[0][d]
        BY <1>1, <1>2, <2>2, <2>3
  <2>5. f[0][d] = d
        BY <2>2, <2>3
  <2> QED BY <2>1, <2>4, <2>5
<1>4. d \div d = 1
      OBVIOUS
<1>5. x * d >= 0 <=> x >= 0
      OBVIOUS
<1>6. Fraction(x * d, d) = [n |-> IF x >= 0 THEN p ELSE -p, d |-> 1]
  <2>1. Fraction(x * d, d) = [n |-> IF x * d >= 0 THEN m \div d ELSE -(m \div d), d |-> d \div d]
        BY <1>3 DEF Fraction
  <2> HIDE DEF m, p
  <2> QED BY <1>2, <1>4, <1>5, <2>1
<1>7. (IF x >= 0 THEN p ELSE -p) = x
      BY DEF Magnitude
<1> HIDE DEF p
<1> QED BY <1>6, <1>7 DEF Whole

\* Two fractions whose worths add up to a whole number add up to it exactly.
LEMMA PlusWhole ==
    ASSUME NEW f, NEW g, NEW a, NEW c, NEW b, Worth(f, a, b), Worth(g, c, b),
           NEW x \in Int, a + c = x * b
    PROVE  Plus(f, g) = Whole(x)
<1> DEFINE n == f.n
           d == f.d
           m == g.n
           e == g.d
<1>1. /\ n \in Int /\ d \in Nat \ {0} /\ m \in Int /\ e \in Nat \ {0}
      /\ a \in Int /\ c \in Int /\ b \in Nat \ {0}
      /\ n * b = a * d /\ m * b = c * e
      BY DEF Worth, IsFraction
<1>2. Plus(f, g) = Fraction(n * e + m * d, d * e)
      BY DEF Plus
<1> HIDE DEF n, d, m, e
<1>3. d * e \in Nat \ {0} /\ n * e + m * d \in Int
      BY <1>1
<1>4. (n * e + m * d) * b = (n * b) * e + (m * b) * d
      BY <1>1
<1>5. (a * d) * e + (c * e) * d = (a + c) * (d * e)
      BY <1>1
<1>6. (x * b) * (d * e) = (x * (d * e)) * b
      BY <1>1
<1>7. (n * e + m * d) * b = (x * (d * e)) * b
      BY <1>1, <1>4, <1>5, <1>6
<1>8. n * e + m * d = x * (d * e)
  <2>1. x * (d * e) \in Int /\ b # 0 /\ b \in Int
        BY <1>1, <1>3
  <2> QED BY <1>3, <1>7, <2>1, Cancel
<1> QED BY <1>2, <1>3, <1>8, WholeFraction

\* A fraction worth at least or at most an integer compares with it like that.
LEMMA WorthCompares ==
    ASSUME NEW f, NEW a, NEW b, Worth(f, a, b), NEW k \in Int
    PROVE  /\ AtMost(Whole(k), f) <=> k * b <= a
           /\ AtMost(f, Whole(k)) <=> a <= k * b
<1> DEFINE n == f.n
           d == f.d
<1>1. n \in Int /\ d \in Nat \ {0} /\ a \in Int /\ b \in Nat \ {0} /\ n * b = a * d
      BY DEF Worth, IsFraction
<1>2. /\ AtMost(Whole(k), f) <=> k * d <= n * 1
      /\ AtMost(f, Whole(k)) <=> n * 1 <= k * d
      BY DEF AtMost, Whole
<1> HIDE DEF n, d
<1>3. n * 1 = n /\ k * d \in Int
      BY <1>1
<1>4. /\ k * d <= n <=> (k * d) * b <= n * b
      /\ n <= k * d <=> n * b <= (k * d) * b
      BY <1>1, <1>3
<1>5. (k * d) * b = (k * b) * d /\ k * b \in Int
      BY <1>1
<1>6. /\ k * b <= a <=> (k * b) * d <= a * d
      /\ a <= k * b <=> a * d <= (k * b) * d
      BY <1>1, <1>5
<1> QED BY <1>1, <1>2, <1>3, <1>4, <1>5, <1>6

Fracs == [n : Int, d : Nat \ {0}]

LEMMA FractionType ==
    ASSUME NEW n \in Int, NEW d \in Nat \ {0}
    PROVE  Fraction(n, d) \in Fracs
<1> DEFINE g == GreatestDivisor(Magnitude(n), d)
           m == Magnitude(n)
<1>1. Fraction(n, d) = [n |-> IF n >= 0 THEN m \div g ELSE -(m \div g), d |-> d \div g]
      BY DEF Fraction
<1>2. Fraction(n, d).n \in Int /\ Fraction(n, d).d \in Nat \ {0}
      BY FractionParts DEF IsFraction
<1> HIDE DEF g, m
<1> QED BY <1>1, <1>2 DEF Fracs

LEMMA WholeType == \A n \in Int : Whole(n) \in Fracs
BY DEF Whole, Fracs

LEMMA ArithmeticTypes ==
    ASSUME NEW f \in Fracs, NEW g \in Fracs, NEW k \in Int
    PROVE  /\ Plus(f, g) \in Fracs /\ Minus(f, g) \in Fracs /\ Scale(k, f) \in Fracs
           /\ k > 0 => DividedBy(f, k) \in Fracs
<1> DEFINE n == f.n
           d == f.d
           m == g.n
           e == g.d
<1>1. n \in Int /\ d \in Nat \ {0} /\ m \in Int /\ e \in Nat \ {0}
      BY DEF Fracs
<1>2. /\ Plus(f, g) = Fraction(n * e + m * d, d * e) /\ Minus(f, g) = Fraction(n * e - m * d, d * e)
      /\ Scale(k, f) = Fraction(k * n, d) /\ DividedBy(f, k) = Fraction(n, d * k)
      BY DEF Plus, Minus, Scale, DividedBy
<1> HIDE DEF n, d, m, e
<1>3. /\ n * e + m * d \in Int /\ n * e - m * d \in Int /\ d * e \in Nat \ {0}
      /\ k * n \in Int
      /\ k > 0 => d * k \in Nat \ {0}
      BY <1>1
<1> QED BY <1>1, <1>2, <1>3, FractionType

\* A fraction is worth itself.
LEMMA OwnWorth ==
    ASSUME NEW f \in Fracs, NEW k \in Nat \ {0}
    PROVE  Worth(f, f.n * k, f.d * k)
<1> DEFINE n == f.n
           d == f.d
<1>1. n \in Int /\ d \in Nat \ {0} /\ IsFraction(f)
      BY DEF Fracs, IsFraction
<1> HIDE DEF n, d
<1>2. n * (d * k) = (n * k) * d /\ n * k \in Int /\ d * k \in Nat \ {0}
      BY <1>1
<1> QED BY <1>1, <1>2 DEF Worth, n, d

-------------------------------------------------------------------------------
(* Equal numbers are equal fractions                                       *)

\* Quotient and remainder are the only ones.
LEMMA RemainderIs ==
    ASSUME NEW l \in Nat \ {0}, NEW q \in Nat, NEW r \in 0..(l - 1), NEW k \in Nat,
           k = (l * q) + r
    PROVE  k % l = r
<1> DEFINE p == k \div l
           s == k % l
<1>1. p \in Nat /\ s \in Nat /\ s <= l - 1 /\ k = (l * p) + s
      BY Remainder
<1> HIDE DEF p, s
<1>2. ~ (p < q)
  <2> SUFFICES ASSUME p < q PROVE FALSE
      OBVIOUS
  <2>1. l * (p + 1) <= l * q
        BY <1>1
  <2>2. l * (p + 1) = (l * p) + l
        BY <1>1
  <2> QED BY <1>1, <2>1, <2>2
<1>3. ~ (q < p)
  <2> SUFFICES ASSUME q < p PROVE FALSE
      OBVIOUS
  <2>1. l * (q + 1) <= l * p
        BY <1>1
  <2>2. l * (q + 1) = (l * q) + l
        OBVIOUS
  <2> QED BY <1>1, <2>1, <2>2
<1>4. p = q
      BY <1>1, <1>2, <1>3
<1>5. s = r
      BY <1>1, <1>4
<1> QED BY <1>5 DEF s

LEMMA RemainderScales ==
    ASSUME NEW k \in Nat, NEW l \in Nat \ {0}, NEW c \in Nat \ {0}
    PROVE  (c * k) % (c * l) = c * (k % l)
<1> DEFINE q == k \div l
           r == k % l
<1>1. q \in Nat /\ r \in Nat /\ r <= l - 1 /\ k = (l * q) + r
      BY Remainder
<1> HIDE DEF q, r
<1>2. c * k = ((c * l) * q) + (c * r)
      BY <1>1
<1>3. c * r <= c * (l - 1) /\ c * (l - 1) = (c * l) - c
      BY <1>1
<1>4. c * l \in Nat \ {0} /\ c * k \in Nat /\ c * r \in Nat
      BY <1>1
<1> DEFINE C == c * l
           R == c * r
           K == c * k
<1>5. C \in Nat \ {0} /\ K \in Nat /\ R \in 0..(C - 1) /\ K = (C * q) + R
      BY <1>2, <1>3, <1>4
<1> HIDE DEF C, R, K
<1>6. K % C = R
      BY <1>1, <1>5, RemainderIs
<1> QED BY <1>6 DEF C, R, K, r

\* Euclid's algorithm on multiples makes the same steps.
LEMMA DivisorScales ==
    ASSUME NEW m \in Nat, NEW n \in Nat \ {0}, NEW c \in Nat \ {0}
    PROVE  GreatestDivisor(c * m, c * n) = c * GreatestDivisor(m, n)
<1> DEFINE f == Divisors(n)
           h == Divisors(c * n)
           Good(i) == \A l \in 0..i, k \in Nat : l <= n => h[c * l][c * k] = c * f[l][k]
           N == {i \in Nat : Good(i)}
<1>0. c * n \in Nat
      OBVIOUS
<1>1. \A l \in 0..n, k \in Nat : f[l][k] = IF l = 0 THEN k ELSE f[k % l][l]
  <2>1. IsDivisors(f, n)
        BY DivisorIs
  <2> HIDE DEF f
  <2> QED BY <2>1 DEF IsDivisors
<1>2. \A l \in 0..(c * n), k \in Nat : h[l][k] = IF l = 0 THEN k ELSE h[k % l][l]
  <2>1. IsDivisors(h, c * n)
        BY <1>0, DivisorIs
  <2> HIDE DEF h
  <2> QED BY <2>1 DEF IsDivisors
<1> HIDE DEF f, h
<1>3. ASSUME NEW k \in Nat
      PROVE  h[c * 0][c * k] = c * f[0][k]
  <2>1. c * 0 = 0 /\ c * k \in Nat /\ 0 \in 0..n /\ 0 \in 0..(c * n)
        BY <1>0
  <2>2. f[0][k] = k
        BY <1>1, <2>1
  <2>3. h[0][c * k] = c * k
        BY <1>2, <2>1
  <2> QED BY <2>1, <2>2, <2>3
<1>4. 0 \in N
  <2>1. \A l \in 0..0 : l = 0
        OBVIOUS
  <2> QED BY <1>3, <2>1
<1>5. ASSUME NEW i \in Nat, i \in N
      PROVE  i + 1 \in N
  <2> SUFFICES ASSUME NEW l \in 0..(i + 1), NEW k \in Nat, l <= n
               PROVE  h[c * l][c * k] = c * f[l][k]
      OBVIOUS
  <2>1. CASE l = 0
        BY <1>3, <2>1
  <2>2. CASE l # 0
    <3>1. l \in Nat \ {0} /\ l \in 0..n /\ k % l \in 0..i /\ k % l <= n /\ k % l \in Nat
          BY <2>2, Remainder
    <3>2. f[l][k] = f[k % l][l]
          BY <1>1, <2>2, <3>1
    <3>3. c * l \in 0..(c * n) /\ c * l # 0 /\ c * k \in Nat
          BY <3>1
    <3>4. h[c * l][c * k] = h[(c * k) % (c * l)][c * l]
          BY <1>2, <3>3
    <3>5. (c * k) % (c * l) = c * (k % l)
          BY <3>1, RemainderScales
    <3>6. h[c * (k % l)][c * l] = c * f[k % l][l]
          BY <1>5, <3>1
    <3> QED BY <3>2, <3>4, <3>5, <3>6
  <2> QED BY <2>1, <2>2
<1>6. n \in N
  <2> HIDE DEF N
  <2> QED BY <1>4, <1>5, SetInduction
<1>7. h[c * n][c * m] = c * f[n][m]
  <2>1. n \in 0..n /\ n <= n
        OBVIOUS
  <2> QED BY <1>6, <2>1
<1>8. GreatestDivisor(m, n) = f[n][m] /\ GreatestDivisor(c * m, c * n) = h[c * n][c * m]
      BY <1>0, DivisorIs DEF f, h
<1> QED BY <1>7, <1>8

LEMMA QuotientIs ==
    ASSUME NEW p \in Nat, NEW h \in Nat \ {0}
    PROVE  (p * h) \div h = p
OBVIOUS

LEMMA FractionScales ==
    ASSUME NEW n \in Int, NEW d \in Nat \ {0}, NEW c \in Nat \ {0}
    PROVE  Fraction(c * n, c * d) = Fraction(n, d)
<1> DEFINE m == Magnitude(n)
           g == GreatestDivisor(m, d)
<1>1. m \in Nat /\ Magnitude(c * n) = c * m /\ (c * n >= 0 <=> n >= 0)
      BY DEF Magnitude
<1>2. DividesBoth(g, m, d)
      BY <1>1, DivisorDivides
<1>3. GreatestDivisor(c * m, c * d) = c * g
  <2> HIDE DEF m
  <2> QED BY <1>1, DivisorScales
<1>4. PICK p, q \in Nat : g \in Nat \ {0} /\ m = p * g /\ d = q * g
      BY <1>2 DEF DividesBoth
<1>5. /\ Fraction(n, d) = [n |-> IF n >= 0 THEN m \div g ELSE -(m \div g), d |-> d \div g]
      /\ Fraction(c * n, c * d) =
            [n |-> IF n >= 0 THEN (c * m) \div (c * g) ELSE -((c * m) \div (c * g)),
             d |-> (c * d) \div (c * g)]
  <2>1. GreatestDivisor(Magnitude(c * n), c * d) = c * g
        BY <1>1, <1>3
  <2> HIDE DEF g
  <2>2. Fraction(c * n, c * d) =
            [n |-> IF c * n >= 0 THEN Magnitude(c * n) \div (c * g) ELSE -(Magnitude(c * n) \div (c * g)),
             d |-> (c * d) \div (c * g)]
        BY <2>1 DEF Fraction
  <2>3. Fraction(n, d) = [n |-> IF n >= 0 THEN m \div g ELSE -(m \div g), d |-> d \div g]
        BY DEF Fraction, g
  <2> HIDE DEF m
  <2> QED BY <1>1, <2>2, <2>3
<1> HIDE DEF m, g
<1>6. /\ c * g \in Nat \ {0} /\ c * m = p * (c * g) /\ c * d = q * (c * g)
      BY <1>4
<1>7. (c * m) \div (c * g) = m \div g /\ (c * d) \div (c * g) = d \div g
      BY <1>4, <1>6, QuotientIs
<1> QED BY <1>5, <1>7

\* Fractions of the same worth are the same.
THEOREM FractionsAreUnique ==
    ASSUME NEW n \in Int, NEW d \in Nat \ {0}, NEW m \in Int, NEW e \in Nat \ {0},
           n * e = m * d
    PROVE  Fraction(n, d) = Fraction(m, e)
<1>1. Fraction(e * n, e * d) = Fraction(n, d) /\ Fraction(d * m, d * e) = Fraction(m, e)
      BY FractionScales
<1>2. e * n = d * m /\ e * d = d * e
      OBVIOUS
<1> QED BY <1>1, <1>2

-------------------------------------------------------------------------------
(* Fractions in lowest terms                                                *)

\* Fractions in lowest terms.
Lows == {f \in Fracs : Fraction(f.n, f.d) = f}

\* Equal numbers are equal values.
THEOREM LowestTermsAreEqual ==
    ASSUME NEW f \in Lows, NEW g \in Lows, f.n * g.d = g.n * f.d
    PROVE  f = g
<1>1. /\ f.n \in Int /\ f.d \in Nat \ {0} /\ g.n \in Int /\ g.d \in Nat \ {0}
      /\ Fraction(f.n, f.d) = f /\ Fraction(g.n, g.d) = g
      BY DEF Lows, Fracs
<1> QED BY <1>1, FractionsAreUnique

THEOREM FractionIsLowest ==
    ASSUME NEW n \in Int, NEW d \in Nat \ {0}
    PROVE  Fraction(n, d) \in Lows
<1> DEFINE f == Fraction(n, d)
<1>1. f \in Fracs /\ f.n * d = n * f.d
      BY FractionType, FractionWorth DEF Worth
<1> HIDE DEF f
<1>2. f.n \in Int /\ f.d \in Nat \ {0}
      BY <1>1 DEF Fracs
<1>3. Fraction(f.n, f.d) = Fraction(n, d)
      BY <1>1, <1>2, FractionsAreUnique
<1> QED BY <1>1, <1>3 DEF Lows, f

LEMMA WholeIsLowest ==
    ASSUME NEW n \in Int
    PROVE  Whole(n) \in Lows /\ Whole(n) = Fraction(n, 1)
<1>1. Fraction(n * 1, 1) = Whole(n) /\ n * 1 = n
      BY WholeFraction
<1> QED BY <1>1, FractionIsLowest

LEMMA LowFields ==
    ASSUME NEW f \in Lows
    PROVE  f \in Fracs /\ f.n \in Int /\ f.d \in Nat \ {0} /\ IsFraction(f)
BY DEF Lows, Fracs, IsFraction

\* In lowest terms a worth says what the fraction is.
THEOREM WorthDecides ==
    ASSUME NEW f \in Lows, NEW a, NEW b, Worth(f, a, b)
    PROVE  f = Fraction(a, b)
<1>1. a \in Int /\ b \in Nat \ {0} /\ f.n * b = a * f.d
      BY DEF Worth
<1>2. f.n \in Int /\ f.d \in Nat \ {0} /\ Fraction(f.n, f.d) = f
      BY DEF Lows, Fracs
<1> QED BY <1>1, <1>2, FractionsAreUnique

LEMMA LowWorth ==
    ASSUME NEW f \in Lows
    PROVE  Worth(f, f.n, f.d)
BY LowFields DEF Worth

\* Swaps the middle factors of two products.
LEMMA Middle ==
    ASSUME NEW w \in Int, NEW x \in Int, NEW y \in Int, NEW z \in Int
    PROVE  (w * x) * (y * z) = (w * y) * (x * z) /\ (w * x) * (y * z) = (w * z) * (x * y)
OBVIOUS

LEMMA TimesWorth ==
    ASSUME NEW f, NEW a, NEW b, Worth(f, a, b), NEW g, NEW c, NEW e, Worth(g, c, e)
    PROVE  Worth(Times(f, g), a * c, b * e)
<1> DEFINE n == f.n
           d == f.d
           m == g.n
           k == g.d
<1>1. /\ n \in Int /\ d \in Nat \ {0} /\ m \in Int /\ k \in Nat \ {0}
      /\ a \in Int /\ b \in Nat \ {0} /\ c \in Int /\ e \in Nat \ {0}
      /\ n * b = a * d /\ m * e = c * k
      BY DEF Worth, IsFraction
<1>2. Times(f, g) = Fraction(n * m, d * k)
      BY DEF Times
<1> HIDE DEF n, d, m, k
<1>3. (n * m) * (b * e) = (n * b) * (m * e) /\ (a * c) * (d * k) = (a * d) * (c * k)
      BY <1>1, Middle
<1>4. (n * m) * (b * e) = (a * c) * (d * k)
      BY <1>1, <1>3
<1>5. n * m \in Int /\ d * k \in Nat \ {0} /\ a * c \in Int /\ b * e \in Nat \ {0}
      BY <1>1
<1> QED BY <1>2, <1>4, <1>5, WorthOf

LEMMA WorthSign ==
    ASSUME NEW f, NEW a, NEW b, Worth(f, a, b)
    PROVE  f.n > 0 <=> a > 0
<1> DEFINE n == f.n
           d == f.d
<1>1. n \in Int /\ d \in Nat \ {0} /\ a \in Int /\ b \in Nat \ {0} /\ n * b = a * d
      BY DEF Worth, IsFraction
<1> HIDE DEF n, d
<1>2. n > 0 <=> n * b > 0
      BY <1>1
<1>3. a > 0 <=> a * d > 0
      BY <1>1
<1> QED BY <1>1, <1>2, <1>3 DEF n

LEMMA OverWorth ==
    ASSUME NEW f, NEW a, NEW b, Worth(f, a, b), NEW g, NEW c, NEW e, Worth(g, c, e), c > 0
    PROVE  Worth(Over(f, g), a * e, b * c)
<1> DEFINE n == f.n
           d == f.d
           m == g.n
           k == g.d
<1>1. /\ n \in Int /\ d \in Nat \ {0} /\ m \in Int /\ k \in Nat \ {0}
      /\ a \in Int /\ b \in Nat \ {0} /\ c \in Int /\ e \in Nat \ {0}
      /\ n * b = a * d /\ m * e = c * k
      BY DEF Worth, IsFraction
<1>2. m > 0
      BY WorthSign
<1>3. Over(f, g) = Fraction(n * k, d * m)
      BY <1>2 DEF Over
<1> HIDE DEF n, d, m, k
<1>4. (n * k) * (b * c) = (n * b) * (c * k) /\ (a * e) * (d * m) = (a * d) * (m * e)
  <2>1. (n * k) * (b * c) = (n * b) * (k * c) /\ k * c = c * k
        BY <1>1, Middle
  <2>2. (a * e) * (d * m) = (a * d) * (e * m) /\ e * m = m * e
        BY <1>1, Middle
  <2> QED BY <2>1, <2>2
<1>5. (n * k) * (b * c) = (a * e) * (d * m)
      BY <1>1, <1>4
<1>6. n * k \in Int /\ d * m \in Nat \ {0} /\ a * e \in Int /\ b * c \in Nat \ {0}
      BY <1>1, <1>2
<1> QED BY <1>3, <1>5, <1>6, WorthOf

\* Fractions compare as what they are worth.
LEMMA WorthAtMost ==
    ASSUME NEW f, NEW a, NEW b, Worth(f, a, b), NEW g, NEW c, NEW e, Worth(g, c, e)
    PROVE  AtMost(f, g) <=> a * e <= c * b
<1> DEFINE n == f.n
           d == f.d
           m == g.n
           k == g.d
<1>1. /\ n \in Int /\ d \in Nat \ {0} /\ m \in Int /\ k \in Nat \ {0}
      /\ a \in Int /\ b \in Nat \ {0} /\ c \in Int /\ e \in Nat \ {0}
      /\ n * b = a * d /\ m * e = c * k
      BY DEF Worth, IsFraction
<1>2. AtMost(f, g) <=> n * k <= m * d
      BY DEF AtMost
<1> HIDE DEF n, d, m, k
<1>3. (n * k) * (b * e) = (a * e) * (d * k)
  <2>1. (n * k) * (b * e) = (n * b) * (k * e) /\ (a * e) * (d * k) = (a * d) * (e * k)
        BY <1>1, Middle
  <2>2. k * e = e * k
        BY <1>1
  <2> QED BY <1>1, <2>1, <2>2
<1>4. (m * d) * (b * e) = (c * b) * (d * k)
  <2>1. (m * d) * (b * e) = (m * e) * (d * b) /\ (c * b) * (d * k) = (c * k) * (b * d)
        BY <1>1, Middle
  <2>2. d * b = b * d
        BY <1>1
  <2> QED BY <1>1, <2>1, <2>2
<1> DEFINE x == n * k
           y == m * d
           u == a * e
           v == c * b
           p == b * e
           q == d * k
<1>5. /\ x \in Int /\ y \in Int /\ u \in Int /\ v \in Int
      /\ p \in Int /\ p > 0 /\ q \in Int /\ q > 0
      BY <1>1
<1>6. x * p = u * q /\ y * p = v * q
      BY <1>3, <1>4
<1> HIDE DEF x, y, u, v, p, q
<1>7. x <= y <=> x * p <= y * p
      BY <1>5
<1>8. u <= v <=> u * q <= v * q
      BY <1>5
<1>9. x <= y <=> u <= v
      BY <1>6, <1>7, <1>8
<1> QED BY <1>2, <1>9 DEF x, y, u, v

LEMMA OrderOfFractions ==
    ASSUME NEW f \in Fracs, NEW g \in Fracs
    PROVE  AtMost(f, f) /\ (AtMost(f, g) \/ AtMost(g, f))
BY DEF AtMost, Fracs

LEMMA AtMostTransitive ==
    ASSUME NEW f \in Fracs, NEW g \in Fracs, NEW h \in Fracs, AtMost(f, g), AtMost(g, h)
    PROVE  AtMost(f, h)
<1> DEFINE a == f.n
           b == f.d
           c == g.n
           d == g.d
           m == h.n
           e == h.d
<1>1. /\ a \in Int /\ b \in Int /\ b > 0 /\ c \in Int /\ d \in Int /\ d > 0
      /\ m \in Int /\ e \in Int /\ e > 0
      /\ a * d <= c * b /\ c * e <= m * d
      BY DEF AtMost, Fracs
<1>2. AtMost(f, h) <=> a * e <= m * b
      BY DEF AtMost
<1> HIDE DEF a, b, c, d, m, e
<1>3. (a * d) * e <= (c * b) * e /\ (c * e) * b <= (m * d) * b
      BY <1>1
<1>4. (a * d) * e = (a * e) * d /\ (c * b) * e = (c * e) * b /\ (m * d) * b = (m * b) * d
      BY <1>1
<1>5. (a * e) * d <= (m * b) * d
      BY <1>1, <1>3, <1>4
<1> DEFINE x == a * e
           y == m * b
<1>6. x \in Int /\ y \in Int /\ x * d <= y * d
      BY <1>1, <1>5
<1> HIDE DEF x, y
<1>7. x <= y
      BY <1>1, <1>6
<1> QED BY <1>2, <1>7 DEF x, y

LEMMA AtMostBothWays ==
    ASSUME NEW f \in Lows, NEW g \in Lows, AtMost(f, g), AtMost(g, f)
    PROVE  f = g
<1>1. f.n * g.d = g.n * f.d
      BY LowFields DEF AtMost
<1> QED BY <1>1, LowestTermsAreEqual

LEMMA LowArithmetic ==
    ASSUME NEW f \in Lows, NEW g \in Lows
    PROVE  /\ Plus(f, g) \in Lows /\ Minus(f, g) \in Lows /\ Times(f, g) \in Lows
           /\ g.n > 0 => Over(f, g) \in Lows
<1> DEFINE n == f.n
           d == f.d
           m == g.n
           e == g.d
<1>1. n \in Int /\ d \in Nat \ {0} /\ m \in Int /\ e \in Nat \ {0}
      BY LowFields
<1>2. /\ Plus(f, g) = Fraction(n * e + m * d, d * e) /\ Minus(f, g) = Fraction(n * e - m * d, d * e)
      /\ Times(f, g) = Fraction(n * m, d * e)
      /\ m > 0 => Over(f, g) = Fraction(n * e, d * m)
      BY DEF Plus, Minus, Times, Over
<1> HIDE DEF n, d, m, e
<1>3. /\ n * e + m * d \in Int /\ n * e - m * d \in Int /\ d * e \in Nat \ {0}
      /\ n * m \in Int /\ n * e \in Int
      /\ m > 0 => d * m \in Nat \ {0}
      BY <1>1
<1> QED BY <1>1, <1>2, <1>3, FractionIsLowest DEF m

Positives == {f \in Lows : f.n > 0}

LEMMA PositiveArithmetic ==
    ASSUME NEW f \in Positives, NEW g \in Positives
    PROVE  Times(f, g) \in Positives /\ Over(f, g) \in Positives
<1> DEFINE n == f.n
           d == f.d
           m == g.n
           e == g.d
<1>1. /\ n \in Int /\ n > 0 /\ d \in Nat \ {0} /\ m \in Int /\ m > 0 /\ e \in Nat \ {0}
      /\ Worth(f, n, d) /\ Worth(g, m, e) /\ f \in Lows /\ g \in Lows
      BY LowFields, LowWorth DEF Positives
<1>2. Times(f, g) \in Lows /\ Over(f, g) \in Lows
      BY <1>1, LowArithmetic
<1>3. Worth(Times(f, g), n * m, d * e) /\ Worth(Over(f, g), n * e, d * m)
      BY <1>1, TimesWorth, OverWorth
<1> HIDE DEF n, d, m, e
<1>4. n * m > 0 /\ n * e > 0
      BY <1>1
<1> QED BY <1>2, <1>3, <1>4, WorthSign DEF Positives

LEMMA TimesCommutes ==
    ASSUME NEW f \in Lows, NEW g \in Lows
    PROVE  Times(f, g) = Times(g, f)
<1>1. f.n * g.n = g.n * f.n /\ f.d * g.d = g.d * f.d
      BY LowFields
<1> QED BY <1>1 DEF Times

LEMMA TimesAssociates ==
    ASSUME NEW f \in Lows, NEW g \in Lows, NEW h \in Lows
    PROVE  Times(f, Times(g, h)) = Times(Times(f, g), h)
<1>1. /\ Worth(f, f.n, f.d) /\ Worth(g, g.n, g.d) /\ Worth(h, h.n, h.d)
      /\ Times(g, h) \in Lows /\ Times(f, g) \in Lows
      BY LowWorth, LowArithmetic
<1>2. Times(f, Times(g, h)) \in Lows /\ Times(Times(f, g), h) \in Lows
      BY <1>1, LowArithmetic
<1>3. /\ Worth(Times(f, Times(g, h)), f.n * (g.n * h.n), f.d * (g.d * h.d))
      /\ Worth(Times(Times(f, g), h), (f.n * g.n) * h.n, (f.d * g.d) * h.d)
      BY <1>1, TimesWorth
<1>4. f.n * (g.n * h.n) = (f.n * g.n) * h.n /\ f.d * (g.d * h.d) = (f.d * g.d) * h.d
  <2>1. /\ f.n \in Int /\ g.n \in Int /\ h.n \in Int
        /\ f.d \in Int /\ g.d \in Int /\ h.d \in Int
        BY LowFields
  <2>2. \A x, y, z \in Int : x * (y * z) = (x * y) * z
        OBVIOUS
  <2> QED BY <2>1, <2>2
<1> QED BY <1>2, <1>3, <1>4, WorthDecides

LEMMA TimesOne ==
    ASSUME NEW f \in Lows
    PROVE  Times(Whole(1), f) = f /\ Times(f, Whole(1)) = f
<1>1. f.n \in Int /\ f.d \in Nat /\ Fraction(f.n, f.d) = f
      BY LowFields DEF Lows
<1>2. 1 * f.n = f.n /\ f.n * 1 = f.n /\ 1 * f.d = f.d /\ f.d * 1 = f.d
      BY <1>1
<1> QED BY <1>1, <1>2 DEF Times, Whole

\* Quotients chain.
LEMMA TimesOver ==
    ASSUME NEW a \in Nat \ {0}, NEW b \in Nat \ {0}, NEW c \in Nat \ {0}
    PROVE  Times(Fraction(b, a), Fraction(c, b)) = Fraction(c, a)
<1>1. /\ Worth(Fraction(b, a), b, a) /\ Worth(Fraction(c, b), c, b)
      /\ Fraction(b, a) \in Lows /\ Fraction(c, b) \in Lows
      BY FractionWorth, FractionIsLowest
<1>2. Worth(Times(Fraction(b, a), Fraction(c, b)), b * c, a * b)
      BY <1>1, TimesWorth
<1>3. Times(Fraction(b, a), Fraction(c, b)) = Fraction(b * c, a * b)
      BY <1>1, <1>2, LowArithmetic, WorthDecides
<1>4. Fraction(b * c, b * a) = Fraction(c, a) /\ a * b = b * a
      BY FractionScales
<1> QED BY <1>3, <1>4

\* Subtracting turns the order round.
LEMMA MinusTurns ==
    ASSUME NEW f \in Lows, NEW g \in Lows
    PROVE  AtMost(f, g) <=> AtMost(Minus(Whole(0), g), Minus(Whole(0), f))
<1> DEFINE a == f.n
           b == f.d
           c == g.n
           d == g.d
<1>1. /\ a \in Int /\ b \in Nat \ {0} /\ c \in Int /\ d \in Nat \ {0}
      /\ Worth(f, a, b) /\ Worth(g, c, d)
      BY LowFields, LowWorth
<1>2. Worth(Whole(0), 0 * b, b) /\ Worth(Whole(0), 0 * d, d) /\ 0 * b = 0 /\ 0 * d = 0
  <2> HIDE DEF a, b, c, d
  <2>1. \A k \in Nat \ {0} : Worth(Whole(0), 0 * k, k)
        BY WholeWorth
  <2>2. 0 * b = 0 /\ 0 * d = 0
        BY <1>1
  <2> QED BY <1>1, <2>1, <2>2
<1>3. Worth(Minus(Whole(0), f), 0 - a, b) /\ Worth(Minus(Whole(0), g), 0 - c, d)
      BY <1>1, <1>2, PlusWorth
<1>4. /\ AtMost(f, g) <=> a * d <= c * b
      /\ AtMost(Minus(Whole(0), g), Minus(Whole(0), f)) <=> (0 - c) * b <= (0 - a) * d
  <2>1. AtMost(f, g) <=> a * d <= c * b
        BY DEF AtMost
  <2> HIDE DEF a, b, c, d
  <2> QED BY <1>3, <2>1, WorthAtMost
<1> HIDE DEF a, b, c, d
<1>5. (0 - c) * b = -(c * b) /\ (0 - a) * d = -(a * d) /\ c * b \in Int /\ a * d \in Int
      BY <1>1
<1> QED BY <1>4, <1>5

LEMMA PlusCommutes ==
    ASSUME NEW f \in Lows, NEW g \in Lows
    PROVE  Plus(f, g) = Plus(g, f)
<1> DEFINE a == f.n * g.d
           b == g.n * f.d
<1>1. f.d * g.d = g.d * f.d /\ a \in Int /\ b \in Int
      BY LowFields
<1> HIDE DEF a, b
<1>2. a + b = b + a
      BY <1>1
<1> QED BY <1>1, <1>2 DEF Plus, a, b

LEMMA NothingWorth ==
    ASSUME NEW b \in Nat \ {0}
    PROVE  Worth(Whole(0), 0, b) /\ Whole(0) \in Lows
<1>1. Whole(0).n = 0 /\ Whole(0).d = 1 /\ 0 * b = 0 /\ 0 * 1 = 0
      BY DEF Whole
<1> QED BY <1>1, WholeIsLowest DEF Worth, IsFraction

LEMMA PlusNothing ==
    ASSUME NEW f \in Lows
    PROVE  Plus(f, Whole(0)) = f
<1> DEFINE a == f.n
           b == f.d
<1>1. a \in Int /\ b \in Nat \ {0} /\ Worth(f, a, b) /\ Fraction(a, b) = f
      BY LowFields, LowWorth DEF Lows
<1> HIDE DEF a, b
<1>2. Whole(0) \in Lows /\ Worth(Whole(0), 0, b)
      BY <1>1, NothingWorth
<1>3. Worth(Plus(f, Whole(0)), a + 0, b) /\ Plus(f, Whole(0)) \in Lows
      BY <1>1, <1>2, PlusWorth, LowArithmetic
<1>4. a + 0 = a
      BY <1>1
<1> QED BY <1>1, <1>3, <1>4, WorthDecides

\* Adding the same to both keeps the order.
LEMMA PlusKeepsOrder ==
    ASSUME NEW f \in Lows, NEW g \in Lows, NEW h \in Lows, AtMost(f, g)
    PROVE  AtMost(Plus(f, h), Plus(g, h))
<1> DEFINE a == f.n
           b == f.d
           c == g.n
           d == g.d
           m == h.n
           e == h.d
<1>1. /\ a \in Int /\ b \in Nat \ {0} /\ c \in Int /\ d \in Nat \ {0}
      /\ m \in Int /\ e \in Nat \ {0}
      /\ Worth(f, a, b) /\ Worth(g, c, d) /\ Worth(h, m, e)
      BY LowFields, LowWorth
<1>2. a * d <= c * b
      BY DEF AtMost
<1> HIDE DEF a, b, c, d, m, e
<1>3. /\ Worth(f, a * e, b * e) /\ Worth(g, c * e, d * e)
      /\ Worth(h, m * b, b * e) /\ Worth(h, m * d, d * e)
  <2>1. e * b = b * e /\ e * d = d * e
        BY <1>1
  <2> QED BY <1>1, <2>1, WorthTimes
<1>4. Worth(Plus(f, h), a * e + m * b, b * e) /\ Worth(Plus(g, h), c * e + m * d, d * e)
      BY <1>3, PlusWorth
<1> DEFINE p == b * e
           q == d * e
           u == a * e
           v == c * e
           w == m * b
           z == m * d
<1>5. p \in Int /\ q \in Int /\ u \in Int /\ v \in Int /\ w \in Int /\ z \in Int
      BY <1>1
<1>6. u * q <= v * p
  <2>1. u * q = (a * d) * (e * e) /\ v * p = (c * b) * (e * e)
        BY <1>1, Middle
  <2> DEFINE x == a * d
             y == c * b
             s == e * e
  <2>2. x \in Int /\ y \in Int /\ s \in Nat /\ x <= y
        BY <1>1, <1>2
  <2> HIDE DEF x, y, s, u, v, p, q
  <2>3. x * s <= y * s
        BY <2>2
  <2> QED BY <2>1, <2>3 DEF x, y, s
<1>7. w * q = z * p
  <2>1. w * q = (m * d) * (b * e)
        BY <1>1, Middle
  <2> QED BY <2>1
<1> HIDE DEF p, q, u, v, w, z
<1>8. (u + w) * q = u * q + w * q /\ (v + z) * p = v * p + z * p
      BY <1>5
<1>9. u * q \in Int /\ w * q \in Int /\ v * p \in Int
      BY <1>5
<1>10. (u + w) * q <= (v + z) * p
  <2> DEFINE i == u * q
             j == v * p
             k == w * q
  <2>1. i \in Int /\ j \in Int /\ k \in Int /\ i <= j
        BY <1>6, <1>9
  <2> HIDE DEF i, j, k
  <2>2. i + k <= j + k
        BY <2>1
  <2> QED BY <1>7, <1>8, <2>2 DEF i, j, k
<1>11. Worth(Plus(f, h), u + w, p) /\ Worth(Plus(g, h), v + z, q)
       BY <1>4 DEF p, q, u, v, w, z
<1> QED BY <1>10, <1>11, WorthAtMost

\* The lesser sum is that of the lesser numbers.
LEMMA PlusAtMost ==
    ASSUME NEW f \in Lows, NEW g \in Lows, AtMost(f, g),
           NEW h \in Lows, NEW k \in Lows, AtMost(h, k)
    PROVE  AtMost(Plus(f, h), Plus(g, k))
<1>1. AtMost(Plus(f, h), Plus(g, h))
      BY PlusKeepsOrder
<1>2. AtMost(Plus(h, g), Plus(k, g))
      BY PlusKeepsOrder
<1>3. Plus(h, g) = Plus(g, h) /\ Plus(k, g) = Plus(g, k)
      BY PlusCommutes
<1>4. Plus(f, h) \in Fracs /\ Plus(g, h) \in Fracs /\ Plus(g, k) \in Fracs
      BY LowArithmetic, LowFields
<1> QED BY <1>1, <1>2, <1>3, <1>4, AtMostTransitive

\* A multiple is a sum of equal numbers, and each of them its part.
LEMMA ScaleSteps ==
    ASSUME NEW f \in Lows, NEW k \in Nat
    PROVE  /\ Scale(0, f) = Whole(0)
           /\ Scale(k, f) \in Lows
           /\ Scale(k + 1, f) = Plus(Scale(k, f), f)
           /\ k > 0 => DividedBy(Scale(k, f), k) = f
<1> DEFINE a == f.n
           b == f.d
<1>1. a \in Int /\ b \in Nat \ {0} /\ Worth(f, a, b) /\ Fraction(a, b) = f
      BY LowFields, LowWorth DEF Lows
<1>2. \A j \in Nat : Scale(j, f) = Fraction(j * a, b)
      BY DEF Scale
<1> HIDE DEF a, b
<1>3. \A j \in Nat : j * a \in Int
      BY <1>1
<1>4. \A j \in Nat : Scale(j, f) \in Lows /\ Worth(Scale(j, f), j * a, b)
      BY <1>1, <1>2, <1>3, FractionIsLowest, FractionWorth
<1>5. Scale(0, f) = Whole(0)
  <2>1. Worth(Whole(0), 0, b) /\ Whole(0) \in Lows
        BY <1>1, NothingWorth
  <2>2. 0 * a = 0
        BY <1>1
  <2>3. Worth(Scale(0, f), 0, b) /\ Scale(0, f) \in Lows
        BY <1>4, <2>2
  <2> QED BY <2>1, <2>3, WorthDecides
<1>6. Scale(k + 1, f) = Plus(Scale(k, f), f)
  <2>1. Worth(Plus(Scale(k, f), f), k * a + a, b)
        BY <1>1, <1>4, PlusWorth
  <2>2. Plus(Scale(k, f), f) \in Lows
        BY <1>4, LowArithmetic
  <2>3. (k + 1) * a = k * a + a
        BY <1>1
  <2>4. Worth(Scale(k + 1, f), k * a + a, b) /\ Scale(k + 1, f) \in Lows
        BY <1>4, <2>3
  <2> QED BY <2>1, <2>2, <2>4, WorthDecides
<1>7. ASSUME k > 0 PROVE DividedBy(Scale(k, f), k) = f
  <2> DEFINE s == Scale(k, f)
  <2>1. k \in Nat \ {0} /\ Worth(s, k * a, b) /\ s.n \in Int /\ s.d \in Nat \ {0}
        BY <1>4, <1>7, LowFields
  <2> HIDE DEF s
  <2>2. Worth(DividedBy(s, k), k * a, b * k)
        BY <2>1, DividedWorth
  <2>3. s.d * k \in Nat \ {0}
        BY <2>1
  <2>4. DividedBy(s, k) \in Lows
        BY <2>1, <2>3, FractionIsLowest DEF DividedBy
  <2>5. DividedBy(s, k) = Fraction(k * a, b * k)
        BY <2>2, <2>4, WorthDecides
  <2>6. Fraction(k * a, k * b) = Fraction(a, b)
        BY <1>1, <2>1, FractionScales
  <2>7. b * k = k * b
        BY <1>1
  <2> QED BY <1>1, <2>5, <2>6, <2>7 DEF s
<1> QED BY <1>4, <1>5, <1>6, <1>7

\* Parts are in the order of the wholes.
LEMMA DividedKeepsOrder ==
    ASSUME NEW f \in Lows, NEW g \in Lows, AtMost(f, g), NEW k \in Nat \ {0}
    PROVE  /\ DividedBy(f, k) \in Lows /\ DividedBy(g, k) \in Lows
           /\ AtMost(DividedBy(f, k), DividedBy(g, k))
<1> DEFINE a == f.n
           b == f.d
           c == g.n
           d == g.d
<1>1. /\ a \in Int /\ b \in Nat \ {0} /\ c \in Int /\ d \in Nat \ {0}
      /\ Worth(f, a, b) /\ Worth(g, c, d)
      BY LowFields, LowWorth
<1>2. a * d <= c * b /\ DividedBy(f, k) = Fraction(a, b * k) /\ DividedBy(g, k) = Fraction(c, d * k)
      BY DEF AtMost, DividedBy
<1> HIDE DEF a, b, c, d
<1>3. Worth(DividedBy(f, k), a, b * k) /\ Worth(DividedBy(g, k), c, d * k)
      BY <1>1, DividedWorth
<1>4. b * k \in Nat \ {0} /\ d * k \in Nat \ {0}
      BY <1>1
<1>5. a * (d * k) <= c * (b * k)
  <2> DEFINE x == a * d
             y == c * b
  <2>1. a * (d * k) = x * k /\ c * (b * k) = y * k
        BY <1>1
  <2>2. x \in Int /\ y \in Int /\ x <= y
        BY <1>1, <1>2
  <2> HIDE DEF x, y
  <2>3. x * k <= y * k
        BY <2>2
  <2> QED BY <2>1, <2>3
<1> QED BY <1>1, <1>2, <1>3, <1>4, <1>5, WorthAtMost, FractionIsLowest

-------------------------------------------------------------------------------
(* The product as the function it is defined by                              *)

\* One step of the recursion.
ProductStep(f, g, T) ==
    IF T = {} THEN Whole(1) ELSE Times(f[Pick(T)], g[T \ {Pick(T)}])

ProductFcn(f, S) == CHOOSE g : g = [T \in SUBSET S |-> ProductStep(f, g, T)]

ProductOver(f, S) == ProductFcn(f, S)[S]

\* Approximations of the product exist for the subsets of every size.
LEMMA ProductFcnExists ==
    ASSUME NEW f, NEW S, IsFiniteSet(S)
    PROVE  \E g : g = [T \in SUBSET S |-> ProductStep(f, g, T)]
<1> DEFINE N == {n \in Nat : \E g : g = [T \in Small(S, n) |-> ProductStep(f, g, T)]}
<1>1. \A T \in SUBSET S : IsFiniteSet(T) /\ Cardinality(T) \in Nat
      BY FS_Subset, FS_CardinalityType
<1>2. 0 \in N
  <2> DEFINE g == [T \in Small(S, 0) |-> Whole(1)]
  <2>1. \A T \in Small(S, 0) : T = {}
        BY <1>1, FS_EmptySet DEF Small
  <2>2. g = [T \in Small(S, 0) |-> ProductStep(f, g, T)]
        BY <2>1 DEF ProductStep
  <2> QED BY <2>2
<1>3. ASSUME NEW n \in Nat, n \in N PROVE n + 1 \in N
  <2>1. PICK g : g = [T \in Small(S, n) |-> ProductStep(f, g, T)]
        BY <1>3
  <2> DEFINE h == [T \in Small(S, n + 1) |-> ProductStep(f, g, T)]
  <2>2. ASSUME NEW T \in Small(S, n + 1) PROVE ProductStep(f, g, T) = ProductStep(f, h, T)
    <3>1. CASE T = {}
          BY <3>1 DEF ProductStep
    <3>2. CASE T # {}
      <4> DEFINE U == T \ {Pick(T)}
      <4>1. U \in SUBSET S /\ Cardinality(U) <= n /\ Cardinality(U) \in Nat
            BY <1>1, <3>2, PickOne DEF Small
      <4>2. U \in Small(S, n) /\ U \in Small(S, n + 1)
            BY <4>1 DEF Small
      <4> HIDE DEF U
      <4>3. g[U] = ProductStep(f, g, U) /\ h[U] = ProductStep(f, g, U)
            BY <2>1, <4>2
      <4>4. g[U] = h[U]
            BY <4>3
      <4> HIDE DEF h
      <4> QED BY <4>4 DEF ProductStep, U
    <3> QED BY <3>1, <3>2
  <2>3. h = [T \in Small(S, n + 1) |-> ProductStep(f, h, T)]
        BY <2>2
  <2> HIDE DEF h
  <2>4. \E hh : hh = [T \in Small(S, n + 1) |-> ProductStep(f, hh, T)]
        BY <2>3
  <2> QED BY <2>4
<1>4. Nat \subseteq N
  <2> HIDE DEF N
  <2> QED BY <1>2, <1>3, SetInduction
<1>5. PICK g : g = [T \in Small(S, Cardinality(S)) |-> ProductStep(f, g, T)]
      BY <1>4, FS_CardinalityType
<1>6. Small(S, Cardinality(S)) = SUBSET S
      BY FS_Subset DEF Small
<1> QED BY <1>5, <1>6

LEMMA ProductFcnDef ==
    ASSUME NEW f, NEW S, IsFiniteSet(S), NEW T \in SUBSET S
    PROVE  ProductFcn(f, S)[T] = ProductStep(f, ProductFcn(f, S), T)
<1>1. ProductFcn(f, S) = [U \in SUBSET S |-> ProductStep(f, ProductFcn(f, S), U)]
      BY ProductFcnExists DEF ProductFcn
<1> QED BY <1>1

LEMMA ProductFcnType ==
    ASSUME NEW S, IsFiniteSet(S), NEW W \in SUBSET S, NEW f, \A x \in W : f[x] \in Positives
    PROVE  \A T \in SUBSET W : ProductFcn(f, S)[T] \in Positives
<1> DEFINE Good == {T \in SUBSET W : ProductFcn(f, S)[T] \in Positives}
<1>1. ASSUME NEW T \in SUBSET W, \A U \in SUBSET T : U # T => U \in Good
      PROVE  T \in Good
  <2>1. IsFiniteSet(T) /\ T \in SUBSET S
        BY FS_Subset
  <2>2. ProductFcn(f, S)[T] = ProductStep(f, ProductFcn(f, S), T)
        BY <2>1, ProductFcnDef
  <2>3. CASE T = {}
    <3>1. Whole(1) \in Lows /\ Whole(1).n = 1
          BY WholeIsLowest DEF Whole
    <3>2. Whole(1) \in Positives
          BY <3>1 DEF Positives
    <3> QED BY <2>2, <2>3, <3>2 DEF ProductStep
  <2>4. CASE T # {}
    <3>1. Pick(T) \in T /\ T \ {Pick(T)} \in SUBSET T /\ T \ {Pick(T)} # T
          BY <2>1, <2>4, PickOne
    <3>2. ProductFcn(f, S)[T \ {Pick(T)}] \in Positives /\ f[Pick(T)] \in Positives
          BY <1>1, <3>1
    <3> QED BY <2>2, <2>4, <3>2, PositiveArithmetic DEF ProductStep
  <2> QED BY <2>3, <2>4
<1>2. IsFiniteSet(W)
      BY FS_Subset
<1>3. SUBSET W \subseteq Good
  <2> HIDE DEF Good
  <2> QED BY <1>1, <1>2, SubsetInduction
<1> QED BY <1>3

\* The factor x does what the positive fraction y does.
ActsAs(x, y) == y \in Positives /\ \A z \in Lows : Times(x, z) = Times(y, z)

\* The product over a set depends only on what the factors do.
LEMMA ProductFcnSame ==
    ASSUME NEW S, IsFiniteSet(S), NEW R, IsFiniteSet(R), NEW W \in SUBSET S, W \in SUBSET R,
           NEW f, NEW h, \A x \in W : ActsAs(f[x], h[x])
    PROVE  \A T \in SUBSET W : ProductFcn(f, S)[T] = ProductFcn(h, R)[T]
<1> DEFINE Good == {T \in SUBSET W : ProductFcn(f, S)[T] = ProductFcn(h, R)[T]}
<1>0. \A T \in SUBSET W : ProductFcn(h, R)[T] \in Lows
  <2>1. \A x \in W : h[x] \in Positives
        BY DEF ActsAs
  <2> QED BY <2>1, ProductFcnType DEF Positives
<1>1. ASSUME NEW T \in SUBSET W, \A U \in SUBSET T : U # T => U \in Good
      PROVE  T \in Good
  <2>1. IsFiniteSet(T) /\ T \in SUBSET S /\ T \in SUBSET R
        BY FS_Subset
  <2>2. /\ ProductFcn(f, S)[T] = ProductStep(f, ProductFcn(f, S), T)
        /\ ProductFcn(h, R)[T] = ProductStep(h, ProductFcn(h, R), T)
        BY <2>1, ProductFcnDef
  <2>3. CASE T = {}
        BY <2>2, <2>3 DEF ProductStep
  <2>4. CASE T # {}
    <3>1. Pick(T) \in T /\ T \ {Pick(T)} \in SUBSET T /\ T \ {Pick(T)} # T
          BY <2>1, <2>4, PickOne
    <3> DEFINE rest == ProductFcn(h, R)[T \ {Pick(T)}]
    <3>2. ProductFcn(f, S)[T \ {Pick(T)}] = rest /\ rest \in Lows /\ ActsAs(f[Pick(T)], h[Pick(T)])
          BY <1>0, <1>1, <3>1
    <3>3. Times(f[Pick(T)], rest) = Times(h[Pick(T)], rest)
      <4> HIDE DEF rest
      <4> QED BY <3>2 DEF ActsAs
    <3> QED BY <2>2, <2>4, <3>2, <3>3 DEF ProductStep
  <2> QED BY <2>3, <2>4
<1>2. IsFiniteSet(W)
      BY FS_Subset
<1>3. SUBSET W \subseteq Good
  <2> HIDE DEF Good
  <2> QED BY <1>1, <1>2, SubsetInduction
<1> QED BY <1>3

\* It does not matter which factor is taken first.
LEMMA ProductFcnTake ==
    ASSUME NEW S, IsFiniteSet(S), NEW f, \A x \in S : f[x] \in Positives
    PROVE  \A T \in SUBSET S : \A x \in T :
              ProductFcn(f, S)[T] = Times(f[x], ProductFcn(f, S)[T \ {x}])
<1> DEFINE F == ProductFcn(f, S)
           Good == {T \in SUBSET S : \A x \in T : F[T] = Times(f[x], F[T \ {x}])}
<1>1. ASSUME NEW T \in SUBSET S, \A U \in SUBSET T : U # T => U \in Good, NEW x \in T
      PROVE  F[T] = Times(f[x], F[T \ {x}])
  <2> DEFINE p == Pick(T)
  <2>1. IsFiniteSet(T) /\ T # {}
        BY FS_Subset
  <2>2. p \in T /\ F[T] = Times(f[p], F[T \ {p}])
    <3>1. F[T] = ProductStep(f, F, T)
          BY ProductFcnDef
    <3> HIDE DEF F
    <3> QED BY <2>1, <3>1, PickOne DEF ProductStep
  <2> HIDE DEF p
  <2>3. CASE p = x
        BY <2>2, <2>3
  <2>4. CASE p # x
    <3>1. x \in T \ {p} /\ T \ {p} \in SUBSET T /\ T \ {p} # T
          BY <2>2, <2>4
    <3>2. p \in T \ {x} /\ T \ {x} \in SUBSET T /\ T \ {x} # T
          BY <2>2, <2>4
    <3>3. F[T \ {p}] = Times(f[x], F[(T \ {p}) \ {x}])
          BY <1>1, <3>1
    <3>4. F[T \ {x}] = Times(f[p], F[(T \ {x}) \ {p}])
          BY <1>1, <3>2
    <3>5. (T \ {p}) \ {x} = (T \ {x}) \ {p} /\ (T \ {p}) \ {x} \in SUBSET S
          OBVIOUS
    <3>6. F[(T \ {p}) \ {x}] \in Lows /\ f[x] \in Lows /\ f[p] \in Lows
          BY <2>2, <3>5, ProductFcnType DEF Positives
    <3> DEFINE rest == F[(T \ {p}) \ {x}]
    <3>7. F[T \ {p}] = Times(f[x], rest) /\ F[T \ {x}] = Times(f[p], rest)
          BY <3>3, <3>4, <3>5
    <3>8. rest \in Lows /\ f[x] \in Lows /\ f[p] \in Lows
          BY <3>6
    <3> HIDE DEF F, rest
    <3>9. Times(f[p], Times(f[x], rest)) = Times(f[x], Times(f[p], rest))
          BY <3>8, TimesAssociates, TimesCommutes
    <3> QED BY <2>2, <3>7, <3>9
  <2> QED BY <2>3, <2>4
<1>2. SUBSET S \subseteq Good
  <2>1. \A T \in SUBSET S : (\A U \in SUBSET T : U # T => U \in Good) => T \in Good
        BY <1>1
  <2> HIDE DEF Good
  <2> QED BY <2>1, SubsetInduction
<1> QED BY <1>2

\* The product of nothing is one.
THEOREM ProductEmpty == \A f : ProductOver(f, {}) = Whole(1)
BY ProductFcnDef, FS_EmptySet DEF ProductOver, ProductStep

\* Positive fractions multiply to a positive fraction.
THEOREM ProductType ==
    ASSUME NEW S, IsFiniteSet(S), NEW f, \A x \in S : f[x] \in Positives
    PROVE  ProductOver(f, S) \in Positives
BY ProductFcnType DEF ProductOver

\* Factors that do the same have the same product.
THEOREM ProductSame ==
    ASSUME NEW S, IsFiniteSet(S), NEW f, NEW h, \A x \in S : ActsAs(f[x], h[x])
    PROVE  ProductOver(f, S) = ProductOver(h, S)
BY ProductFcnSame DEF ProductOver

\* One more factor multiplies, wherever the product meets it.
THEOREM ProductTimes ==
    ASSUME NEW S, IsFiniteSet(S), NEW x, x \notin S, NEW f, NEW h,
           \A y \in S : f[y] = h[y] /\ f[y] \in Positives, h[x] \in Positives
    PROVE  ProductOver(h, S \cup {x}) = Times(ProductOver(f, S), h[x])
<1> DEFINE R == S \cup {x}
<1>1. IsFiniteSet(R) /\ \A y \in R : h[y] \in Positives
      BY FS_AddElement
<1>2. R \in SUBSET R /\ x \in R /\ R \ {x} = S /\ S \in SUBSET S /\ S \in SUBSET R
      OBVIOUS
<1> HIDE DEF R
<1>3. ProductFcn(h, R)[R] = Times(h[x], ProductFcn(h, R)[R \ {x}])
      BY <1>1, <1>2, ProductFcnTake
<1>4. ProductFcn(h, R)[S] = ProductFcn(f, S)[S]
  <2>1. \A y \in S : ActsAs(h[y], f[y])
        BY DEF ActsAs
  <2> QED BY <1>1, <1>2, <2>1, ProductFcnSame
<1>5. ProductFcn(f, S)[S] \in Positives
  <2>1. \A y \in S : f[y] \in Positives
        OBVIOUS
  <2> QED BY <2>1, ProductFcnType
<1>6. ProductOver(h, R) = Times(h[x], ProductOver(f, S)) /\ ProductOver(f, S) \in Positives
      BY <1>2, <1>3, <1>4, <1>5 DEF ProductOver
<1>7. ProductOver(h, R) = Times(ProductOver(f, S), h[x])
      BY <1>6, TimesCommutes DEF Positives
<1> QED BY <1>7 DEF R

\* The same for one function.
LEMMA ProductMore ==
    ASSUME NEW S, IsFiniteSet(S), NEW x, x \notin S, NEW f, \A y \in S \cup {x} : f[y] \in Positives
    PROVE  ProductOver(f, S \cup {x}) = Times(ProductOver(f, S), f[x])
<1>1. f[x] \in Positives /\ \A y \in S : f[y] = f[y] /\ f[y] \in Positives
      OBVIOUS
<1> QED BY <1>1, ProductTimes

-------------------------------------------------------------------------------
(* Elements put into a sequence                                              *)

LEMMA SizeOfFirst ==
    ASSUME NEW n \in Nat
    PROVE  IsFiniteSet(1..n) /\ Cardinality(1..n) = n
BY FS_Interval

\* The sequence s with e behind its first k elements.
WithRow(r, E, s, e, k) ==
    /\ r \in Seq(E) /\ Len(r) = Len(s) + 1
    /\ \A i \in 1..k : r[i] = s[i]
    /\ r[k + 1] = e
    /\ \A i \in (k + 2)..(Len(s) + 1) : r[i] = s[i - 1]

LEMMA InsertAtIs ==
    ASSUME NEW E, NEW s \in Seq(E), NEW e \in E, NEW k \in 0..Len(s)
    PROVE  WithRow(InsertAt(s, k + 1, e), E, s, e, k)
<1> DEFINE front == SubSeq(s, 1, k)
           back == SubSeq(s, k + 1, Len(s))
<1>1. Len(s) \in Nat /\ k \in Nat /\ k <= Len(s) /\ (k + 1) - 1 = k
      OBVIOUS
<1>2. front \in Seq(E) /\ Len(front) = k /\ \A i \in 1..k : front[i] = s[i]
      BY <1>1
<1>3. back \in Seq(E) /\ Len(back) = Len(s) - k
      /\ \A i \in 1..(Len(s) - k) : back[i] = s[k + i]
      BY <1>1
<1>4. InsertAt(s, k + 1, e) = front \o <<e>> \o back
      BY <1>1 DEF InsertAt
<1> HIDE DEF front, back
<1>5. /\ front \o <<e>> \in Seq(E) /\ Len(front \o <<e>>) = k + 1
      /\ \A i \in 1..k : (front \o <<e>>)[i] = s[i]
      /\ (front \o <<e>>)[k + 1] = e
      BY <1>1, <1>2
<1> DEFINE most == front \o <<e>>
<1> HIDE DEF most
<1>6. /\ most \in Seq(E) /\ Len(most) = k + 1
      /\ \A i \in 1..k : most[i] = s[i]
      /\ most[k + 1] = e
      BY <1>5 DEF most
<1> DEFINE r == most \o back
<1>7. r \in Seq(E) /\ Len(r) = Len(s) + 1
      BY <1>1, <1>3, <1>6
<1>8. \A i \in 1..(k + 1) : r[i] = most[i]
      BY <1>1, <1>3, <1>6
<1>9. ASSUME NEW i \in (k + 2)..(Len(s) + 1) PROVE r[i] = s[i - 1]
  <2>1. r[i] = back[i - (k + 1)]
        BY <1>1, <1>3, <1>6
  <2>2. i - (k + 1) \in 1..(Len(s) - k) /\ k + (i - (k + 1)) = i - 1
        BY <1>1
  <2> QED BY <1>3, <2>1, <2>2
<1>10. r = InsertAt(s, k + 1, e)
      BY <1>4 DEF most
<1>11. \A i \in 1..k : r[i] = s[i]
      BY <1>1, <1>6, <1>8
<1>12. r[k + 1] = e
      BY <1>1, <1>6, <1>8
<1> HIDE DEF r
<1> QED BY <1>7, <1>9, <1>10, <1>11, <1>12 DEF WithRow

-------------------------------------------------------------------------------
(* Sequences one behind the other                                            *)

\* The step of the function by which FlattenSeq is defined.
FlattenStep(seqs, f, i) == IF i = 1 THEN seqs[i] ELSE f[i - 1] \o seqs[i]

FlattenFcn(seqs) == CHOOSE f : f = [i \in 1..Len(seqs) |-> FlattenStep(seqs, f, i)]

\* It exists for the first n sequences.
FlattensFirst(seqs, E, n) ==
    \E f \in [1..n -> Seq(E)] : \A i \in 1..n : f[i] = FlattenStep(seqs, f, i)

LEMMA FlattenExists ==
    ASSUME NEW E, NEW seqs \in Seq(Seq(E))
    PROVE  \E f : f = [i \in 1..Len(seqs) |-> FlattenStep(seqs, f, i)]
<1> DEFINE N == {n \in Nat : n <= Len(seqs) => FlattensFirst(seqs, E, n)}
<1>1. Len(seqs) \in Nat /\ \A i \in 1..Len(seqs) : seqs[i] \in Seq(E)
      BY LenProperties, ElementOfSeq
<1>2. 0 \in N
  <2>1. [i \in 1..0 |-> <<>>] \in [1..0 -> Seq(E)]
        OBVIOUS
  <2>2. \A i \in 1..0 : FALSE
        OBVIOUS
  <2> QED BY <2>1, <2>2 DEF FlattensFirst
<1>3. ASSUME NEW n \in Nat, n \in N PROVE n + 1 \in N
  <2> SUFFICES ASSUME n + 1 <= Len(seqs) PROVE FlattensFirst(seqs, E, n + 1)
      OBVIOUS
  <2>0. FlattensFirst(seqs, E, n)
        BY <1>1, <1>3
  <2>1. PICK f \in [1..n -> Seq(E)] : \A i \in 1..n : f[i] = FlattenStep(seqs, f, i)
        BY <2>0 DEF FlattensFirst
  <2> DEFINE next == IF n = 0 THEN seqs[1] ELSE f[n] \o seqs[n + 1]
             h == [i \in 1..(n + 1) |-> IF i = n + 1 THEN next ELSE f[i]]
  <2>2. next \in Seq(E)
    <3>1. CASE n = 0
          BY <1>1, <3>1
    <3>2. CASE n # 0
      <4>1. f[n] \in Seq(E) /\ seqs[n + 1] \in Seq(E)
            BY <1>1, <3>2
      <4> QED BY <3>2, <4>1, ConcatProperties
    <3> QED BY <3>1, <3>2
  <2>3. h \in [1..(n + 1) -> Seq(E)]
    <3> HIDE DEF next
    <3> QED BY <2>2
  <2>4. h[n + 1] = next /\ \A i \in 1..n : h[i] = f[i]
    <3> HIDE DEF next
    <3> QED OBVIOUS
  <2>5. h[n + 1] = FlattenStep(seqs, h, n + 1)
    <3> HIDE DEF h
    <3>1. CASE n = 0
          BY <2>4, <3>1 DEF FlattenStep
    <3>2. CASE n # 0
      <4>1. (n + 1) - 1 = n /\ n \in 1..n /\ n + 1 # 1
            BY <3>2
      <4> QED BY <2>4, <3>2, <4>1 DEF FlattenStep
    <3> QED BY <3>1, <3>2
  <2>6. ASSUME NEW i \in 1..n PROVE h[i] = FlattenStep(seqs, h, i)
    <3> HIDE DEF h
    <3>1. i # 1 => i - 1 \in 1..n
          OBVIOUS
    <3> QED BY <2>1, <2>4, <3>1 DEF FlattenStep
  <2> HIDE DEF h, next
  <2>7. \A i \in 1..(n + 1) : i = n + 1 \/ i \in 1..n
        OBVIOUS
  <2>8. \A i \in 1..(n + 1) : h[i] = FlattenStep(seqs, h, i)
        BY <2>5, <2>6, <2>7
  <2> QED BY <2>3, <2>8 DEF FlattensFirst
<1>4. Len(seqs) \in N
  <2> HIDE DEF N
  <2> QED BY <1>1, <1>2, <1>3, SetInduction
<1>5. PICK f \in [1..Len(seqs) -> Seq(E)] : \A i \in 1..Len(seqs) : f[i] = FlattenStep(seqs, f, i)
      BY <1>1, <1>4 DEF FlattensFirst
<1>6. f = [i \in 1..Len(seqs) |-> FlattenStep(seqs, f, i)]
      BY <1>5
<1> QED BY <1>6

\* What has been joined of the first k sequences is a beginning of what follows.
Grown(f, E, k) ==
    /\ f[k] \in Seq(E)
    /\ \A j \in 1..k : /\ Len(f[j]) \in Nat /\ Len(f[j]) <= Len(f[k])
                       /\ \A i \in 1..Len(f[j]) : f[k][i] = f[j][i]

\* Where sequence j of seqs begins in all of them.
Begins(off, seqs) ==
    /\ off \in [0..Len(seqs) -> Nat]
    /\ off[0] = 0
    /\ \A j \in 1..Len(seqs) : off[j] = off[j - 1] + Len(seqs[j])

\* The elements of all, in order.
Joined(s, off, seqs) ==
    /\ Len(s) = off[Len(seqs)]
    /\ \A j \in 1..Len(seqs) : \A i \in 1..Len(seqs[j]) : s[off[j - 1] + i] = seqs[j][i]

THEOREM FlattenJoins ==
    ASSUME NEW E, NEW seqs \in Seq(Seq(E))
    PROVE  /\ FlattenSeq(seqs) \in Seq(E)
           /\ \E off : Begins(off, seqs) /\ Joined(FlattenSeq(seqs), off, seqs)
<1> DEFINE n == Len(seqs)
           f == FlattenFcn(seqs)
           off == [j \in 0..n |-> IF j = 0 THEN 0 ELSE Len(f[j])]
<1>1. n \in Nat /\ \A i \in 1..n : seqs[i] \in Seq(E) /\ Len(seqs[i]) \in Nat
      BY LenProperties, ElementOfSeq
<1>2. f = [i \in 1..n |-> FlattenStep(seqs, f, i)]
      BY FlattenExists DEF FlattenFcn
<1>3. FlattenSeq(seqs) = IF n = 0 THEN seqs ELSE f[n]
      BY DEF FlattenSeq, FlattenFcn, FlattenStep
<1> HIDE DEF f
<1> DEFINE N == {k \in Nat : k + 1 <= n => Grown(f, E, k + 1)}
<1>4. ASSUME NEW k \in 1..n, k # 1
      PROVE  k - 1 \in 1..n /\ f[k] = f[k - 1] \o seqs[k]
  <2>1. f[k] = FlattenStep(seqs, f, k)
        BY <1>2
  <2>2. f[k] = f[k - 1] \o seqs[k]
        BY <1>4, <2>1 DEF FlattenStep
  <2> HIDE DEF n
  <2>3. k - 1 \in 1..n
        BY <1>1, <1>4
  <2> QED BY <2>2, <2>3
<1>5. n # 0 => f[1] = seqs[1]
      BY <1>1, <1>2 DEF FlattenStep
<1> HIDE DEF n
<1>6. 0 \in N
  <2> SUFFICES ASSUME 1 <= n PROVE Grown(f, E, 1)
      BY 0 + 1 = 1
  <2>1. f[1] \in Seq(E) /\ Len(f[1]) \in Nat
        BY <1>1, <1>5
  <2>2. \A j \in 1..1 : j = 1
        OBVIOUS
  <2> QED BY <2>1, <2>2 DEF Grown
<1>7. ASSUME NEW k \in Nat, k \in N PROVE k + 1 \in N
  <2> SUFFICES ASSUME (k + 1) + 1 <= n PROVE Grown(f, E, (k + 1) + 1)
      OBVIOUS
  <2> DEFINE m == k + 1
  <2>1. m \in 1..n /\ m + 1 \in 1..n /\ m + 1 # 1 /\ (m + 1) - 1 = m
        BY <1>1
  <2>2. Grown(f, E, m)
        BY <1>7, <2>1
  <2>3. f[m + 1] = f[m] \o seqs[m + 1]
        BY <1>4, <2>1
  <2> HIDE DEF m, N
  <2>4. /\ f[m + 1] \in Seq(E)
        /\ Len(f[m]) \in Nat /\ Len(f[m + 1]) = Len(f[m]) + Len(seqs[m + 1])
        /\ \A i \in 1..Len(f[m]) : f[m + 1][i] = f[m][i]
    <3> DEFINE s == f[m]
               t == seqs[m + 1]
    <3>1. s \in Seq(E) /\ t \in Seq(E)
          BY <1>1, <2>1, <2>2 DEF Grown
    <3> HIDE DEF s, t
    <3>2. /\ s \o t \in Seq(E) /\ Len(s) \in Nat /\ Len(t) \in Nat
          /\ Len(s \o t) = Len(s) + Len(t)
          /\ \A i \in 1..Len(s) : (s \o t)[i] = s[i]
          BY <3>1
    <3> QED BY <2>3, <3>2 DEF s, t
  <2>5. ASSUME NEW j \in 1..(m + 1)
        PROVE  /\ Len(f[j]) \in Nat /\ Len(f[j]) <= Len(f[m + 1])
               /\ \A i \in 1..Len(f[j]) : f[m + 1][i] = f[j][i]
    <3>1. CASE j = m + 1
      <4>1. Len(f[m + 1]) \in Nat
            BY <2>4, LenProperties
      <4> QED BY <3>1, <4>1
    <3>2. CASE j \in 1..m
      <4>1. /\ Len(f[j]) \in Nat /\ Len(f[j]) <= Len(f[m])
            /\ \A i \in 1..Len(f[j]) : f[m][i] = f[j][i]
            BY <2>2, <3>2 DEF Grown
      <4>2. Len(seqs[m + 1]) \in Nat
            BY <1>1, <2>1
      <4>3. Len(f[j]) <= Len(f[m + 1])
        <5> DEFINE a == Len(f[j])
                   b == Len(f[m])
                   c == Len(seqs[m + 1])
                   d == Len(f[m + 1])
        <5>1. a \in Nat /\ b \in Nat /\ a <= b
              BY <2>4, <4>1
        <5>2. c \in Nat /\ d = b + c
              BY <2>4, <4>2
        <5> HIDE DEF a, b, c, d
        <5>3. a <= d
              BY <5>1, <5>2
        <5> QED BY <5>3 DEF a, d
      <4>4. \A i \in 1..Len(f[j]) : i \in 1..Len(f[m])
            BY <2>4, <4>1
      <4> QED BY <2>4, <4>1, <4>3, <4>4
    <3> QED BY <2>1, <3>1, <3>2
  <2> QED BY <2>4, <2>5 DEF m, Grown
<1>8. Nat \subseteq N
  <2> HIDE DEF N
  <2> QED BY <1>6, <1>7, SetInduction
<1>9. \A k \in 1..n : Grown(f, E, k)
  <2> SUFFICES ASSUME NEW k \in 1..n PROVE Grown(f, E, k)
      OBVIOUS
  <2>1. k - 1 \in Nat /\ (k - 1) + 1 = k /\ k <= n
        BY <1>1
  <2>2. k - 1 \in N
        BY <1>8, <2>1
  <2> QED BY <2>1, <2>2
<1>10. \A k \in 1..n : f[k] \in Seq(E) /\ Len(f[k]) \in Nat
       BY <1>9, LenProperties DEF Grown
<1>11. FlattenSeq(seqs) \in Seq(E) /\ Len(FlattenSeq(seqs)) = off[n]
  <2>1. CASE n = 0
    <3>1. seqs = <<>>
          BY <2>1, EmptySeq DEF n
    <3> QED BY <1>3, <2>1, <3>1, EmptySeq
  <2>2. CASE n # 0
    <3>1. n \in 1..n
          BY <1>1, <2>2
    <3> QED BY <1>3, <1>10, <2>2, <3>1
  <2> QED BY <2>1, <2>2
<1>12. /\ off \in [0..n -> Nat] /\ off[0] = 0
       /\ \A j \in 1..n : off[j] = Len(f[j])
       BY <1>1, <1>10
<1> HIDE DEF off
<1>13. ASSUME NEW j \in 1..n
       PROVE  /\ off[j] = off[j - 1] + Len(seqs[j])
              /\ \A i \in 1..Len(seqs[j]) : f[j][off[j - 1] + i] = seqs[j][i]
  <2>1. CASE j = 1
    <3>1. off[j - 1] = 0 /\ f[j] = seqs[j] /\ Len(seqs[j]) \in Nat
          BY <1>1, <1>5, <1>12, <2>1
    <3> QED BY <1>12, <3>1
  <2>2. CASE j # 1
    <3> DEFINE s == f[j - 1]
               t == seqs[j]
    <3>1. j - 1 \in 1..n /\ f[j] = s \o t /\ s \in Seq(E) /\ t \in Seq(E)
          BY <1>1, <1>4, <1>10, <2>2
    <3>2. off[j - 1] = Len(s) /\ off[j] = Len(f[j])
          BY <1>12, <3>1
    <3> HIDE DEF s, t
    <3>3. /\ Len(s \o t) = Len(s) + Len(t)
          /\ \A i \in 1..Len(t) : (s \o t)[Len(s) + i] = t[i]
          BY <3>1
    <3> QED BY <3>1, <3>2, <3>3 DEF t
  <2> QED BY <2>1, <2>2
<1>14. ASSUME NEW j \in 1..n, NEW i \in 1..Len(seqs[j])
       PROVE  FlattenSeq(seqs)[off[j - 1] + i] = seqs[j][i]
  <2>1. n \in 1..n /\ n # 0 /\ j - 1 \in 0..n
        BY <1>1
  <2>2. FlattenSeq(seqs) = f[n]
        BY <1>3, <2>1
  <2>3. off[j - 1] \in Nat /\ Len(seqs[j]) \in Nat /\ Len(f[j]) = off[j - 1] + Len(seqs[j])
        BY <1>1, <1>12, <1>13, <2>1
  <2>4. off[j - 1] + i \in 1..Len(f[j])
        BY <2>3
  <2>5. f[n][off[j - 1] + i] = f[j][off[j - 1] + i]
        BY <1>9, <2>1, <2>4 DEF Grown
  <2> QED BY <1>13, <2>2, <2>5
<1>15. Begins(off, seqs)
       BY <1>12, <1>13 DEF Begins, n
<1>16. Joined(FlattenSeq(seqs), off, seqs)
       BY <1>11, <1>14 DEF Joined, n
<1> QED BY <1>11, <1>15, <1>16

===============================================================================
