------------------------------ MODULE Fractions -------------------------------
(***************************************************************************)
(* Exact fractions in lowest terms, for the averages that the code keeps in *)
(* floating point: equal numbers are equal values.                         *)
(***************************************************************************)
EXTENDS Integers

Magnitude(n) == IF n >= 0 THEN n ELSE -n

GreatestDivisor(m, n) ==
    LET divisor[l \in 0..n] == [k \in Nat |-> IF l = 0 THEN k ELSE divisor[k % l][l]]
    IN  divisor[n][m]

IsFraction(f) == f.n \in Int /\ f.d \in Nat \ {0}

Fraction(n, d) ==
    LET g == GreatestDivisor(Magnitude(n), d) IN
    [n |-> IF n >= 0 THEN Magnitude(n) \div g ELSE -(Magnitude(n) \div g), d |-> d \div g]

Whole(n) == [n |-> n, d |-> 1]
Plus(f, g) == Fraction(f.n * g.d + g.n * f.d, f.d * g.d)
Minus(f, g) == Fraction(f.n * g.d - g.n * f.d, f.d * g.d)
Scale(k, f) == Fraction(k * f.n, f.d)
DividedBy(f, k) == Fraction(f.n, f.d * k)
Times(f, g) == Fraction(f.n * g.n, f.d * g.d)
Over(f, g) == IF g.n > 0 THEN Fraction(f.n * g.d, f.d * g.n)
                         ELSE Fraction(-(f.n * g.d), f.d * (-g.n))
AtMost(f, g) == f.n * g.d <= g.n * f.d

===============================================================================
