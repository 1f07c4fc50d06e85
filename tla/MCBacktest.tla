------------------------------ MODULE MCBacktest ------------------------------
(***************************************************************************)
(* The instance of Backtest that TLC checks: one bar against the mean of    *)
(* two, with short selling, closes that halve and double.                   *)
(***************************************************************************)
EXTENDS Backtest

MCKeep == Fraction(1, 2)

===============================================================================
