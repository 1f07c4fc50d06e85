---------------------------- MODULE MCAccountBooks ----------------------------
(***************************************************************************)
(* The instances of AccountBooks that TLC checks: a stock and a future with *)
(* a multiplier, two prices, trades of up to two units and of none.        *)
(***************************************************************************)
EXTENDS AccountProperties

CONSTANTS acc, ibm, es

MCMultiplier == [c \in Conids |-> IF c = es THEN 50 ELSE 1]

===============================================================================
