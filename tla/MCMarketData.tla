----------------------------- MODULE MCMarketData -----------------------------
(***************************************************************************)
(* The instance of MarketData that TLC checks: the chain of the default     *)
(* configuration, a stock that every provider has, and an unknown contract. *)
(***************************************************************************)
EXTENDS MarketData, TLC

CONSTANTS t1, t2, aapl, unknown

MCChain == <<"yahoo", "stooq", "synthetic">>
MCServes == [p \in Providers |-> Contracts]
MCTTL == [p \in External |-> 1]
Symmetry == Permutations(Threads)

===============================================================================
