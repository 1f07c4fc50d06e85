----------------------------- MODULE AccountBooks -----------------------------
(***************************************************************************)
(* AccountService (accounts.py): positions with their average cost and     *)
(* profit and loss, and the account snapshot that is recomputed from them  *)
(* after every execution and every marking to market.                      *)
(*                                                                         *)
(* An execution is what OrderService hands over: any side, a quantity that  *)
(* may be zero (an order replaced by a ticket for no more than what it had  *)
(* filled already), a price and the last price of the quote it came with.  *)
(***************************************************************************)
EXTENDS TradeRules, Fractions, Sequences, FiniteSets, FiniteSetsExt

CONSTANTS
    Accounts, Conids,
    Multiplier,     \* of a future or an option, 1 for everything else
    InitialCash,
    Quantities, Prices,
    MaxTrades       \* bound on the number of executions

ASSUME AccountBooksAssumption ==
    /\ IsFiniteSet(Conids)
    /\ Multiplier \in [Conids -> Nat \ {0}]
    /\ InitialCash \in Nat /\ MaxTrades \in Nat
    /\ Quantities \subseteq Nat /\ Prices \subseteq Nat \ {0}

VARIABLES
    positions,      \* the Position of each account and contract; a missing one is Flat
    snapshots,      \* the AccountSnapshot of each account
    trades          \* OrderService.executions

vars == <<positions, snapshots, trades>>

Flat == [position |-> 0, avgCost |-> Whole(0), marketPrice |-> 0, marketValue |-> 0,
         realized |-> Whole(0), unrealized |-> Whole(0)]

-------------------------------------------------------------------------------
(* The arithmetic of one execution                                           *)

\* The execution adds to the position rather than reducing it.
Opens(old, signed) == old = 0 \/ (old > 0) = (signed > 0)

\* Keeps the old cost when the position changes sides.
AvgCostMutant(current, e) ==
    LET old == current.position
        signed == SignedQuantity(e.side, e.qty)
        new == old + signed IN
    CASE new = 0 -> Whole(0)
      [] new # 0 /\ Opens(old, signed) ->
            DividedBy(Plus(Scale(Absolute(old), current.avgCost),
                           Whole(e.price * Absolute(signed))), Absolute(new))
      [] OTHER -> current.avgCost

AvgCost(current, e) ==
    LET old == current.position
        signed == SignedQuantity(e.side, e.qty)
        new == old + signed IN
    CASE new = 0 -> Whole(0)
      [] new # 0 /\ Opens(old, signed) ->
            DividedBy(Plus(Scale(Absolute(old), current.avgCost),
                           Whole(e.price * Absolute(signed))), Absolute(new))
      [] new # 0 /\ ~Opens(old, signed) /\ (old > 0) = (new > 0) -> current.avgCost
      [] OTHER -> Whole(e.price)

\* Closes the whole execution, also the part that opens the other side.
ClosedQuantityMutant(old, signed) == Absolute(signed)

ClosedQuantity(old, signed) == Smaller(Absolute(old), Absolute(signed))

\* Only a reducing execution realizes, net of its commission.
Realized(current, e) ==
    LET old == current.position
        signed == SignedQuantity(e.side, e.qty)
        perUnit == IF old > 0 THEN Minus(Whole(e.price), current.avgCost)
                              ELSE Minus(current.avgCost, Whole(e.price)) IN
    IF Opens(old, signed) THEN current.realized
    ELSE Minus(Plus(current.realized, Scale(ClosedQuantity(old, signed), perUnit)),
               Whole(e.commission))

Unrealized(quantity, avgCost, last) ==
    IF quantity = 0 THEN Whole(0) ELSE Scale(quantity, Minus(Whole(last), avgCost))

-------------------------------------------------------------------------------
(* _revalue_snapshot                                                         *)

PositionsFor(held) == {c \in Conids : held[c].position # 0}

TotalFraction(f(_), S) ==
    MapThenFoldSet(Plus, Whole(0), f, LAMBDA T : CHOOSE x \in T : TRUE, S)

\* Values every position the account has ever had at its cost.
RevaluedMutant(totalCash, held) ==
    [cash |-> totalCash,
     netLiq |-> totalCash + MapThenSumSet(LAMBDA c : held[c].position * held[c].marketPrice, Conids),
     realized |-> TotalFraction(LAMBDA c : held[c].realized, PositionsFor(held)),
     unrealized |-> TotalFraction(LAMBDA c : held[c].unrealized, PositionsFor(held)),
     exposure |-> 0]

\* Long and short positions offset each other in the exposure.
RevaluedNetMutant(totalCash, held) ==
    LET open == PositionsFor(held) IN
    [cash |-> totalCash,
     netLiq |-> totalCash + MapThenSumSet(LAMBDA c : held[c].marketValue, open),
     realized |-> TotalFraction(LAMBDA c : held[c].realized, open),
     unrealized |-> TotalFraction(LAMBDA c : held[c].unrealized, open),
     exposure |-> MapThenSumSet(LAMBDA c : held[c].marketValue, open)]

\* Margins are 25% and 20% of exposure, the other fields follow from these.
Revalued(totalCash, held) ==
    LET open == PositionsFor(held) IN
    [cash |-> totalCash,
     netLiq |-> totalCash + MapThenSumSet(LAMBDA c : held[c].marketValue, open),
     realized |-> TotalFraction(LAMBDA c : held[c].realized, open),
     unrealized |-> TotalFraction(LAMBDA c : held[c].unrealized, open),
     exposure |-> MapThenSumSet(LAMBDA c : Absolute(held[c].marketValue), open)]

-------------------------------------------------------------------------------

Init ==
    /\ positions = [a \in Accounts |-> [c \in Conids |-> Flat]]
    /\ snapshots = [a \in Accounts |-> Revalued(InitialCash, positions[a])]
    /\ trades = <<>>

ApplyExecution(e, last) ==
    LET current == positions[e.account][e.conid]
        new == current.position + SignedQuantity(e.side, e.qty)
        avgCost == AvgCost(current, e)
        after == [position |-> new, avgCost |-> avgCost, marketPrice |-> last,
                  marketValue |-> new * last * Multiplier[e.conid],
                  realized |-> Realized(current, e),
                  unrealized |-> Unrealized(new, avgCost, last)]
        totalCash == snapshots[e.account].cash
                        + CashDelta(e.side, e.qty, e.price, e.commission) IN
    /\ Len(trades) < MaxTrades
    /\ positions' = [positions EXCEPT ![e.account][e.conid] = after]
    /\ snapshots' = [snapshots EXCEPT ![e.account] = Revalued(totalCash, positions'[e.account])]
    /\ trades' = Append(trades, e)

\* The web adapter quotes every open position and marks it, without multiplier.
MarkToMarket(a, lasts) ==
    /\ DOMAIN lasts = PositionsFor(positions[a]) /\ DOMAIN lasts # {}
    /\ positions' = [positions EXCEPT ![a] =
          [c \in Conids |->
              IF c \notin DOMAIN lasts THEN positions[a][c]
              ELSE [positions[a][c] EXCEPT
                      !.marketPrice = lasts[c],
                      !.marketValue = positions[a][c].position * lasts[c],
                      !.unrealized = Unrealized(positions[a][c].position,
                                                positions[a][c].avgCost, lasts[c])]]]
    /\ snapshots' = [snapshots EXCEPT ![a] = Revalued(snapshots[a].cash, positions'[a])]
    /\ UNCHANGED trades

Next ==
    \/ \E a \in Accounts, c \in Conids, side \in Sides, qty \in Quantities,
          price \in Prices, last \in Prices :
          ApplyExecution([account |-> a, conid |-> c, side |-> side, qty |-> qty,
                          price |-> price, commission |-> EstimateCommission(qty, price)], last)
    \/ \E a \in Accounts : \E lasts \in [PositionsFor(positions[a]) -> Prices] :
          MarkToMarket(a, lasts)

Spec == Init /\ [][Next]_vars

-------------------------------------------------------------------------------
(* what_if                                                                   *)

\* Forgets the commission.
WhatIfMutant(snapshot, side, qty, price) ==
    [equity |-> snapshot.netLiq, exposure |-> snapshot.exposure + qty * price]

\* The preview of an order: equity after it, and the exposure its margin is a
\* quarter of.  A sale is previewed without its commission.
WhatIf(snapshot, side, qty, price) ==
    [equity |-> snapshot.netLiq
                  - (IF side = "BUY" THEN EstimateCommission(qty, price) ELSE 0),
     exposure |-> snapshot.exposure + qty * price]

===============================================================================
