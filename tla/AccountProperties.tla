-------------------------- MODULE AccountProperties ---------------------------
(***************************************************************************)
(* What is claimed of the account books of module AccountBooks.            *)
(***************************************************************************)
EXTENDS AccountBooks

TypeOK ==
    \A a \in Accounts :
        /\ \A c \in Conids :
             LET p == positions[a][c] IN
             /\ p.position \in Int /\ p.marketValue \in Int
             /\ p.marketPrice \in Prices \cup {0}
             /\ IsFraction(p.avgCost) /\ IsFraction(p.realized) /\ IsFraction(p.unrealized)
        /\ LET s == snapshots[a] IN
             /\ s.cash \in Int /\ s.netLiq \in Int /\ s.exposure \in Nat
             /\ IsFraction(s.realized) /\ IsFraction(s.unrealized)

Total(f(_), S) == MapThenSumSet(f, S)

TradesOf(a, c) == {i \in DOMAIN trades : trades[i].account = a /\ trades[i].conid = c}
Signed(i) == SignedQuantity(trades[i].side, trades[i].qty)

\* The position that trade i found.
PositionBefore(i) ==
    Total(Signed, {j \in TradesOf(trades[i].account, trades[i].conid) : j < i})

\* Realized and unrealized profit of a position are exactly what its trades
\* paid out plus what is still held at the last price; only the commissions of
\* trades that add to the position are left out.  Through any sequence of adds,
\* partial closes, flips from long to short and zero-size executions
\* (accounts.py 53-67, 75-77, 98-101).
PnLReconciles ==
    \A a \in Accounts, c \in Conids :
        LET p == positions[a][c]
            mine == TradesOf(a, c)
            closing == {i \in mine : ~Opens(PositionBefore(i), Signed(i))} IN
        Plus(p.realized, p.unrealized)
          = Whole(p.position * p.marketPrice
                    - Total(LAMBDA i : Signed(i) * trades[i].price, mine)
                    - Total(LAMBDA i : trades[i].commission, closing))

\* The snapshot is never behind the positions: net liquidation is cash plus the
\* value of everything held, closed positions included because they are worth
\* nothing (accounts.py 105-123).
SnapshotIsCurrent ==
    \A a \in Accounts :
        snapshots[a].netLiq
          = snapshots[a].cash + Total(LAMBDA c : positions[a][c].marketValue, Conids)

\* The average cost of an open position is a price somebody paid: between the
\* lowest and the highest price of the trades on its side (accounts.py 58-67).
AvgCostWithinPrices ==
    \A a \in Accounts, c \in Conids :
        LET p == positions[a][c]
            side == IF p.position > 0 THEN "BUY" ELSE "SELL"
            same == {i \in TradesOf(a, c) : trades[i].side = side /\ trades[i].qty > 0} IN
        p.position # 0 =>
            /\ \E i \in same : AtMost(Whole(trades[i].price), p.avgCost)
            /\ \E i \in same : AtMost(p.avgCost, Whole(trades[i].price))

\* The preview is right for the case it is meant for: buying more of a contract
\* without multiplier at the price the position is already marked at leaves the
\* equity and the exposure that what_if announced (accounts.py 125-145 against
\* 49-90).
PreviewOfOpeningBuy ==
    [][Len(trades') > Len(trades) =>
         LET e == trades'[Len(trades')]
             before == positions[e.account][e.conid]
             preview == WhatIf(snapshots[e.account], e.side, e.qty, e.price)
             after == snapshots'[e.account] IN
         /\ e.side = "BUY" /\ before.position >= 0
         /\ Multiplier[e.conid] = 1
         /\ positions'[e.account][e.conid].marketPrice = e.price
         /\ before.position # 0 => before.marketPrice = e.price
         => after.netLiq = preview.equity /\ after.exposure = preview.exposure]_vars

\* "PnL updates cascade to positions/account summary" (research/deep-research-report
\* (1).md 156): the account's realized profit is that of all its positions.
RealizedReachesSnapshot ==
    \A a \in Accounts :
        snapshots[a].realized = TotalFraction(LAMBDA c : positions[a][c].realized, Conids)

===============================================================================
