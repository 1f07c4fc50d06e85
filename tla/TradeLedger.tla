----------------------------- MODULE TradeLedger ------------------------------
(***************************************************************************)
(* What the account books promise: cash and positions move only when a     *)
(* trade is booked, both at once and by what that trade says, and a booked *)
(* trade is never changed.                                                 *)
(***************************************************************************)
EXTENDS Integers, Sequences

VARIABLES trades, cash, position

ledger == <<trades, cash, position>>

Signed(e) == IF e.side = "BUY" THEN e.qty ELSE -e.qty

\* The trade that a step has added to the book.
Booked == trades'[Len(trades) + 1]

BookTrade ==
    /\ Len(trades') = Len(trades) + 1
    /\ trades' = Append(trades, Booked)
    /\ cash' = [cash EXCEPT ![Booked.account] = @ - Signed(Booked) * Booked.price - Booked.commission]
    /\ position' = [position EXCEPT ![Booked.account][Booked.conid] = @ + Signed(Booked)]

Init ==
    /\ trades = <<>>
    /\ \A a \in DOMAIN position : \A c \in DOMAIN position[a] : position[a][c] = 0

Spec == Init /\ [][BookTrade]_ledger

===============================================================================
