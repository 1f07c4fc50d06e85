---------------------------- MODULE OrderLifecycle ----------------------------
(***************************************************************************)
(* What the order service promises about each order, whatever the prices,  *)
(* the accounts and the replies are: orders are numbered in sequence and    *)
(* never forgotten; only an open order trades, is amended or closes; what   *)
(* has been filled is never taken back and a trade never exceeds what is    *)
(* left; a closed order stays exactly as it is.                             *)
(***************************************************************************)
EXTENDS Integers, Sequences

CONSTANT Quantities     \* the quantities an order may ask for

VARIABLE book           \* what can be seen of each order, by order number

Entries == [open : BOOLEAN, filled : Nat, quantity : Quantities]

TypeInvariant == book \in Seq(Entries)

Init == book = <<>>

Accept ==
    \E q \in Quantities :
        book' = Append(book, [open |-> TRUE, filled |-> 0, quantity |-> q])

\* A trade fills some of what is left; one that completes the order closes it,
\* one that does not may.
Trade(o) ==
    LET after == book'[o] IN
    /\ book[o].open
    /\ after.filled \in book[o].filled..book[o].quantity
    /\ after.filled = book[o].quantity => ~after.open
    /\ after.open \in BOOLEAN
    /\ book' = [book EXCEPT ![o].open = after.open, ![o].filled = after.filled]

Close(o) ==
    /\ book[o].open
    /\ book' = [book EXCEPT ![o].open = FALSE]

\* The new quantity may be below what has been filled.
Amend(o) ==
    /\ book[o].open
    /\ \E q \in Quantities : book' = [book EXCEPT ![o].quantity = q]

Next == Accept \/ \E o \in DOMAIN book : Trade(o) \/ Close(o) \/ Amend(o)

Spec == Init /\ [][Next]_book

===============================================================================
