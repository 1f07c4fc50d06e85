--------------------------- MODULE OrderProperties ----------------------------
(***************************************************************************)
(* What is claimed of the order service of module Orders.                  *)
(***************************************************************************)
EXTENDS Orders

Ledger == INSTANCE TradeLedger WITH trades <- executions

Total(f(_), S) == MapThenSumSet(f, S)
FillsOf(o) == {i \in DOMAIN executions : executions[i].order = o}

\* Each order's counters are what its executions add up to, and what remains is
\* what its present ticket asks for beyond that, never below zero: over partial
\* fills, replacements that raise or lower the quantity, and cancels
\* (orders.py _try_fill 196-216, replace_order 249-250).
OrderArithmetic ==
    \A o \in DOMAIN orders :
        /\ orders[o].filled = Total(LAMBDA i : executions[i].qty, FillsOf(o))
        /\ orders[o].cost = Total(LAMBDA i : executions[i].qty * executions[i].price, FillsOf(o))
        /\ orders[o].remaining = Larger(0, orders[o].ticket.quantity - orders[o].filled)
        /\ orders[o].status = "Filled" => orders[o].remaining = 0

\* No money and no share appears or disappears: cash and positions are the
\* initial ones plus everything that was ever executed (accounts.py 53-73).
BooksBalance ==
    \A a \in Accounts :
        LET mine == {i \in DOMAIN executions : executions[i].account = a} IN
        /\ cash[a] + Total(LAMBDA i : executions[i].commission
                                + Ledger!Signed(executions[i]) * executions[i].price, mine)
             = InitialCash
        /\ \A c \in Conids :
              position[a][c] = Total(LAMBDA i : Ledger!Signed(executions[i]),
                                     {i \in mine : executions[i].conid = c})

Logged(types, ticket) ==
    {i \in DOMAIN log : log[i].type \in types /\ log[i].ticket = ticket}

\* A stop order is never submitted on the client's word alone: there are at most
\* as many submissions of a stop ticket as confirmed replies about it, whatever
\* is declined, expired, rejected on the way or fails in between
\* (orders.py 85-103, 137; risk.py 52-54).
StopsNeedConfirmation ==
    \A ticket \in Tickets :
        ticket.type \in StopTypes =>
            Cardinality(Logged({"order_submitted"}, ticket))
                <= Cardinality(Logged({"order_confirmed"}, ticket))

Answers(r) ==
    {i \in DOMAIN log : /\ log[i].type \in {"order_confirmed", "order_confirmation_declined"}
                        /\ log[i].ref = r}

\* A reply id is answered at most once, and not at all while it is pending, so
\* one question never submits two orders (orders.py 118-134).
RepliesAnsweredOnce ==
    \A r \in 1..replies :
        /\ \A i, j \in Answers(r) : i = j
        /\ r \in DOMAIN pending => Answers(r) = {}

\* "Order confirmation expired." (orders.py 125-127): no question is confirmed
\* more than ConfirmTTL after it was asked.
NoStaleConfirmation ==
    \A i, j \in DOMAIN log :
        /\ log[i].type = "order_confirmation_required"
        /\ log[j].type = "order_confirmed"
        /\ log[i].ref = log[j].ref
        => log[j].ts - log[i].ts <= ConfirmTTL

AllInNow(order) ==
    LET quote == market[order.ticket.conid] IN
    quote # NoQuote /\ AllIn(order.ticket, NetLiq(order.account), quote)

\* No order enters the book that would commit the account at the prices of that
\* moment, also when a confirmation given earlier waives the warnings
\* (orders.py 75-84, 137; risk.py 35-46).
GuardrailOnSubmit ==
    [][\A o \in DOMAIN orders' \ DOMAIN orders : ~AllInNow(orders'[o])]_vars

\* "All-in sizing is blocked by simulator risk guardrails." (risk.py 37): the
\* same for every ticket an order in the book is given.
GuardrailOnEveryTicket ==
    [][\A o \in DOMAIN orders' :
          \/ o \in DOMAIN orders /\ orders'[o].ticket = orders[o].ticket
          \/ ~AllInNow(orders'[o])]_vars

\* A fill attempt that got its quote never leaves an immediate-or-cancel order
\* working (orders.py 188-194, 214).
IOCNeverRests ==
    [][\A t \in Threads :
          LET call == calls[t] IN
          /\ call.step = "fill" /\ calls'[t] # call
          /\ call.ticket.tif = "IOC" /\ market[call.ticket.conid] # NoQuote
          => orders'[call.order].status \in {"Filled", "Cancelled"}]_vars

\* The book entry of each order is a life of OrderLifecycle (serial use).
Lifecycle == INSTANCE OrderLifecycle WITH
    Quantities <- {t.quantity : t \in Tickets},
    book <- [o \in DOMAIN orders |->
                [open |-> IsOpen(o), filled |-> orders[o].filled,
                 quantity |-> orders[o].ticket.quantity]]

\* An order that is filled or cancelled never changes again, a trade never
\* exceeds what its order has left, and what is filled stays filled
\* (orders.py 196-216, 235, 247).
LifecycleKept == Lifecycle!Spec

\* Cash and positions move only with a booked trade, both by its amounts, in any
\* interleaving of calls (orders.py 209-217, accounts.py 53-73).
LedgerKept == Ledger!Spec

\* Every call comes to an end, whatever the market data provider answers and the
\* other threads do (orders.py 74-104).
CallsReturn == \A t \in Threads : ~IsIdle(t) ~> IsIdle(t)

===============================================================================
