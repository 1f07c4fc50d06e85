----------------------------- MODULE OrdersProofs -----------------------------
(***************************************************************************)
(* Proofs about the order service, for any number of threads, accounts,     *)
(* contracts, tickets and quotes: its types, its pure rules, the ledger it  *)
(* implements, and that every confirmation reply is answered once.  Then    *)
(* what its books say, also of the service as a process with two front ends *)
(* that is started again and again: money and shares balance, stops are     *)
(* confirmed, counters are what was executed, the event file tells the      *)
(* book.  With one caller at a time, what remains of an order is right and  *)
(* its life is one of OrderLifecycle.                                       *)
(***************************************************************************)
EXTENDS OrderProcess, CommonTheorems

-------------------------------------------------------------------------------
(* The pure rules                                                            *)

LEMMA TicketFields ==
    ASSUME NEW t \in Tickets
    PROVE  /\ t.conid \in Conids /\ t.side \in Sides /\ t.type \in OrderTypes
           /\ t.quantity \in Nat /\ t.quantity > 0
           /\ t.price \in Nat \cup {None}
           /\ t.type \in LimitTypes => t.price \in Nat
<1>1. t \in WellFormedTickets(Conids)
      BY OrdersAssumption
<1>2. /\ t.conid \in Conids /\ t.side \in Sides /\ t.type \in OrderTypes
      /\ t.quantity \in Nat \ {0} /\ t.price \in Nat \cup {None}
      /\ t.type \in LimitTypes => t.price # None
      BY <1>1 DEF WellFormedTickets
<1> QED BY <1>2

LEMMA QuoteFields ==
    ASSUME NEW q \in Quotes
    PROVE  /\ q.bid \in Nat /\ q.ask \in Nat /\ q.last \in Nat
           /\ q.bidSize \in Nat /\ q.askSize \in Nat
BY OrdersAssumption DEF QuoteRecords

\* The price of a fill is a price, and never worse than the ticket's limit: a
\* buyer pays at most it, a seller gets at least it (orders.py 171-186).
THEOREM FillPriceWithinLimit ==
    ASSUME NEW t \in Tickets, NEW q \in Quotes, Executes(t, q)
    PROVE  /\ FillPrice(t, q) \in Nat
           /\ t.type \in LimitTypes /\ t.side = "BUY"  => FillPrice(t, q) <= t.price
           /\ t.type \in LimitTypes /\ t.side = "SELL" => FillPrice(t, q) >= t.price
<1>1. t.side \in {"BUY", "SELL"} /\ q.bid \in Nat /\ q.ask \in Nat
      BY TicketFields, QuoteFields DEF Sides
<1>2. CASE t.type \notin LimitTypes
      BY <1>1, <1>2 DEF FillPrice, Touch
<1>3. CASE t.type \in LimitTypes
  <2>1. t.price \in Nat
        BY <1>3, TicketFields
  <2>2. CASE t.side = "BUY"
        BY <1>1, <1>3, <2>1, <2>2 DEF FillPrice, Touch, Smaller
  <2>3. CASE t.side = "SELL"
        BY <1>1, <1>3, <2>1, <2>3 DEF FillPrice, Touch, Larger
  <2> QED BY <1>1, <2>2, <2>3
<1> QED BY <1>2, <1>3

\* A fill is never larger than what the order has left, and never empty while
\* something is left, also when the quote shows no size (orders.py 196).
THEOREM FillQuantityBounds ==
    ASSUME NEW t \in Tickets, NEW q \in Quotes, NEW remaining \in Nat
    PROVE  /\ FillQuantity(remaining, t, q) \in 0..remaining
           /\ remaining > 0 => FillQuantity(remaining, t, q) > 0
BY TicketFields, QuoteFields
   DEF FillQuantity, Smaller, Larger, VisibleSize, Sides

LEMMA CommissionType ==
    ASSUME NEW quantity \in Nat, NEW price \in Nat
    PROVE  EstimateCommission(quantity, price) \in Nat
<1>1. Dollar \in Nat
      BY DollarAssumption
<1>2. quantity * Dollar \in Nat /\ quantity * price \in Nat
      BY <1>1
<1>3. (quantity * Dollar) \div 200 \in Nat /\ (quantity * price) \div 100 \in Nat
      BY <1>2
<1> QED BY <1>1, <1>3 DEF EstimateCommission, Larger, Smaller

-------------------------------------------------------------------------------
(* Types of what the steps build                                             *)

EventTypes == OrderEvents \cup ReplyEvents \cup {"order_rejected"}

LEMMA EventType ==
    ASSUME NEW type \in EventTypes, NEW ref \in Nat, NEW ticket \in Tickets, now \in Nat
    PROVE  Event(type, ref, ticket) \in Events
BY DEF Event, Events, EventTypes

LEMMA IdleFits ==
    ASSUME NEW a \in Accounts, NEW n \in Nat
    PROVE  CallFits(Idle(a), n)
<1>1. Idle(a) \in Calls
      BY EmptySeq DEF Idle, Calls
<1> QED BY <1>1 DEF CallFits, Idle

LEMMA NextTicketFits ==
    ASSUME NEW call \in Calls, NEW rest \in Seq(Tickets), NEW n \in Nat
    PROVE  CallFits(NextTicket(call, rest), n)
<1>1. CASE rest = <<>>
  <2>1. call.account \in Accounts
        BY DEF Calls
  <2> QED BY <1>1, <2>1, IdleFits DEF NextTicket
<1>2. CASE rest # <<>>
  <2> DEFINE next == [call EXCEPT !.step = "check", !.todo = rest, !.order = 0,
                                  !.ticket = NoTicket]
  <2>1. next \in Calls /\ next.step = "check" /\ next.todo = rest
        BY DEF Calls
  <2>2. NextTicket(call, rest) = next
        BY <1>2 DEF NextTicket
  <2> QED BY <1>2, <2>1, <2>2 DEF CallFits
<1> QED BY <1>1, <1>2

\* One thread moves on while the book does not shrink.
LEMMA GotoKeepsCalls ==
    ASSUME NEW t \in Threads, NEW call, CallsOK, Goto(t, call),
           Len(orders) \in Nat, Len(orders') \in Nat, Len(orders) <= Len(orders'),
           CallFits(call, Len(orders'))
    PROVE  CallsOK'
<1>1. call \in Calls
      BY DEF CallFits
<1>2. calls' \in [Threads -> Calls]
      BY <1>1 DEF CallsOK, Goto
<1>3. ASSUME NEW u \in Threads
      PROVE  CallFits(calls'[u], Len(orders'))
  <2>1. CASE u = t
        BY <2>1 DEF Goto, CallsOK
  <2>2. CASE u # t
    <3>1. calls'[u] = calls[u] /\ CallFits(calls[u], Len(orders))
          BY <2>2 DEF Goto, CallsOK
    <3> QED BY <3>1 DEF CallFits
  <2> QED BY <2>1, <2>2
<1> QED BY <1>2, <1>3 DEF CallsOK

LEMMA CallsKept ==
    ASSUME CallsOK, UNCHANGED calls,
           Len(orders) \in Nat, Len(orders') \in Nat, Len(orders) <= Len(orders')
    PROVE  CallsOK'
<1>1. ASSUME NEW u \in Threads
      PROVE  CallFits(calls'[u], Len(orders'))
  <2>1. CallFits(calls[u], Len(orders)) /\ calls'[u] = calls[u]
        BY DEF CallsOK
  <2> QED BY <2>1 DEF CallFits
<1> QED BY <1>1 DEF CallsOK

LEMMA AfterFillType ==
    ASSUME NEW order \in OrderStates, NEW ticket \in Tickets,
           NEW qty \in Nat, NEW price \in Nat
    PROVE  AfterFill(order, ticket, qty, price) \in OrderStates
<1>1. ticket.quantity \in Nat
      BY TicketFields
<1> DEFINE filled == order.filled + qty
           remaining == Larger(0, ticket.quantity - filled)
<1>2. order.filled \in Nat /\ order.cost \in Nat /\ qty * price \in Nat
      BY DEF OrderStates
<1>3. filled \in Nat /\ remaining \in Nat
      BY <1>1, <1>2 DEF Larger
<1> DEFINE status == StatusAfter(remaining, ticket.tif)
           cost == order.cost + qty * price
<1>4. status \in Statuses
      BY DEF StatusAfter, Statuses
<1>5. cost \in Nat
      BY <1>2
<1>6. AfterFill(order, ticket, qty, price)
        = [order EXCEPT !.filled = filled, !.cost = cost, !.remaining = remaining,
                        !.status = status]
      BY DEF AfterFill
<1> HIDE DEF filled, remaining, status, cost
<1> QED BY <1>3, <1>4, <1>5, <1>6 DEF OrderStates

-------------------------------------------------------------------------------
(* Type correctness, one lemma per action                                    *)

LEMMA InitType == Init => TypeOK
<1> SUFFICES ASSUME Init PROVE TypeOK
    OBVIOUS
<1>1. orders \in Seq(OrderStates) /\ executions \in Seq(Executions) /\ log \in Seq(Events)
      BY EmptySeq DEF Init
<1>2. DOMAIN pending = {} /\ pending \in [DOMAIN pending -> Confirmations]
      BY DEF Init
<1>3. DataOK
      BY <1>1, <1>2, OrdersAssumption DEF Init, DataOK
<1>4. Len(orders) \in Nat
      BY <1>1, LenProperties
<1>5. CallsOK
  <2>1. PICK a \in Accounts : calls = [t \in Threads |-> Idle(a)]
        BY DEF Init
  <2>2. CallFits(Idle(a), Len(orders))
        BY <1>4, IdleFits
  <2> QED BY <2>1, <2>2 DEF CallsOK, CallFits
<1> QED BY <1>3, <1>5 DEF TypeOK

\* The account a call works for.
LEMMA CallFields ==
    ASSUME TypeOK, NEW t \in Threads
    PROVE  /\ Len(orders) \in Nat /\ DOMAIN orders = 1..Len(orders)
           /\ CallFits(calls[t], Len(orders))
           /\ calls[t] \in Calls /\ calls[t].account \in Accounts
           /\ calls[t].todo \in Seq(Tickets) /\ calls[t].bypass \in BOOLEAN
           /\ CallFits(Idle(calls[t].account), Len(orders))
<1>1. Len(orders) \in Nat /\ DOMAIN orders = 1..Len(orders)
      BY LenProperties DEF TypeOK, DataOK
<1>2. CallFits(calls[t], Len(orders)) /\ calls[t] \in Calls
      BY DEF TypeOK, CallsOK, CallFits
<1>3. calls[t].account \in Accounts /\ calls[t].todo \in Seq(Tickets) /\ calls[t].bypass \in BOOLEAN
      BY <1>2 DEF Calls
<1> QED BY <1>1, <1>2, <1>3, IdleFits

LEMMA QuoteFailsType ==
    ASSUME TypeOK, NEW t \in Threads, QuoteFails(t)
    PROVE  TypeOK'
<1>1. CallsOK'
      BY CallFields, GotoKeepsCalls DEF QuoteFails, Return, TypeOK
<1>2. DataOK'
      BY DEF QuoteFails, TypeOK, DataOK, books
<1> QED BY <1>1, <1>2 DEF TypeOK

LEMMA SubmitOrdersType ==
    ASSUME TypeOK, NEW t \in Threads, NEW a \in Accounts, NEW batch \in Seq(Tickets) \ {<<>>},
           SubmitOrders(t, a, batch)
    PROVE  TypeOK'
<1> DEFINE call == [Idle(a) EXCEPT !.step = "check", !.todo = batch]
<1>1. batch \in Seq(Tickets) /\ batch # <<>>
      OBVIOUS
<1>2. Idle(a) \in Calls
      BY IdleFits, CallFields DEF CallFits
<1>3. call \in Calls /\ call.step = "check" /\ call.todo = batch
      BY <1>1, <1>2 DEF Calls
<1>4. CallFits(call, Len(orders))
      BY <1>1, <1>3 DEF CallFits
<1>5. CallsOK'
      BY <1>4, CallFields, GotoKeepsCalls DEF SubmitOrders, TypeOK
<1>6. DataOK'
      BY DEF SubmitOrders, TypeOK, DataOK, books
<1> QED BY <1>5, <1>6 DEF TypeOK

\* The call goes on with the rest of its tickets.
LEMMA CheckingFields ==
    ASSUME TypeOK, NEW t \in Threads, NEW ticket, NEW quote, Checking(t, ticket, quote)
    PROVE  /\ ticket \in Tickets
           /\ Tail(calls[t].todo) \in Seq(Tickets)
BY CallFields, HeadTailProperties DEF Checking, CallFits

LEMMA RejectTicketType ==
    ASSUME TypeOK, NEW t \in Threads, RejectTicket(t)
    PROVE  TypeOK'
<1> PICK ticket \in Tickets, quote \in Quotes : RejectTicket(t)!(ticket, quote)
    BY DEF RejectTicket
<1>1. Event("order_rejected", 0, ticket) \in Events
      BY EventType DEF EventTypes, TypeOK, DataOK
<1>2. log' \in Seq(Events)
      BY <1>1, AppendProperties DEF TypeOK, DataOK
<1>3. CallsOK'
      BY CallFields, GotoKeepsCalls DEF Return, TypeOK
<1>4. DataOK'
      BY <1>2 DEF TypeOK, DataOK, books
<1> QED BY <1>3, <1>4 DEF TypeOK

LEMMA AskConfirmationType ==
    ASSUME TypeOK, NEW t \in Threads, AskConfirmation(t)
    PROVE  TypeOK'
<1> PICK ticket \in Tickets, quote \in Quotes : AskConfirmation(t)!(ticket, quote)
    BY DEF AskConfirmation
<1>1. replies' \in Nat /\ replies' = replies + 1
      BY DEF TypeOK, DataOK
<1>2. Event("order_confirmation_required", replies', ticket) \in Events
      BY <1>1, EventType DEF EventTypes, ReplyEvents, TypeOK, DataOK
<1>3. log' \in Seq(Events)
      BY <1>2, AppendProperties DEF TypeOK, DataOK
<1>4. DOMAIN pending' \subseteq 1..replies'
      BY <1>1 DEF TypeOK, DataOK
<1>5. [account |-> calls[t].account, ticket |-> ticket] \in Confirmations
      BY CallFields DEF Confirmations
<1>6. pending' \in [DOMAIN pending' -> Confirmations]
      BY <1>5 DEF TypeOK, DataOK
<1>7. CallFits(NextTicket(calls[t], Tail(calls[t].todo)), Len(orders))
      BY CallFields, CheckingFields, NextTicketFits
<1>8. CallsOK'
      BY <1>7, CallFields, GotoKeepsCalls DEF TypeOK
<1>9. DataOK'
      BY <1>1, <1>3, <1>4, <1>6 DEF TypeOK, DataOK, books
<1> QED BY <1>8, <1>9 DEF TypeOK

LEMMA AcceptTicketType ==
    ASSUME TypeOK, NEW t \in Threads, AcceptTicket(t)
    PROVE  TypeOK'
<1> PICK ticket \in Tickets, quote \in Quotes : AcceptTicket(t)!(ticket, quote)
    BY DEF AcceptTicket
<1> DEFINE id == Len(orders) + 1
           order == [account |-> calls[t].account, ticket |-> ticket,
                     status |-> "Submitted", filled |-> 0,
                     remaining |-> ticket.quantity, cost |-> 0]
           call == [calls[t] EXCEPT !.step = "fill", !.todo = Tail(calls[t].todo),
                                    !.order = id, !.ticket = ticket]
<1>1. order \in OrderStates
      BY CallFields, TicketFields DEF OrderStates, Statuses
<1>2. orders' \in Seq(OrderStates) /\ Len(orders') = Len(orders) + 1
      BY <1>1, AppendProperties DEF TypeOK, DataOK
<1>3. id \in Nat /\ Event("order_submitted", id, ticket) \in Events
  <2>1. id \in Nat
        BY CallFields
  <2>2. "order_submitted" \in EventTypes /\ now \in Nat
        BY DEF EventTypes, OrderEvents, TypeOK, DataOK
  <2> HIDE DEF id
  <2> QED BY <2>1, <2>2, EventType
<1>4. log' \in Seq(Events)
      BY <1>3, AppendProperties DEF TypeOK, DataOK
<1>5. Tail(calls[t].todo) \in Seq(Tickets)
      BY CheckingFields
<1>6. /\ call \in Calls
      /\ call.step = "fill" /\ call.order = id /\ call.ticket = ticket
  <2>1. calls[t] \in Calls
        BY CallFields
  <2> HIDE DEF id
  <2> QED BY <1>3, <1>5, <2>1 DEF Calls
<1>7. CallFits(call, Len(orders'))
      BY <1>2, <1>6, CallFields DEF CallFits
<1>8. CallsOK'
      BY <1>2, <1>7, CallFields, GotoKeepsCalls DEF TypeOK
<1>9. DataOK'
      BY <1>2, <1>4 DEF TypeOK, DataOK, books
<1> QED BY <1>8, <1>9 DEF TypeOK

\* The order and the ticket a fill works with.
LEMMA FillingFields ==
    ASSUME TypeOK, NEW t \in Threads, calls[t].step = "fill"
    PROVE  /\ calls[t].order \in 1..Len(orders) /\ calls[t].order \in Nat
           /\ orders[calls[t].order] \in OrderStates
           /\ calls[t].ticket \in Tickets
           /\ CallFits(NextTicket(calls[t], calls[t].todo), Len(orders))
<1>1. calls[t].order \in 1..Len(orders) /\ calls[t].ticket \in Tickets
      BY CallFields DEF CallFits
<1>2. calls[t].order \in Nat
      BY <1>1, CallFields
<1>3. orders[calls[t].order] \in OrderStates
      BY <1>1, ElementOfSeq DEF TypeOK, DataOK
<1>4. CallFits(NextTicket(calls[t], calls[t].todo), Len(orders))
      BY CallFields, NextTicketFits
<1> QED BY <1>1, <1>2, <1>3, <1>4

\* Changing one entry keeps the book well formed.
LEMMA BookUpdateType ==
    ASSUME NEW book \in Seq(OrderStates), NEW o \in 1..Len(book), NEW entry \in OrderStates
    PROVE  LET updated == [book EXCEPT ![o] = entry] IN
           updated \in Seq(OrderStates) /\ Len(updated) = Len(book)
BY ExceptSeq

\* Setting the status of one order keeps the book well formed.
LEMMA CloseType ==
    ASSUME TypeOK, NEW o \in 1..Len(orders)
    PROVE  Closed(o) \in Seq(OrderStates) /\ Len(Closed(o)) = Len(orders)
<1>1. orders \in Seq(OrderStates)
      BY DEF TypeOK, DataOK
<1>2. orders[o] \in OrderStates
      BY <1>1, ElementOfSeq
<1>3. [orders[o] EXCEPT !.status = "Cancelled"] \in OrderStates
      BY <1>2 DEF OrderStates, Statuses
<1> QED BY <1>1, <1>3, ExceptSeq DEF Closed

LEMMA NoFillType ==
    ASSUME TypeOK, NEW t \in Threads, NoFill(t)
    PROVE  TypeOK'
<1> DEFINE o == calls[t].order
           e == Event("order_cancelled", o, orders[o].ticket)
<1>1. /\ calls[t].step = "fill"
      /\ \/ orders' = Closed(o) /\ log' = Append(log, e)
         \/ orders' = orders /\ log' = log
      /\ Goto(t, NextTicket(calls[t], calls[t].todo))
      /\ UNCHANGED <<now, market, executions, pending, replies, books>>
      BY DEF NoFill, Filling, FillDone
<1>2. /\ o \in 1..Len(orders) /\ o \in Nat /\ orders[o] \in OrderStates
      /\ CallFits(NextTicket(calls[t], calls[t].todo), Len(orders))
      BY <1>1, FillingFields
<1>3. orders \in Seq(OrderStates) /\ log \in Seq(Events) /\ now \in Nat
      BY DEF TypeOK, DataOK
<1>4. e \in Events
  <2>1. orders[o].ticket \in Tickets
        BY <1>2 DEF OrderStates
  <2>2. "order_cancelled" \in EventTypes
        BY DEF EventTypes, OrderEvents
  <2> QED BY <1>2, <1>3, <2>1, <2>2, EventType
<1>5. Closed(o) \in Seq(OrderStates) /\ Len(Closed(o)) = Len(orders)
      BY <1>2, CloseType
<1> HIDE DEF e, o
<1>6. orders' \in Seq(OrderStates) /\ Len(orders') = Len(orders)
      BY <1>1, <1>3, <1>5
<1>7. log' \in Seq(Events)
      BY <1>1, <1>3, <1>4, AppendProperties
<1>8. CallsOK'
      BY <1>1, <1>2, <1>6, CallFields, GotoKeepsCalls DEF TypeOK
<1>9. DataOK'
      BY <1>1, <1>6, <1>7 DEF TypeOK, DataOK, books
<1> QED BY <1>8, <1>9 DEF TypeOK

\* What a fill books, and what it does to the account.
LEMMA ExecutionType ==
    ASSUME TypeOK, NEW o \in 1..Len(orders), NEW ticket \in Tickets, NEW quote \in Quotes,
           Executes(ticket, quote)
    PROVE  LET price == FillPrice(ticket, quote)
               qty == FillQuantity(orders[o].remaining, ticket, quote) IN
           /\ price \in Nat /\ qty \in Nat
           /\ [order |-> o, account |-> orders[o].account, conid |-> ticket.conid,
               side |-> ticket.side, price |-> price, qty |-> qty,
               commission |-> EstimateCommission(qty, price)] \in Executions
<1> DEFINE price == FillPrice(ticket, quote)
           qty == FillQuantity(orders[o].remaining, ticket, quote)
<1>1. orders[o] \in OrderStates /\ o \in Nat
      BY ElementOfSeq, LenProperties DEF TypeOK, DataOK
<1>2. orders[o].account \in Accounts /\ orders[o].remaining \in Nat
      BY <1>1 DEF OrderStates
<1>3. price \in Nat
      BY FillPriceWithinLimit
<1>4. qty \in Nat
  <2>1. qty \in 0..orders[o].remaining
        BY <1>2, FillQuantityBounds
  <2> HIDE DEF qty
  <2> QED BY <1>2, <2>1
<1>5. EstimateCommission(qty, price) \in Nat
      BY <1>3, <1>4, CommissionType
<1>6. ticket.conid \in Conids /\ ticket.side \in Sides
      BY TicketFields
<1> HIDE DEF price, qty
<1>7. [order |-> o, account |-> orders[o].account, conid |-> ticket.conid,
       side |-> ticket.side, price |-> price, qty |-> qty,
       commission |-> EstimateCommission(qty, price)] \in Executions
      BY <1>1, <1>2, <1>3, <1>4, <1>5, <1>6 DEF Executions
<1> QED BY <1>3, <1>4, <1>7 DEF price, qty

LEMMA ApplyExecutionType ==
    ASSUME TypeOK, NEW e \in Executions, NEW quote \in Quotes, ApplyExecution(e, quote)
    PROVE  /\ cash' \in [Accounts -> Int]
           /\ position' \in [Accounts -> [Conids -> Int]]
           /\ marketValue' \in [Accounts -> [Conids -> Int]]
<1> DEFINE held == position[e.account][e.conid] + SignedQuantity(e.side, e.qty)
<1>1. /\ e.account \in Accounts /\ e.conid \in Conids
      /\ e.qty \in Nat /\ e.price \in Nat /\ e.commission \in Nat
      BY DEF Executions
<1>2. e.qty * e.price \in Int
      BY <1>1
<1>3. CashDelta(e.side, e.qty, e.price, e.commission) \in Int
      BY <1>1, <1>2 DEF CashDelta
<1>4. held \in Int
  <2>1. position[e.account][e.conid] \in Int
        BY <1>1 DEF TypeOK, DataOK
  <2>2. SignedQuantity(e.side, e.qty) \in Int
        BY <1>1 DEF SignedQuantity
  <2> QED BY <2>1, <2>2
<1>5. quote.last \in Int /\ Multiplier[e.conid] \in Int
      BY <1>1, QuoteFields, OrdersAssumption
<1>6. held * quote.last * Multiplier[e.conid] \in Int
      BY <1>4, <1>5
<1>7. cash' \in [Accounts -> Int]
      BY <1>1, <1>3 DEF ApplyExecution, TypeOK, DataOK
<1>8. position' \in [Accounts -> [Conids -> Int]]
      BY <1>1, <1>4 DEF ApplyExecution, TypeOK, DataOK
<1>9. marketValue' \in [Accounts -> [Conids -> Int]]
      BY <1>1, <1>6 DEF ApplyExecution, TypeOK, DataOK
<1> QED BY <1>7, <1>8, <1>9

LEMMA FillType ==
    ASSUME TypeOK, NEW t \in Threads, Fill(t)
    PROVE  TypeOK'
<1>1. PICK quote \in Quotes : Fill(t)!(quote)
      BY DEF Fill
<1> DEFINE o == calls[t].order
           ticket == calls[t].ticket
           price == FillPrice(ticket, quote)
           qty == FillQuantity(orders[o].remaining, ticket, quote)
           e == [order |-> o, account |-> orders[o].account, conid |-> ticket.conid,
                 side |-> ticket.side, price |-> price, qty |-> qty,
                 commission |-> EstimateCommission(qty, price)]
           entry == AfterFill(orders[o], ticket, qty, price)
           event == Event("order_filled", o, ticket)
<1>2. /\ calls[t].step = "fill" /\ Executes(ticket, quote)
      /\ executions' = Append(executions, e)
      /\ orders' = [orders EXCEPT ![o] = entry]
      /\ ApplyExecution(e, quote)
      /\ log' = Append(log, event)
      /\ Goto(t, NextTicket(calls[t], calls[t].todo))
      /\ UNCHANGED <<now, market, pending, replies>>
      BY <1>1 DEF Filling, FillDone
<1>3. /\ o \in 1..Len(orders) /\ o \in Nat /\ orders[o] \in OrderStates
      /\ ticket \in Tickets
      /\ CallFits(NextTicket(calls[t], calls[t].todo), Len(orders))
      BY <1>2, FillingFields
<1>4. price \in Nat /\ qty \in Nat /\ e \in Executions
      BY <1>2, <1>3, ExecutionType
<1>5. entry \in OrderStates
      BY <1>3, <1>4, AfterFillType
<1>6. event \in Events
  <2>1. "order_filled" \in EventTypes /\ now \in Nat
        BY DEF EventTypes, OrderEvents, TypeOK, DataOK
  <2> QED BY <1>3, <2>1, EventType
<1>7. orders \in Seq(OrderStates) /\ log \in Seq(Events) /\ executions \in Seq(Executions)
      BY DEF TypeOK, DataOK
<1> HIDE DEF o, ticket, price, qty, e, entry, event
<1>8. orders' \in Seq(OrderStates) /\ Len(orders') = Len(orders)
      BY <1>2, <1>3, <1>5, <1>7, BookUpdateType
<1>9. executions' \in Seq(Executions) /\ log' \in Seq(Events)
      BY <1>2, <1>4, <1>6, <1>7, AppendProperties
<1>10. /\ cash' \in [Accounts -> Int]
       /\ position' \in [Accounts -> [Conids -> Int]]
       /\ marketValue' \in [Accounts -> [Conids -> Int]]
       BY <1>2, <1>4, ApplyExecutionType
<1>11. CallsOK'
       BY <1>2, <1>3, <1>8, CallFields, GotoKeepsCalls DEF TypeOK
<1>12. DataOK'
       BY <1>2, <1>8, <1>9, <1>10 DEF TypeOK, DataOK
<1> QED BY <1>11, <1>12 DEF TypeOK

\* Forgetting a reply keeps the others.
LEMMA AnswerType ==
    ASSUME TypeOK, NEW r \in DOMAIN pending, Answer(r)
    PROVE  /\ DOMAIN pending' \subseteq 1..replies
           /\ pending' \in [DOMAIN pending' -> Confirmations]
           /\ r \in Nat /\ pending[r] \in Confirmations
           /\ pending[r].account \in Accounts /\ pending[r].ticket \in Tickets
<1>1. /\ replies \in Nat /\ DOMAIN pending \subseteq 1..replies
      /\ pending \in [DOMAIN pending -> Confirmations]
      BY DEF TypeOK, DataOK
<1>2. pending' = [s \in DOMAIN pending \ {r} |-> pending[s]]
      BY DEF Answer, Restrict
<1>3. /\ DOMAIN pending' \subseteq 1..replies
      /\ pending' \in [DOMAIN pending' -> Confirmations]
      BY <1>1, <1>2
<1>4. r \in Nat /\ pending[r] \in Confirmations
      BY <1>1
<1> QED BY <1>3, <1>4 DEF Confirmations

LEMMA ExpireReplyType ==
    ASSUME TypeOK, NEW t \in Threads, NEW r \in DOMAIN pending, ExpireReply(t, r)
    PROVE  TypeOK'
<1>1. CallsOK'
      BY CallFields, CallsKept DEF ExpireReply, TypeOK
<1>2. DataOK'
      BY AnswerType DEF ExpireReply, TypeOK, DataOK, books
<1> QED BY <1>1, <1>2 DEF TypeOK

LEMMA ReplyEventType ==
    ASSUME TypeOK, NEW r \in DOMAIN pending, Answer(r),
           NEW type \in ReplyEvents, log' = Append(log, Event(type, r, pending[r].ticket))
    PROVE  log' \in Seq(Events)
<1>1. type \in EventTypes /\ now \in Nat /\ log \in Seq(Events)
      BY DEF EventTypes, TypeOK, DataOK
<1>2. Event(type, r, pending[r].ticket) \in Events
      BY <1>1, AnswerType, EventType
<1> QED BY <1>1, <1>2, AppendProperties

LEMMA DeclineReplyType ==
    ASSUME TypeOK, NEW t \in Threads, NEW r \in DOMAIN pending, DeclineReply(t, r)
    PROVE  TypeOK'
<1>1. CallsOK'
      BY CallFields, CallsKept DEF DeclineReply, TypeOK
<1>2. log' \in Seq(Events)
      BY ReplyEventType DEF DeclineReply, ReplyEvents
<1>3. DataOK'
      BY <1>2, AnswerType DEF DeclineReply, TypeOK, DataOK, books
<1> QED BY <1>1, <1>3 DEF TypeOK

LEMMA ConfirmReplyType ==
    ASSUME TypeOK, NEW t \in Threads, NEW r \in DOMAIN pending, ConfirmReply(t, r)
    PROVE  TypeOK'
<1> DEFINE todo == <<pending[r].ticket>>
           call == [Idle(pending[r].account) EXCEPT
                       !.step = "check", !.todo = todo, !.bypass = TRUE]
<1>1. Answer(r) /\ Goto(t, call) /\ UNCHANGED orders
      BY DEF ConfirmReply
<1>2. pending[r].account \in Accounts /\ pending[r].ticket \in Tickets
      BY <1>1, AnswerType
<1>3. todo \in Seq(Tickets) /\ todo # <<>>
      BY <1>2
<1>4. Idle(pending[r].account) \in Calls
      BY <1>2, IdleFits, CallFields DEF CallFits
<1> HIDE DEF todo
<1>5. call \in Calls /\ call.step = "check" /\ call.todo = todo
      BY <1>3, <1>4 DEF Calls
<1>6. CallFits(call, Len(orders))
      BY <1>3, <1>5 DEF CallFits
<1> HIDE DEF call
<1>7. CallsOK'
      BY <1>1, <1>6, CallFields, GotoKeepsCalls DEF TypeOK
<1>8. log' \in Seq(Events)
      BY ReplyEventType DEF ConfirmReply, ReplyEvents
<1>9. DataOK'
      BY <1>8, AnswerType DEF ConfirmReply, TypeOK, DataOK, books
<1> QED BY <1>7, <1>9 DEF TypeOK

LEMMA CancelOrderType ==
    ASSUME TypeOK, NEW t \in Threads, NEW o \in DOMAIN orders, CancelOrder(t, o)
    PROVE  TypeOK'
<1> DEFINE event == Event("order_cancelled", o, orders[o].ticket)
<1>1. /\ orders' = Closed(o) /\ log' = Append(log, event)
      /\ UNCHANGED <<now, market, executions, pending, replies, books, calls>>
      BY DEF CancelOrder
<1>2. o \in 1..Len(orders) /\ o \in Nat
      BY CallFields
<1>3. orders \in Seq(OrderStates) /\ log \in Seq(Events) /\ now \in Nat
      BY DEF TypeOK, DataOK
<1>4. event \in Events
  <2>0. orders[o] \in OrderStates
        BY <1>2, <1>3, ElementOfSeq
  <2>1. orders[o].ticket \in Tickets
        BY <2>0 DEF OrderStates
  <2>2. "order_cancelled" \in EventTypes
        BY DEF EventTypes, OrderEvents
  <2> QED BY <1>2, <1>3, <2>1, <2>2, EventType
<1> HIDE DEF event
<1>5. orders' \in Seq(OrderStates) /\ Len(orders') = Len(orders)
      BY <1>1, <1>2, CloseType
<1>6. log' \in Seq(Events)
      BY <1>1, <1>3, <1>4, AppendProperties
<1>7. CallsOK'
      BY <1>1, <1>5, CallFields, CallsKept DEF TypeOK
<1>8. DataOK'
      BY <1>1, <1>5, <1>6 DEF TypeOK, DataOK, books
<1> QED BY <1>7, <1>8 DEF TypeOK

LEMMA ReplaceOrderType ==
    ASSUME TypeOK, NEW t \in Threads, NEW o \in DOMAIN orders, NEW ticket \in Tickets,
           ReplaceOrder(t, o, ticket)
    PROVE  TypeOK'
<1> DEFINE entry == Amended(orders[o], ticket)
           event == Event("order_replaced", o, ticket)
           call == [Idle(orders[o].account) EXCEPT
                       !.step = "fill", !.order = o, !.ticket = ticket]
<1>1. o \in 1..Len(orders) /\ o \in Nat
      BY CallFields
<1>2. orders \in Seq(OrderStates) /\ log \in Seq(Events) /\ now \in Nat
      BY DEF TypeOK, DataOK
<1>3. orders[o] \in OrderStates
      BY <1>1, <1>2, ElementOfSeq
<1>4. entry \in OrderStates
  <2>1. ticket.quantity \in Nat /\ orders[o].filled \in Nat
        BY <1>3, TicketFields DEF OrderStates
  <2>2. Larger(0, ticket.quantity - orders[o].filled) \in Nat
        BY <2>1 DEF Larger
  <2> QED BY <1>3, <2>2 DEF OrderStates, Amended
<1>5. event \in Events
  <2>1. "order_replaced" \in EventTypes
        BY DEF EventTypes, OrderEvents
  <2> QED BY <1>1, <1>2, <2>1, EventType
<1>6. call \in Calls /\ call.step = "fill" /\ call.order = o /\ call.ticket = ticket
  <2>1. orders[o].account \in Accounts
        BY <1>3 DEF OrderStates
  <2>2. Idle(orders[o].account) \in Calls
        BY <1>1, <2>1, IdleFits DEF CallFits
  <2> QED BY <1>1, <2>2 DEF Calls
<1>7. /\ orders' = [orders EXCEPT ![o] = entry]
      /\ log' = Append(log, event) /\ Goto(t, call)
      /\ UNCHANGED <<now, market, executions, pending, replies, books>>
  <2> HIDE DEF entry, event, call
  <2>1. orders' = [orders EXCEPT ![o] = Amended(orders[o], ticket)]
        BY DEF ReplaceOrder
  <2>2. log' = Append(log, Event("order_replaced", o, ticket))
        BY DEF ReplaceOrder
  <2>3. Goto(t, [Idle(orders[o].account) EXCEPT
                   !.step = "fill", !.order = o, !.ticket = ticket])
        BY DEF ReplaceOrder
  <2>4. UNCHANGED <<now, market, executions, pending, replies, books>>
        BY DEF ReplaceOrder
  <2> QED BY <2>1, <2>2, <2>3, <2>4 DEF entry, event, call
<1> HIDE DEF entry, event, call
<1>8. orders' \in Seq(OrderStates) /\ Len(orders') = Len(orders)
      BY <1>1, <1>2, <1>4, <1>7, BookUpdateType
<1>9. log' \in Seq(Events)
      BY <1>2, <1>5, <1>7, AppendProperties
<1>10. CallFits(call, Len(orders'))
       BY <1>1, <1>6, <1>8 DEF CallFits
<1>11. CallsOK'
       BY <1>7, <1>8, <1>10, CallFields, GotoKeepsCalls DEF TypeOK
<1>12. DataOK'
       BY <1>7, <1>8, <1>9 DEF TypeOK, DataOK, books
<1> QED BY <1>11, <1>12 DEF TypeOK

LEMMA MarkToMarketType ==
    ASSUME TypeOK, NEW a \in Accounts, MarkToMarket(a)
    PROVE  TypeOK'
<1>1. ASSUME NEW c \in Held(a)
      PROVE  position[a][c] * market[c].last \in Int
  <2>1. c \in Conids /\ market[c] \in Quotes
        BY DEF MarkToMarket, Held, TypeOK, DataOK
  <2>2. position[a][c] \in Int /\ market[c].last \in Int
        BY <2>1, QuoteFields DEF TypeOK, DataOK
  <2> QED BY <2>2
<1>2. marketValue' \in [Accounts -> [Conids -> Int]]
      BY <1>1 DEF MarkToMarket, TypeOK, DataOK
<1>3. Len(orders) \in Nat
      BY LenProperties DEF TypeOK, DataOK
<1>4. CallsOK'
      BY <1>3, CallsKept DEF MarkToMarket, TypeOK
<1>5. DataOK'
      BY <1>2 DEF MarkToMarket, TypeOK, DataOK
<1> QED BY <1>4, <1>5 DEF TypeOK

LEMMA NextType == TypeOK /\ [Next]_vars => TypeOK'
<1> SUFFICES ASSUME TypeOK, [Next]_vars PROVE TypeOK'
    OBVIOUS
<1>1. ASSUME NEW t \in Threads, Proceed(t)
      PROVE  TypeOK'
      BY <1>1, QuoteFailsType, RejectTicketType, AskConfirmationType, AcceptTicketType,
         NoFillType, FillType DEF Proceed
<1>2. ASSUME NEW t \in Threads, Call(t)
      PROVE  TypeOK'
      BY <1>2, OrdersAssumption, SubmitOrdersType, ExpireReplyType, DeclineReplyType, ConfirmReplyType,
         CancelOrderType, ReplaceOrderType DEF Call
<1>3. ASSUME UNCHANGED <<orders, calls>>, DataOK'
      PROVE  TypeOK'
  <2>1. ASSUME NEW t \in Threads
        PROVE  CallFits(calls'[t], Len(orders'))
        BY <1>3 DEF TypeOK, CallsOK
  <2> QED BY <1>3, <2>1 DEF TypeOK, CallsOK
<1>4. ASSUME NEW a \in Accounts, MarkToMarket(a)
      PROVE  TypeOK'
      BY <1>4, MarkToMarketType
<1>5. ASSUME NEW c \in Conids, NEW quote \in Quotes \cup {NoQuote}, MarketMoves(c, quote)
      PROVE  TypeOK'
      BY <1>3, <1>5 DEF MarketMoves, TypeOK, DataOK, books
<1>6. CASE Tick
      BY <1>3, <1>6 DEF Tick, TypeOK, DataOK, books
<1>7. CASE UNCHANGED vars
      BY <1>3, <1>7 DEF vars, TypeOK, DataOK, books
<1> QED BY <1>1, <1>2, <1>4, <1>5, <1>6, <1>7 DEF Next, Outside

\* Every reachable state is well typed, and every call in progress has what its
\* next step needs: a ticket to check, or an order of the book to fill
\* (orders.py 61-104, 139-221), with any number of threads in any interleaving.
THEOREM TypeCorrect == Spec => []TypeOK
BY InitType, NextType, PTL DEF Spec

-------------------------------------------------------------------------------
(* The ledger: only a fill moves money, and it books what it moves            *)

LEMMA InitLedger == Init => Ledger!Init
<1> SUFFICES ASSUME Init PROVE Ledger!Init
    OBVIOUS
<1>1. executions = <<>> /\ position = [a \in Accounts |-> [c \in Conids |-> 0]]
      BY DEF Init
<1> QED BY <1>1 DEF Ledger!Init

LEMMA CashOfTrade ==
    ASSUME NEW e \in Executions
    PROVE  /\ CashDelta(e.side, e.qty, e.price, e.commission)
                = 0 - Ledger!Signed(e) * e.price - e.commission
           /\ SignedQuantity(e.side, e.qty) = Ledger!Signed(e)
<1>1. e.qty \in Nat /\ e.price \in Nat /\ e.commission \in Nat
      BY DEF Executions
<1>2. (-e.qty) * e.price = -(e.qty * e.price) /\ e.qty * e.price \in Nat
      BY <1>1
<1> QED BY <1>1, <1>2 DEF CashDelta, SignedQuantity, Ledger!Signed

LEMMA FillBooksTrade ==
    ASSUME TypeOK, NEW t \in Threads, Fill(t)
    PROVE  Ledger!BookTrade
<1>1. PICK quote \in Quotes : Fill(t)!(quote)
      BY DEF Fill
<1> DEFINE o == calls[t].order
           ticket == calls[t].ticket
           price == FillPrice(ticket, quote)
           qty == FillQuantity(orders[o].remaining, ticket, quote)
           e == [order |-> o, account |-> orders[o].account, conid |-> ticket.conid,
                 side |-> ticket.side, price |-> price, qty |-> qty,
                 commission |-> EstimateCommission(qty, price)]
<1>2. /\ calls[t].step = "fill" /\ Executes(ticket, quote)
      /\ executions' = Append(executions, e)
      /\ ApplyExecution(e, quote)
      BY <1>1 DEF Filling
<1>3. e \in Executions
      BY <1>2, FillingFields, ExecutionType
<1>4. executions \in Seq(Executions)
      BY DEF TypeOK, DataOK
<1> HIDE DEF e
<1>5. /\ Len(executions') = Len(executions) + 1
      /\ executions'[Len(executions) + 1] = e
      BY <1>2, <1>3, <1>4, AppendProperties
<1>6. Ledger!Booked = e
      BY <1>5 DEF Ledger!Booked
<1>7. /\ e.account \in Accounts /\ e.conid \in Conids
      /\ e.price \in Nat /\ e.commission \in Nat /\ Ledger!Signed(e) \in Int
      BY <1>3 DEF Executions, Ledger!Signed
<1> DEFINE delta == CashDelta(e.side, e.qty, e.price, e.commission)
<1>8. cash[e.account] + delta = cash[e.account] - Ledger!Signed(e) * e.price - e.commission
  <2>1. cash[e.account] \in Int
        BY <1>7 DEF TypeOK, DataOK
  <2>2. Ledger!Signed(e) * e.price \in Int
        BY <1>7
  <2>3. delta = 0 - Ledger!Signed(e) * e.price - e.commission
        BY <1>3, CashOfTrade
  <2> HIDE DEF delta
  <2> QED BY <1>7, <2>1, <2>2, <2>3
<1>9. cash' = [cash EXCEPT ![e.account] = cash[e.account] - Ledger!Signed(e) * e.price - e.commission]
      BY <1>2, <1>8 DEF ApplyExecution
<1>10. position' = [position EXCEPT ![e.account][e.conid] = position[e.account][e.conid] + Ledger!Signed(e)]
       BY <1>2, <1>3, CashOfTrade DEF ApplyExecution
<1> QED BY <1>2, <1>5, <1>6, <1>9, <1>10 DEF Ledger!BookTrade

LEMMA NextLedger == TypeOK /\ [Next]_vars => [Ledger!BookTrade]_(Ledger!ledger)
<1> SUFFICES ASSUME TypeOK, [Next]_vars,
                    ~UNCHANGED <<executions, cash, position>>
             PROVE  Ledger!BookTrade
    BY DEF Ledger!ledger
<1>1. ASSUME NEW t \in Threads, Proceed(t)
      PROVE  Ledger!BookTrade
      BY <1>1, FillBooksTrade
      DEF Proceed, QuoteFails, RejectTicket, AskConfirmation, AcceptTicket, NoFill, books
<1>2. ~\E t \in Threads : Call(t)
      BY DEF Call, SubmitOrders, ExpireReply, DeclineReply, ConfirmReply, CancelOrder,
             ReplaceOrder, books
<1>3. ~\E a \in Accounts : MarkToMarket(a)
      BY DEF MarkToMarket
<1>4. ~\E c \in Conids, quote \in Quotes \cup {NoQuote} : MarketMoves(c, quote)
      BY DEF MarketMoves, books
<1>5. ~Tick /\ ~UNCHANGED vars
      BY DEF Tick, vars, books
<1> QED BY <1>1, <1>2, <1>3, <1>4, <1>5 DEF Next, Outside

\* The order service implements the ledger: cash and positions move only with a
\* booked trade, both by its amounts (orders.py 209-217, accounts.py 53-73).
THEOREM LedgerIsKept == Spec => LedgerKept
<1>1. Spec => []TypeOK
      BY TypeCorrect
<1>2. Spec => Ledger!Spec
      BY <1>1, InitLedger, NextLedger, PTL DEF Spec, Ledger!Spec
<1> QED BY <1>2 DEF LedgerKept

-------------------------------------------------------------------------------
(* Replies are answered once                                                 *)

AnswerTypes == {"order_confirmed", "order_confirmation_declined"}

\* A reply that has an answer in the log has been handed out and is not pending
\* any more, so it gets no second one.
AnswersFit ==
    \A i \in DOMAIN log :
        log[i].type \in AnswerTypes => log[i].ref \in 1..replies /\ log[i].ref \notin DOMAIN pending

AnswersUnique ==
    \A i, j \in DOMAIN log :
        /\ log[i].type \in AnswerTypes /\ log[j].type \in AnswerTypes
        /\ log[i].ref = log[j].ref
        => i = j

RepliesInv == AnswersFit /\ AnswersUnique

LEMMA InitReplies == Init => RepliesInv
<1> SUFFICES ASSUME Init PROVE RepliesInv
    OBVIOUS
<1>1. DOMAIN log = {}
      BY EmptySeq DEF Init
<1> QED BY <1>1 DEF RepliesInv, AnswersFit, AnswersUnique

LEMMA RepliesInvSuffices == RepliesInv => RepliesAnsweredOnce
BY DEF RepliesInv, AnswersFit, AnswersUnique, RepliesAnsweredOnce, Answers, AnswerTypes

\* A step that records no answer and forgets no question.
LEMMA NoAnswer ==
    ASSUME TypeOK, RepliesInv, NEW e \in Events, e.type \notin AnswerTypes,
           log' = log \/ log' = Append(log, e),
           replies' \in Nat, replies <= replies',
           DOMAIN pending' \subseteq DOMAIN pending \cup ((replies + 1)..replies')
    PROVE  RepliesInv'
<1>1. log \in Seq(Events) /\ replies \in Nat
      BY DEF TypeOK, DataOK
<1>2. ASSUME NEW i \in DOMAIN log', log'[i].type \in AnswerTypes
      PROVE  i \in DOMAIN log /\ log'[i] = log[i]
  <2>1. CASE log' = log
        BY <1>2, <2>1
  <2>2. CASE log' = Append(log, e)
        BY <1>1, <1>2, <2>2, AppendProperties, LenProperties
  <2> QED BY <2>1, <2>2
<1>3. AnswersFit'
      BY <1>1, <1>2 DEF RepliesInv, AnswersFit
<1>4. AnswersUnique'
      BY <1>2 DEF RepliesInv, AnswersUnique
<1> QED BY <1>3, <1>4 DEF RepliesInv

\* A step that answers a pending reply.
LEMMA OneAnswer ==
    ASSUME TypeOK, RepliesInv, NEW r \in DOMAIN pending, Answer(r), UNCHANGED replies,
           NEW e \in Events, e.ref = r, log' = Append(log, e)
    PROVE  RepliesInv'
<1>1. log \in Seq(Events) /\ replies \in Nat /\ r \in 1..replies
      BY DEF TypeOK, DataOK
<1>2. DOMAIN pending' = DOMAIN pending \ {r}
      BY DEF Answer, Restrict
<1>3. ASSUME NEW i \in DOMAIN log'
      PROVE  \/ i \in DOMAIN log /\ log'[i] = log[i]
             \/ i = Len(log) + 1 /\ log'[i] = e
      BY <1>1, AppendProperties, LenProperties
<1>4. AnswersFit'
      BY <1>1, <1>2, <1>3 DEF RepliesInv, AnswersFit
<1>5. ASSUME NEW i \in DOMAIN log', log'[i].type \in AnswerTypes, log'[i].ref = r
      PROVE  i = Len(log) + 1
      BY <1>3, <1>5 DEF RepliesInv, AnswersFit
<1>6. AnswersUnique'
      BY <1>3, <1>5 DEF RepliesInv, AnswersUnique
<1> QED BY <1>4, <1>6 DEF RepliesInv

\* A step that leaves the log and the questions alone.
LEMMA NothingAsked ==
    ASSUME RepliesInv, UNCHANGED <<log, replies>>, DOMAIN pending' \subseteq DOMAIN pending
    PROVE  RepliesInv'
BY DEF RepliesInv, AnswersFit, AnswersUnique

LEMMA ProceedReplies ==
    ASSUME TypeOK, TypeOK', RepliesInv, NEW t \in Threads, Proceed(t)
    PROVE  RepliesInv'
<1>1. replies \in Nat /\ now \in Nat /\ log \in Seq(Events)
      BY DEF TypeOK, DataOK
<1>2. CASE QuoteFails(t)
      BY <1>2, NothingAsked DEF QuoteFails
<1>3. CASE RejectTicket(t)
  <2>1. PICK ticket \in Tickets : log' = Append(log, Event("order_rejected", 0, ticket))
        BY <1>3 DEF RejectTicket
  <2> DEFINE e == Event("order_rejected", 0, ticket)
  <2>2. e \in Events /\ e.type \notin AnswerTypes
        BY <1>1, EventType DEF EventTypes, Event, AnswerTypes
  <2>3. UNCHANGED <<pending, replies>>
        BY <1>3 DEF RejectTicket
  <2> HIDE DEF e
  <2> QED BY <1>1, <2>1, <2>2, <2>3, NoAnswer DEF e
<1>4. CASE AskConfirmation(t)
  <2>1. PICK ticket \in Tickets :
            log' = Append(log, Event("order_confirmation_required", replies', ticket))
        BY <1>4 DEF AskConfirmation
  <2>2. /\ replies' = replies + 1
        /\ DOMAIN pending' = DOMAIN pending \cup {replies'}
        BY <1>4 DEF AskConfirmation
  <2> DEFINE e == Event("order_confirmation_required", replies', ticket)
  <2>3. e \in Events /\ e.type \notin AnswerTypes
        BY <1>1, <2>2, EventType DEF EventTypes, ReplyEvents, Event, AnswerTypes
  <2>4. DOMAIN pending' \subseteq DOMAIN pending \cup ((replies + 1)..replies')
        BY <1>1, <2>2
  <2> HIDE DEF e
  <2> QED BY <1>1, <2>1, <2>2, <2>3, <2>4, NoAnswer DEF e
<1>5. CASE AcceptTicket(t)
  <2>1. PICK ticket \in Tickets :
            log' = Append(log, Event("order_submitted", Len(orders) + 1, ticket))
        BY <1>5 DEF AcceptTicket
  <2> DEFINE id == Len(orders) + 1
             e == Event("order_submitted", id, ticket)
  <2>2. e \in Events /\ e.type \notin AnswerTypes
    <3>1. id \in Nat
          BY CallFields
    <3> HIDE DEF id
    <3> QED BY <1>1, <3>1, EventType DEF EventTypes, OrderEvents, Event, AnswerTypes
  <2>3. UNCHANGED <<pending, replies>>
        BY <1>5 DEF AcceptTicket
  <2> HIDE DEF e
  <2> QED BY <1>1, <2>1, <2>2, <2>3, NoAnswer DEF e
<1>6. CASE NoFill(t) \/ Fill(t)
  <2> DEFINE o == calls[t].order
  <2>1. calls[t].step = "fill" /\ UNCHANGED <<pending, replies>>
        BY <1>6 DEF NoFill, Fill, Filling
  <2>2. o \in Nat /\ orders[o] \in OrderStates /\ calls[t].ticket \in Tickets
        BY <2>1, FillingFields
  <2>3. orders[o].ticket \in Tickets
        BY <2>2 DEF OrderStates
  <2> DEFINE cancelled == Event("order_cancelled", o, orders[o].ticket)
             filled == Event("order_filled", o, calls[t].ticket)
  <2>4. cancelled \in Events /\ cancelled.type \notin AnswerTypes
        BY <1>1, <2>2, <2>3, EventType DEF EventTypes, OrderEvents, Event, AnswerTypes
  <2>5. filled \in Events /\ filled.type \notin AnswerTypes
        BY <1>1, <2>2, EventType DEF EventTypes, OrderEvents, Event, AnswerTypes
  <2>6. log' = log \/ log' = Append(log, cancelled) \/ log' = Append(log, filled)
        BY <1>6 DEF NoFill, Fill
  <2> HIDE DEF cancelled, filled
  <2> QED BY <1>1, <2>1, <2>4, <2>5, <2>6, NoAnswer
<1> QED BY <1>2, <1>3, <1>4, <1>5, <1>6 DEF Proceed

LEMMA CallReplies ==
    ASSUME TypeOK, TypeOK', RepliesInv, NEW t \in Threads, Call(t)
    PROVE  RepliesInv'
<1>1. replies \in Nat /\ now \in Nat /\ log \in Seq(Events)
      BY DEF TypeOK, DataOK
<1>2. CASE \E a \in Accounts, batch \in Batches : SubmitOrders(t, a, batch)
      BY <1>2, NothingAsked DEF SubmitOrders
<1>3. ASSUME NEW r \in DOMAIN pending, ExpireReply(t, r)
      PROVE  RepliesInv'
  <2>1. DOMAIN pending' \subseteq DOMAIN pending
        BY <1>3 DEF ExpireReply, Answer, Restrict
  <2> QED BY <1>3, <2>1, NothingAsked DEF ExpireReply
<1>4. ASSUME NEW r \in DOMAIN pending, DeclineReply(t, r) \/ ConfirmReply(t, r)
      PROVE  RepliesInv'
  <2>1. Answer(r) /\ UNCHANGED replies
        BY <1>4 DEF DeclineReply, ConfirmReply
  <2>2. PICK type \in AnswerTypes : log' = Append(log, Event(type, r, pending[r].ticket))
        BY <1>4 DEF DeclineReply, ConfirmReply, AnswerTypes
  <2> DEFINE e == Event(type, r, pending[r].ticket)
  <2>3. type \in EventTypes
        BY DEF AnswerTypes, EventTypes, ReplyEvents
  <2>4. e \in Events /\ e.ref = r
        BY <1>1, <2>1, <2>3, AnswerType, EventType DEF Event
  <2> HIDE DEF e
  <2> QED BY <2>1, <2>2, <2>4, OneAnswer DEF e
<1>5. ASSUME NEW o \in DOMAIN orders, NEW type \in {"order_cancelled", "order_replaced"},
             NEW ticket \in Tickets, log' = Append(log, Event(type, o, ticket)),
             UNCHANGED <<pending, replies>>
      PROVE  RepliesInv'
  <2> DEFINE e == Event(type, o, ticket)
  <2>1. o \in Nat
        BY CallFields
  <2>2. e \in Events /\ e.type \notin AnswerTypes
        BY <1>1, <2>1, EventType DEF EventTypes, OrderEvents, Event, AnswerTypes
  <2> HIDE DEF e
  <2> QED BY <1>1, <1>5, <2>2, NoAnswer DEF e
<1>6. ASSUME NEW o \in DOMAIN orders, CancelOrder(t, o)
      PROVE  RepliesInv'
  <2>1. orders[o] \in OrderStates
        BY CallFields, ElementOfSeq DEF TypeOK, DataOK
  <2>2. orders[o].ticket \in Tickets
        BY <2>1 DEF OrderStates
  <2> QED BY <1>5, <1>6, <2>2 DEF CancelOrder
<1>7. ASSUME NEW o \in DOMAIN orders, NEW ticket \in Tickets, ReplaceOrder(t, o, ticket)
      PROVE  RepliesInv'
      BY <1>5, <1>7 DEF ReplaceOrder
<1> QED BY <1>2, <1>3, <1>4, <1>6, <1>7 DEF Call

LEMMA NextReplies == TypeOK /\ TypeOK' /\ RepliesInv /\ [Next]_vars => RepliesInv'
<1> SUFFICES ASSUME TypeOK, TypeOK', RepliesInv, [Next]_vars PROVE RepliesInv'
    OBVIOUS
<1>1. CASE \E t \in Threads : Proceed(t) \/ Call(t)
      BY <1>1, ProceedReplies, CallReplies
<1>2. CASE UNCHANGED <<log, pending, replies>>
      BY <1>2, NothingAsked
<1> QED BY <1>1, <1>2 DEF Next, Outside, MarkToMarket, MarketMoves, Tick, vars

\* One question is never answered twice, so one confirmation never submits two
\* orders, however many threads answer it (orders.py 118-134).
THEOREM RepliesAreAnsweredOnce == Spec => []RepliesAnsweredOnce
<1>1. Spec => []RepliesInv
      BY TypeCorrect, InitReplies, NextReplies, PTL DEF Spec
<1> QED BY <1>1, RepliesInvSuffices, PTL

-------------------------------------------------------------------------------
(* What the steps may not do                                                 *)

\* Only a submission adds orders.
LEMMA BookGrowsBySubmission ==
    ASSUME Next, DOMAIN orders' # DOMAIN orders
    PROVE  \E t \in Threads : AcceptTicket(t)
<1>1. ASSUME NEW t \in Threads, Proceed(t)
      PROVE  AcceptTicket(t)
  <2>1. DOMAIN orders' = DOMAIN orders \/ AcceptTicket(t)
        BY <1>1 DEF Proceed, QuoteFails, RejectTicket, AskConfirmation, NoFill, Fill, Closed
  <2> QED BY <2>1
<1>2. ~\E t \in Threads : Call(t)
      BY DEF Call, SubmitOrders, ExpireReply, DeclineReply, ConfirmReply, CancelOrder,
             ReplaceOrder, Closed
<1> QED BY <1>1, <1>2 DEF Next, Outside, MarkToMarket, MarketMoves, Tick

\* The entry it adds has just passed the guardrail.
LEMMA SubmissionIsGuarded ==
    ASSUME TypeOK, NEW t \in Threads, AcceptTicket(t),
           NEW o \in DOMAIN orders' \ DOMAIN orders
    PROVE  ~AllInNow(orders'[o])
<1>1. orders \in Seq(OrderStates) /\ DOMAIN orders = 1..Len(orders) /\ Len(orders) \in Nat
      BY LenProperties DEF TypeOK, DataOK
<1>2. PICK ticket \in Tickets, quote \in Quotes :
          /\ Checking(t, ticket, quote)
          /\ Passes(calls[t], ticket, quote)
          /\ orders' = Append(orders,
                [account |-> calls[t].account, ticket |-> ticket, status |-> "Submitted",
                 filled |-> 0, remaining |-> ticket.quantity, cost |-> 0])
      BY DEF AcceptTicket
<1> DEFINE entry == [account |-> calls[t].account, ticket |-> ticket, status |-> "Submitted",
                     filled |-> 0, remaining |-> ticket.quantity, cost |-> 0]
<1>3. entry.ticket = ticket /\ entry.account = calls[t].account
      OBVIOUS
<1>4. quote = market[entry.ticket.conid] /\ ~AllIn(entry.ticket, NetLiq(entry.account), quote)
      BY <1>2, <1>3 DEF Checking, Passes
<1>5. orders'[o] = entry
  <2>1. orders' = Append(orders, entry)
        BY <1>2
  <2>2. entry \in OrderStates
        BY CallFields, TicketFields DEF OrderStates, Statuses
  <2> HIDE DEF entry
  <2>3. orders' \in Seq(OrderStates) /\ Len(orders') = Len(orders) + 1
        /\ orders'[Len(orders) + 1] = entry
        BY <1>1, <2>1, <2>2, AppendProperties
  <2>4. DOMAIN orders' = 1..(Len(orders) + 1)
        BY <2>3, LenProperties
  <2>5. o = Len(orders) + 1
        BY <1>1, <2>4
  <2> QED BY <2>3, <2>5
<1> HIDE DEF entry
<1> QED BY <1>4, <1>5 DEF AllInNow

\* No order enters the book that the all-in block would refuse at the prices and
\* the net liquidation of that moment, also not by a confirmation that was given
\* earlier (orders.py 75-84, 137).
THEOREM SubmissionsAreGuarded == Spec => GuardrailOnSubmit
<1>1. TypeOK /\ [Next]_vars
      => [\A o \in DOMAIN orders' \ DOMAIN orders : ~AllInNow(orders'[o])]_vars
      BY BookGrowsBySubmission, SubmissionIsGuarded
<1> QED BY <1>1, TypeCorrect, PTL DEF Spec, GuardrailOnSubmit

LEMMA NoStepLeavesIOC ==
    ASSUME TypeOK, Next, NEW t \in Threads, calls[t].step = "fill", calls'[t] # calls[t],
           calls[t].ticket.tif = "IOC", market[calls[t].ticket.conid] # NoQuote
    PROVE  orders'[calls[t].order].status \in {"Filled", "Cancelled"}
<1>1. PICK s \in Threads : Proceed(s) \/ Call(s)
      BY DEF Next, Outside, MarkToMarket, MarketMoves, Tick
<1>2. s = t
  <2>1. calls \in [Threads -> Calls]
        BY DEF TypeOK, CallsOK
  <2>2. UNCHANGED calls \/ \E call : calls' = [calls EXCEPT ![s] = call]
        BY <1>1 DEF Proceed, QuoteFails, RejectTicket, AskConfirmation, AcceptTicket, NoFill,
                    Fill, FillDone, Call, SubmitOrders, ExpireReply, DeclineReply,
                    ConfirmReply, CancelOrder, ReplaceOrder, Goto, Return
  <2> QED BY <2>1, <2>2
<1>3. NoFill(t) \/ Fill(t)
      BY <1>1, <1>2 DEF Proceed, QuoteFails, RejectTicket, AskConfirmation, AcceptTicket,
                        Checking, Call, SubmitOrders, ExpireReply, DeclineReply, ConfirmReply,
                        CancelOrder, ReplaceOrder, MayCall, IsIdle
<1> DEFINE o == calls[t].order
           ticket == calls[t].ticket
<1>4. o \in DOMAIN orders /\ orders[o] \in OrderStates
      BY FillingFields, CallFields
<1>5. CASE NoFill(t)
  <2>1. orders' = [orders EXCEPT ![o].status = "Cancelled"]
        BY <1>5 DEF NoFill, Closed
  <2> QED BY <1>4, <2>1 DEF OrderStates
<1>6. CASE Fill(t)
  <2>1. PICK qty, price : orders' = [orders EXCEPT ![o] = AfterFill(@, ticket, qty, price)]
        BY <1>6 DEF Fill
  <2>2. orders'[o] = AfterFill(orders[o], ticket, qty, price)
        BY <1>4, <2>1
  <2>3. AfterFill(orders[o], ticket, qty, price).status \in {"Filled", "Cancelled"}
        BY <1>4 DEF AfterFill, StatusAfter, OrderStates
  <2> QED BY <2>2, <2>3
<1> QED BY <1>3, <1>5, <1>6

\* A fill attempt that got its quote leaves an immediate-or-cancel order filled or
\* cancelled, also with other calls in between (orders.py 188-194, 214).
THEOREM IOCOrdersNeverRest == Spec => IOCNeverRests
<1>1. TypeOK /\ [Next]_vars
      => [\A t \in Threads :
             LET call == calls[t] IN
             /\ call.step = "fill" /\ calls'[t] # call
             /\ call.ticket.tif = "IOC" /\ market[call.ticket.conid] # NoQuote
             => orders'[call.order].status \in {"Filled", "Cancelled"}]_vars
      BY NoStepLeavesIOC
<1> QED BY <1>1, TypeCorrect, PTL DEF Spec, IOCNeverRests

-------------------------------------------------------------------------------
(* The books add up                                                          *)

\* What each trade has cost, and the shares it has brought.
Cost(trades) == [i \in DOMAIN trades |->
                    trades[i].commission + Ledger!Signed(trades[i]) * trades[i].price]
Shares(trades) == [i \in DOMAIN trades |-> Ledger!Signed(trades[i])]

OfAccount(trades, a) == {i \in DOMAIN trades : trades[i].account = a}
OfPosition(trades, a, c) == {i \in OfAccount(trades, a) : trades[i].conid = c}

\* BooksBalance with the sums as CommonTheorems knows them.
AddsUp(trades, money, held) ==
    \A a \in Accounts :
        /\ money[a] + SumOver(Cost(trades), OfAccount(trades, a)) = InitialCash
        /\ \A c \in Conids : held[a][c] = SumOver(Shares(trades), OfPosition(trades, a, c))

BooksSums == AddsUp(executions, cash, position)

LEMMA CostTotal ==
    ASSUME NEW S \in SUBSET DOMAIN executions
    PROVE  Total(LAMBDA i : executions[i].commission
                     + Ledger!Signed(executions[i]) * executions[i].price, S)
             = SumOver(Cost(executions), S)
BY ZenonT(60) DEF Total, MapThenSumSet, MapThenFoldSet, SumOver, SumFcn, SumStep, Pick, Cost

LEMMA SharesTotal ==
    ASSUME NEW S \in SUBSET DOMAIN executions
    PROVE  Total(LAMBDA i : Ledger!Signed(executions[i]), S) = SumOver(Shares(executions), S)
BY ZenonT(60) DEF Total, MapThenSumSet, MapThenFoldSet, SumOver, SumFcn, SumStep, Pick, Shares

LEMMA SumsTellBooks == BooksSums <=> BooksBalance
<1> DEFINE Mine(a) == {i \in DOMAIN executions : executions[i].account = a}
           CostOf(a) == Total(LAMBDA i : executions[i].commission
                                + Ledger!Signed(executions[i]) * executions[i].price, Mine(a))
           SharesOf(a, c) == Total(LAMBDA i : Ledger!Signed(executions[i]),
                                   {i \in Mine(a) : executions[i].conid = c})
<1>1. \A a \in Accounts : CostOf(a) = SumOver(Cost(executions), OfAccount(executions, a))
      BY CostTotal DEF OfAccount
<1>2. \A a \in Accounts, c \in Conids :
          SharesOf(a, c) = SumOver(Shares(executions), OfPosition(executions, a, c))
      BY SharesTotal DEF OfAccount, OfPosition
<1>3. BooksBalance <=> \A a \in Accounts :
                           /\ cash[a] + CostOf(a) = InitialCash
                           /\ \A c \in Conids : position[a][c] = SharesOf(a, c)
      BY Zenon DEF BooksBalance
<1> HIDE DEF CostOf, SharesOf
<1> QED BY <1>1, <1>2, <1>3 DEF BooksSums, AddsUp

LEMMA EmptyBooks ==
    AddsUp(<<>>, [a \in Accounts |-> InitialCash], [a \in Accounts |-> [c \in Conids |-> 0]])
<1> DEFINE money == [a \in Accounts |-> InitialCash]
           held == [a \in Accounts |-> [c \in Conids |-> 0]]
<1>1. \A a : OfAccount(<<>>, a) = {}
      BY EmptySeq DEF OfAccount
<1>2. \A a, c : OfPosition(<<>>, a, c) = {}
      BY <1>1 DEF OfPosition
<1>3. /\ \A a \in Accounts : money[a] + 0 = InitialCash
      /\ \A a \in Accounts, c \in Conids : held[a][c] = 0
      BY OrdersAssumption
<1>4. /\ \A a \in Accounts : SumOver(Cost(<<>>), OfAccount(<<>>, a)) = 0
      /\ \A a \in Accounts, c \in Conids : SumOver(Shares(<<>>), OfPosition(<<>>, a, c)) = 0
      BY <1>1, <1>2, SumEmpty
<1> HIDE DEF money, held
<1>5. AddsUp(<<>>, money, held)
      BY <1>3, <1>4 DEF AddsUp
<1> QED BY <1>5 DEF money, held

\* A trade is the new element of the sums it belongs to.
LEMMA TradeKeepsSums ==
    ASSUME TypeOK, TypeOK', BooksSums, Ledger!BookTrade
    PROVE  BooksSums'
<1> DEFINE n == Len(executions) + 1
           e == Ledger!Booked
<1>1. /\ executions \in Seq(Executions) /\ executions' \in Seq(Executions)
      /\ Len(executions') = n
      /\ executions' = Append(executions, e) /\ e = executions'[n]
      BY DEF TypeOK, DataOK, Ledger!BookTrade, Ledger!Booked
<1>2. /\ DOMAIN executions = 1..Len(executions) /\ DOMAIN executions' = 1..n
      /\ Len(executions) \in Nat
      BY <1>1, LenProperties
<1>3. e \in Executions
      BY <1>1, <1>2, ElementOfSeq
<1> HIDE DEF e
<1>4. \A i \in 1..Len(executions) : executions'[i] = executions[i]
      BY <1>1, <1>2, <1>3, AppendProperties
<1>5. ASSUME NEW i \in 1..Len(executions)
      PROVE  executions[i] \in Executions
      BY <1>1, ElementOfSeq
<1>6. ASSUME NEW x \in Executions
      PROVE  Ledger!Signed(x) \in Int /\ x.price \in Nat /\ x.commission \in Nat
      BY DEF Executions, Ledger!Signed
<1>7. /\ \A i \in 1..Len(executions) : /\ Cost(executions)[i] = Cost(executions')[i]
                                       /\ Cost(executions)[i] \in Int
                                       /\ Shares(executions)[i] = Shares(executions')[i]
                                       /\ Shares(executions)[i] \in Int
      BY <1>2, <1>4, <1>5, <1>6 DEF Cost, Shares
<1>8. /\ Cost(executions')[n] = e.commission + Ledger!Signed(e) * e.price
      /\ Shares(executions')[n] = Ledger!Signed(e)
      /\ Cost(executions')[n] \in Int /\ Shares(executions')[n] \in Int
      BY <1>1, <1>2, <1>3, <1>6 DEF Cost, Shares
<1>9. IsFiniteSet(1..Len(executions)) /\ n \notin 1..Len(executions)
      BY <1>2, FS_Interval
<1>10. n = Len(executions) + 1
      OBVIOUS
<1> HIDE DEF n
<1>11. ASSUME NEW a \in Accounts
       PROVE  cash'[a] + SumOver(Cost(executions'), OfAccount(executions', a)) = InitialCash
  <2> DEFINE S == OfAccount(executions, a)
             R == OfAccount(executions', a)
             f == Cost(executions)
             h == Cost(executions')
  <2>1. GrowsBy(n, S, R)
    <3>1. IsFiniteSet(S) /\ n \notin S
          BY <1>2, <1>9, FS_Subset DEF OfAccount
    <3>2. R = S \/ R = S \cup {n}
          BY <1>1, <1>2, <1>4, <1>10 DEF OfAccount
    <3> HIDE DEF S, R
    <3> QED BY <3>1, <3>2 DEF GrowsBy
  <2>2. AgreeUpTo(n, S, f, h)
        BY <1>2, <1>7, <1>8 DEF AgreeUpTo, OfAccount
  <2>3. n \in R <=> e.account = a
        BY <1>1, <1>2, <1>10 DEF OfAccount
  <2> DEFINE paid == Ledger!Signed(e) * e.price
  <2>3a. paid \in Int /\ e.commission \in Int
        BY <1>3, <1>6
  <2>3b. /\ cash \in [Accounts -> Int] /\ cash[a] \in Int
         /\ cash' = [cash EXCEPT ![e.account] = @ - paid - e.commission]
         BY DEF Ledger!BookTrade, e, TypeOK, DataOK
  <2> HIDE DEF paid
  <2>4. cash'[a] = cash[a] - (IF e.account = a THEN paid + e.commission ELSE 0)
        BY <2>3a, <2>3b
  <2>5. cash[a] + SumOver(f, S) = InitialCash /\ cash[a] \in Int
        BY DEF BooksSums, AddsUp, TypeOK, DataOK
  <2> HIDE DEF S, R, f, h
  <2>6. SumOver(f, S) \in Int
        BY <2>1, <2>2, SumGrows
  <2>7. SumOver(h, R) = SumOver(f, S) + (IF n \in R THEN h[n] ELSE 0)
        BY <2>1, <2>2, SumGrows
  <2>8. h[n] = e.commission + paid
        BY <1>8 DEF h, paid
  <2>9. SumOver(h, R) = SumOver(f, S) + (IF e.account = a THEN e.commission + paid ELSE 0)
        BY <2>3, <2>7, <2>8
  <2>10. cash'[a] + SumOver(h, R) = InitialCash
        BY <2>3a, <2>4, <2>5, <2>6, <2>9
  <2> QED BY <2>10 DEF h, R
<1>12. ASSUME NEW a \in Accounts, NEW c \in Conids
       PROVE  position'[a][c] = SumOver(Shares(executions'), OfPosition(executions', a, c))
  <2> DEFINE S == OfPosition(executions, a, c)
             R == OfPosition(executions', a, c)
             f == Shares(executions)
             h == Shares(executions')
  <2>1. GrowsBy(n, S, R)
    <3>1. IsFiniteSet(S) /\ n \notin S
          BY <1>2, <1>9, FS_Subset DEF OfPosition, OfAccount
    <3>2. R = S \/ R = S \cup {n}
          BY <1>1, <1>2, <1>4, <1>10 DEF OfPosition, OfAccount
    <3> HIDE DEF S, R
    <3> QED BY <3>1, <3>2 DEF GrowsBy
  <2>2. AgreeUpTo(n, S, f, h)
        BY <1>2, <1>7, <1>8 DEF AgreeUpTo, OfPosition, OfAccount
  <2>3. n \in R <=> e.account = a /\ e.conid = c
        BY <1>1, <1>2, <1>10 DEF OfPosition, OfAccount
  <2>4. position'[a][c] = position[a][c]
                            + (IF e.account = a /\ e.conid = c THEN Ledger!Signed(e) ELSE 0)
    <3>1. /\ position \in [Accounts -> [Conids -> Int]]
          /\ position' = [position EXCEPT ![e.account][e.conid] = @ + Ledger!Signed(e)]
          /\ position[a][c] \in Int
          BY DEF Ledger!BookTrade, e, TypeOK, DataOK
    <3> QED BY <3>1
  <2>5. position[a][c] = SumOver(f, S) /\ position[a][c] \in Int
        BY DEF BooksSums, AddsUp, TypeOK, DataOK
  <2> HIDE DEF S, R, f, h
  <2>6. SumOver(h, R) = SumOver(f, S) + (IF n \in R THEN h[n] ELSE 0)
        BY <2>1, <2>2, SumGrows
  <2>7. h[n] = Ledger!Signed(e)
        BY <1>8 DEF h
  <2>8. position'[a][c] = SumOver(h, R)
        BY <2>3, <2>4, <2>5, <2>6, <2>7
  <2> QED BY <2>8 DEF h, R
<1> QED BY <1>11, <1>12 DEF BooksSums, AddsUp

LEMMA LedgerKeepsSums ==
    ASSUME TypeOK, TypeOK', BooksSums, [Ledger!BookTrade]_(Ledger!ledger)
    PROVE  BooksSums'
<1>1. CASE Ledger!BookTrade
      BY <1>1, TradeKeepsSums
<1>2. CASE UNCHANGED <<executions, cash, position>>
      BY <1>2 DEF BooksSums, AddsUp
<1> QED BY <1>1, <1>2 DEF Ledger!ledger

LEMMA InitBooks == Init => BooksSums
BY EmptyBooks DEF Init, BooksSums

\* No money and no share appears or disappears: cash and positions are always the
\* initial ones and what the executions add up to, whatever threads interleave
\* (accounts.py 53-73, orders.py 209-217).
THEOREM BooksAlwaysBalance == Spec => []BooksBalance
<1>1. TypeOK /\ TypeOK' /\ BooksSums /\ [Next]_vars => BooksSums'
      BY NextLedger, LedgerKeepsSums
<1>2. Spec => []BooksSums
      BY <1>1, TypeCorrect, InitBooks, PTL DEF Spec
<1> QED BY <1>2, SumsTellBooks, PTL

-------------------------------------------------------------------------------
(* The process: two front ends and restarts                                  *)

\* Every step of the process is one of the service, a ticket placed over TWS, or a
\* new beginning.
LEMMA ProcessSteps ==
    ASSUME [ProcessNext]_processVars
    PROVE  \/ [Next]_vars
           \/ \E t \in Threads, a \in Accounts, ticket \in Tickets : PlaceOrder(t, a, ticket)
           \/ Restart
<1>1. ASSUME NEW t \in TwsThreads, TwsCall(t)
      PROVE  \/ Next
             \/ \E a \in Accounts, ticket \in Tickets : PlaceOrder(t, a, ticket)
  <2>1. t \in Threads
        BY OrderProcessAssumption
  <2> QED BY <1>1, <2>1 DEF TwsCall, Next, Call
<1>2. ASSUME NEW t \in Threads \ TwsThreads, WebCall(t)
      PROVE  Next
      BY <1>2 DEF WebCall, Next
<1>3. ASSUME NEW t \in Threads, Service(t)
      PROVE  Next
      BY <1>3 DEF Service, Next
<1>4. TwsThreads \subseteq Threads
      BY OrderProcessAssumption
<1> QED BY <1>1, <1>2, <1>3, <1>4 DEF ProcessNext, Next, processVars

LEMMA PlaceOrderType ==
    ASSUME TypeOK, NEW t \in Threads, NEW a \in Accounts, NEW ticket \in Tickets,
           PlaceOrder(t, a, ticket)
    PROVE  TypeOK'
<1>1. <<ticket>> \in Seq(Tickets) \ {<<>>}
      OBVIOUS
<1> QED BY <1>1, SubmitOrdersType DEF PlaceOrder

LEMMA RestartType ==
    ASSUME TypeOK, Restart
    PROVE  TypeOK'
<1>1. orders' \in Seq(OrderStates) /\ executions' \in Seq(Executions) /\ Len(orders') \in Nat
      BY EmptySeq DEF Restart
<1>2. DOMAIN pending' = {} /\ pending' \in [DOMAIN pending' -> Confirmations]
      BY DEF Restart
<1>3. DataOK'
      BY <1>1, <1>2, OrdersAssumption DEF Restart, TypeOK, DataOK
<1>4. ASSUME NEW t \in Threads
      PROVE  CallFits(Idle(calls[t].account), Len(orders')) /\ calls'[t] = Idle(calls[t].account)
      BY <1>1, CallFields, IdleFits DEF Restart
<1>5. CallsOK'
      BY <1>4 DEF Restart, CallsOK, CallFits
<1> QED BY <1>3, <1>5 DEF TypeOK

\* The process never leaves the types of the service.
THEOREM ProcessTypeCorrect == ProcessSpec => []TypeOK
<1>1. ProcessInit => TypeOK
      BY InitType DEF ProcessInit
<1>2. TypeOK /\ [ProcessNext]_processVars => TypeOK'
      BY ProcessSteps, NextType, PlaceOrderType, RestartType
<1> QED BY <1>1, <1>2, PTL DEF ProcessSpec

\* The books balance over restarts too, which empty them together with the
\* executions (accounts.py 53-73, service.py).
THEOREM BooksBalanceInEveryProcess == ProcessSpec => []BooksBalance
<1>1. ProcessInit => BooksSums
      BY InitBooks DEF ProcessInit
<1>2. TypeOK /\ TypeOK' /\ BooksSums /\ [ProcessNext]_processVars => BooksSums'
  <2>1. ASSUME BooksSums, NEW t \in Threads, NEW a \in Accounts, NEW ticket \in Tickets,
               PlaceOrder(t, a, ticket)
        PROVE  BooksSums'
        BY <2>1 DEF PlaceOrder, SubmitOrders, BooksSums, books
  <2>2. ASSUME Restart
        PROVE  BooksSums'
    <3>1. /\ executions' = <<>> /\ cash' = [a \in Accounts |-> InitialCash]
          /\ position' = [a \in Accounts |-> [c \in Conids |-> 0]]
          BY <2>2 DEF Restart
    <3> QED BY <3>1, EmptyBooks DEF BooksSums
  <2> QED BY <2>1, <2>2, ProcessSteps, NextLedger, LedgerKeepsSums
<1>3. ProcessSpec => []BooksSums
      BY <1>1, <1>2, ProcessTypeCorrect, PTL DEF ProcessSpec
<1> QED BY <1>3, SumsTellBooks, PTL

-------------------------------------------------------------------------------
(* A stop order is never submitted without a confirmation                    *)

\* A confirmed ticket is the only one of its call.
BypassOK(call) ==
    call.bypass => /\ call.step = "check" => Tail(call.todo) = <<>>
                   /\ call.step = "fill" => call.todo = <<>>

\* The call is about to submit the ticket on a confirmation already given.
Waived(call, ticket) == call.bypass /\ call.step = "check" /\ Head(call.todo) = ticket

OnTheWay(ticket) == {t \in Threads : Waived(calls[t], ticket)}

Submitted(ticket) == Logged({"order_submitted"}, ticket)
Confirmed(ticket) == Logged({"order_confirmed"}, ticket)

\* Each confirmation pays for one submission, made or on its way.
StopPaid(ticket) ==
    /\ IsFiniteSet(OnTheWay(ticket))
    /\ Cardinality(Submitted(ticket)) + Cardinality(OnTheWay(ticket))
         <= Cardinality(Confirmed(ticket))

StopsInv ==
    /\ \A t \in Threads : BypassOK(calls[t])
    /\ \A ticket \in Tickets : ticket.type \in StopTypes => StopPaid(ticket)

One(condition) == IF condition THEN 1 ELSE 0

LEMMA LoggedFinite ==
    ASSUME TypeOK, NEW types, NEW ticket
    PROVE  /\ IsFiniteSet(Logged(types, ticket))
           /\ Cardinality(Logged(types, ticket)) \in Nat
           /\ Len(log) + 1 \notin Logged(types, ticket)
<1>1. Len(log) \in Nat /\ DOMAIN log = 1..Len(log)
      BY LenProperties DEF TypeOK, DataOK
<1>2. Logged(types, ticket) \subseteq 1..Len(log)
      BY <1>1 DEF Logged
<1>3. IsFiniteSet(Logged(types, ticket))
  <2>1. IsFiniteSet(1..Len(log))
        BY <1>1, FS_Interval
  <2> QED BY <1>2, <2>1, FS_Subset
<1> QED BY <1>1, <1>2, <1>3, FS_CardinalityType

\* A new event counts where it belongs.
LEMMA LoggedGrows ==
    ASSUME TypeOK, NEW types, NEW ticket, NEW e \in Events, log' = Append(log, e)
    PROVE  Cardinality(Logged(types, ticket)')
             = Cardinality(Logged(types, ticket)) + One(e.type \in types /\ e.ticket = ticket)
<1> DEFINE n == Len(log) + 1
           S == Logged(types, ticket)
           R == Logged(types, ticket)'
<1>1. log \in Seq(Events) /\ Len(log) \in Nat /\ DOMAIN log = 1..Len(log)
      BY LenProperties DEF TypeOK, DataOK
<1>2. /\ log' \in Seq(Events) /\ Len(log') = n /\ log'[n] = e
      /\ \A i \in 1..Len(log) : log'[i] = log[i]
      BY <1>1, AppendProperties
<1>3. DOMAIN log' = 1..n
      BY <1>2, LenProperties
<1>4. IsFiniteSet(S) /\ Cardinality(S) \in Nat /\ n \notin S
      BY LoggedFinite
<1>5. CASE e.type \in types /\ e.ticket = ticket
  <2>1. R = S \cup {n}
        BY <1>1, <1>2, <1>3, <1>5 DEF Logged
  <2> HIDE DEF S, R, n
  <2>2. Cardinality(R) = Cardinality(S) + 1
        BY <1>4, <2>1, FS_AddElement
  <2> QED BY <1>5, <2>2 DEF One, R, S
<1>6. CASE ~(e.type \in types /\ e.ticket = ticket)
  <2>1. R = S
        BY <1>1, <1>2, <1>3, <1>6 DEF Logged
  <2> HIDE DEF S, R, n
  <2>2. Cardinality(R) = Cardinality(S) + 0
        BY <1>4, <2>1
  <2> QED BY <1>6, <2>2 DEF One, R, S
<1> QED BY <1>5, <1>6

\* One thread goes on with another call.
LEMMA WayMoves ==
    ASSUME TypeOK, NEW ticket, IsFiniteSet(OnTheWay(ticket)),
           NEW t \in Threads, NEW call, Goto(t, call)
    PROVE  /\ IsFiniteSet(OnTheWay(ticket)')
           /\ Cardinality(OnTheWay(ticket)) \in Nat
           /\ Cardinality(OnTheWay(ticket)')
                = Cardinality(OnTheWay(ticket)) + One(Waived(call, ticket))
                    - One(Waived(calls[t], ticket))
<1> DEFINE S == OnTheWay(ticket)
           R == OnTheWay(ticket)'
<1>1. calls'[t] = call /\ \A u \in Threads : u # t => calls'[u] = calls[u]
      BY DEF Goto, TypeOK, CallsOK
<1>2. t \in S <=> Waived(calls[t], ticket)
      BY DEF OnTheWay
<1>3. Cardinality(S) \in Nat
      BY FS_CardinalityType
<1>4. R = IF Waived(call, ticket) THEN S \cup {t} ELSE S \ {t}
      BY <1>1 DEF OnTheWay
<1> HIDE DEF S, R
<1>5. CASE Waived(call, ticket)
  <2>1. R = S \cup {t}
        BY <1>4, <1>5
  <2>2. IsFiniteSet(R) /\ Cardinality(R) = IF t \in S THEN Cardinality(S) ELSE Cardinality(S) + 1
        BY <2>1, FS_AddElement DEF S
  <2> QED BY <1>2, <1>3, <1>5, <2>2 DEF One, R, S
<1>6. CASE ~Waived(call, ticket)
  <2>1. R = S \ {t}
        BY <1>4, <1>6
  <2>2. IsFiniteSet(R) /\ Cardinality(R) = IF t \in S THEN Cardinality(S) - 1 ELSE Cardinality(S)
        BY <2>1, FS_RemoveElement DEF S
  <2> QED BY <1>2, <1>3, <1>6, <2>2 DEF One, R, S
<1> QED BY <1>5, <1>6

\* Whatever the calls and the log do, as long as a submission of a stop takes a
\* waived call off the way and only a confirmation sends one.
LEMMA StopStep ==
    ASSUME TypeOK, StopsInv, NEW t \in Threads, NEW call, BypassOK(call),
           NEW e \in Events, log' = Append(log, e),
           \/ Goto(t, call)
           \/ call = calls[t] /\ UNCHANGED calls,
           \A ticket \in Tickets :
               ticket.type \in StopTypes =>
                   One(e.type = "order_submitted" /\ e.ticket = ticket) + One(Waived(call, ticket))
                     <= One(e.type = "order_confirmed" /\ e.ticket = ticket)
                          + One(Waived(calls[t], ticket))
    PROVE  StopsInv'
<1>1. Goto(t, call)
  <2>1. CASE call = calls[t] /\ UNCHANGED calls
        BY <2>1 DEF Goto, TypeOK, CallsOK
  <2> QED BY <2>1
<1>2. ASSUME NEW u \in Threads
      PROVE  BypassOK(calls'[u])
      BY <1>1 DEF StopsInv, Goto, TypeOK, CallsOK
<1>3. ASSUME NEW ticket \in Tickets, ticket.type \in StopTypes
      PROVE  StopPaid(ticket)'
  <2> DEFINE isSubmission == e.type = "order_submitted" /\ e.ticket = ticket
             isConfirmation == e.type = "order_confirmed" /\ e.ticket = ticket
             submitted == Cardinality(Submitted(ticket))
             confirmed == Cardinality(Confirmed(ticket))
             way == Cardinality(OnTheWay(ticket))
  <2>1. StopPaid(ticket)
        BY <1>3 DEF StopsInv
  <2>2. IsFiniteSet(OnTheWay(ticket)) /\ submitted + way <= confirmed
        BY <2>1 DEF StopPaid
  <2>3. submitted \in Nat /\ confirmed \in Nat
        BY LoggedFinite DEF Submitted, Confirmed
  <2>4. Cardinality(Submitted(ticket)') = submitted + One(isSubmission)
        BY LoggedGrows DEF Submitted
  <2>5. Cardinality(Confirmed(ticket)') = confirmed + One(isConfirmation)
        BY LoggedGrows DEF Confirmed
  <2>6. /\ IsFiniteSet(OnTheWay(ticket)') /\ way \in Nat
        /\ Cardinality(OnTheWay(ticket)')
             = way + One(Waived(call, ticket)) - One(Waived(calls[t], ticket))
        BY <1>1, <2>2, WayMoves
  <2>7. One(isSubmission) + One(Waived(call, ticket))
          <= One(isConfirmation) + One(Waived(calls[t], ticket))
        BY <1>3
  <2>8. /\ One(isSubmission) \in Nat /\ One(isConfirmation) \in Nat
        /\ One(Waived(call, ticket)) \in Nat /\ One(Waived(calls[t], ticket)) \in Nat
        BY DEF One
  <2> HIDE DEF submitted, confirmed, way, isSubmission, isConfirmation
  <2>9. (submitted + One(isSubmission))
           + (way + One(Waived(call, ticket)) - One(Waived(calls[t], ticket)))
           <= confirmed + One(isConfirmation)
        BY <2>2, <2>3, <2>6, <2>7, <2>8
  <2> QED BY <2>4, <2>5, <2>6, <2>9 DEF StopPaid
<1> QED BY <1>2, <1>3 DEF StopsInv

\* A step that records nothing, or nothing that matters here, and sends no waived
\* call on its way.
LEMMA QuietStopStep ==
    ASSUME TypeOK, StopsInv, NEW t \in Threads, NEW call, ~call.bypass,
           \/ UNCHANGED log
           \/ \E e \in Events : log' = Append(log, e) /\ e.type # "order_submitted",
           \/ Goto(t, call)
           \/ UNCHANGED calls
    PROVE  StopsInv'
<1>1. CASE UNCHANGED log
  <2>1. ASSUME NEW u \in Threads
        PROVE  calls'[u] = calls[u] \/ ~calls'[u].bypass
        BY DEF Goto, TypeOK, CallsOK
  <2>2. ASSUME NEW ticket \in Tickets, ticket.type \in StopTypes
        PROVE  StopPaid(ticket)'
    <3>1. OnTheWay(ticket)' \subseteq OnTheWay(ticket)
          BY <2>1 DEF OnTheWay, Waived
    <3>2. /\ IsFiniteSet(OnTheWay(ticket))
          /\ Cardinality(Submitted(ticket)) + Cardinality(OnTheWay(ticket))
               <= Cardinality(Confirmed(ticket))
          BY <2>2 DEF StopsInv, StopPaid
    <3>3. /\ IsFiniteSet(OnTheWay(ticket)')
          /\ Cardinality(OnTheWay(ticket)') <= Cardinality(OnTheWay(ticket))
          /\ Cardinality(OnTheWay(ticket)') \in Nat /\ Cardinality(OnTheWay(ticket)) \in Nat
          BY <3>1, <3>2, FS_Subset, FS_CardinalityType
    <3>4. /\ Submitted(ticket)' = Submitted(ticket) /\ Confirmed(ticket)' = Confirmed(ticket)
          BY <1>1 DEF Submitted, Confirmed, Logged
    <3>5. Cardinality(Submitted(ticket)) \in Nat /\ Cardinality(Confirmed(ticket)) \in Nat
          BY LoggedFinite DEF Submitted, Confirmed
    <3> QED BY <3>2, <3>3, <3>4, <3>5 DEF StopPaid
  <2>3. ASSUME NEW u \in Threads
        PROVE  BypassOK(calls'[u])
        BY <2>1 DEF StopsInv, BypassOK
  <2> QED BY <2>2, <2>3 DEF StopsInv
<1>2. ASSUME NEW e \in Events, log' = Append(log, e), e.type # "order_submitted"
      PROVE  StopsInv'
  <2>1. ASSUME NEW next, ~next.bypass \/ next = calls[t]
        PROVE  /\ BypassOK(next)
               /\ \A ticket \in Tickets :
                      One(e.type = "order_submitted" /\ e.ticket = ticket)
                        + One(Waived(next, ticket))
                      <= One(e.type = "order_confirmed" /\ e.ticket = ticket)
                           + One(Waived(calls[t], ticket))
        BY <1>2, <2>1 DEF One, Waived, BypassOK, StopsInv
  <2>2. CASE Goto(t, call)
        BY <1>2, <2>1, <2>2, StopStep
  <2>3. CASE UNCHANGED calls
        BY <1>2, <2>1, <2>3, StopStep
  <2> QED BY <2>2, <2>3
<1> QED BY <1>1, <1>2

LEMMA InitStops == Init => StopsInv
<1> SUFFICES ASSUME Init PROVE StopsInv
    OBVIOUS
<1>1. \A t \in Threads : ~calls[t].bypass
      BY DEF Init, Idle
<1>2. \A ticket : OnTheWay(ticket) = {}
      BY <1>1 DEF OnTheWay, Waived
<1>3. \A ticket : Submitted(ticket) = {} /\ Confirmed(ticket) = {}
      BY EmptySeq DEF Init, Submitted, Confirmed, Logged
<1>4. \A ticket : StopPaid(ticket)
      BY <1>2, <1>3, FS_EmptySet DEF StopPaid
<1> QED BY <1>1, <1>4 DEF StopsInv, BypassOK

\* Where the call goes after a ticket or a fill.
LEMMA NextTicketBypass ==
    ASSUME NEW call \in Calls, NEW rest, ~call.bypass \/ rest = <<>>
    PROVE  ~NextTicket(call, rest).bypass
BY DEF NextTicket, Idle, Calls

LEMMA SubmissionKeepsStops ==
    ASSUME TypeOK, StopsInv, NEW t \in Threads, AcceptTicket(t)
    PROVE  StopsInv'
<1>1. PICK ticket \in Tickets, quote \in Quotes : AcceptTicket(t)!(ticket, quote)
      BY DEF AcceptTicket
<1> DEFINE id == Len(orders) + 1
           e == Event("order_submitted", id, ticket)
           call == [calls[t] EXCEPT !.step = "fill", !.todo = Tail(calls[t].todo),
                                    !.order = id, !.ticket = ticket]
<1>2. /\ calls[t].step = "check" /\ ticket = Head(calls[t].todo)
      /\ ticket.type \in StopTypes => calls[t].bypass
      /\ log' = Append(log, e) /\ Goto(t, call)
      BY <1>1 DEF Checking, Passes, RequiresConfirmation
<1>3. e \in Events /\ e.type = "order_submitted" /\ e.ticket = ticket
  <2>1. id \in Nat /\ now \in Nat /\ "order_submitted" \in EventTypes
        BY CallFields DEF TypeOK, DataOK, EventTypes, OrderEvents
  <2> HIDE DEF id
  <2> QED BY <2>1, EventType DEF Event
<1>4. calls[t] \in Calls /\ BypassOK(calls[t])
      BY CallFields DEF StopsInv
<1>5. call.step = "fill" /\ call.todo = Tail(calls[t].todo) /\ call.bypass = calls[t].bypass
      BY <1>4 DEF Calls
<1> HIDE DEF e, call
<1>6. BypassOK(call)
      BY <1>2, <1>4, <1>5 DEF BypassOK
<1>7. ASSUME NEW k \in Tickets, k.type \in StopTypes
      PROVE  One(e.type = "order_submitted" /\ e.ticket = k) + One(Waived(call, k))
               <= One(e.type = "order_confirmed" /\ e.ticket = k) + One(Waived(calls[t], k))
  <2>1. ~Waived(call, k) /\ ~(e.type = "order_confirmed")
        BY <1>3, <1>5 DEF Waived
  <2>2. e.ticket = k => Waived(calls[t], k)
        BY <1>2, <1>3, <1>7 DEF Waived
  <2> QED BY <2>1, <2>2 DEF One
<1> QED BY <1>2, <1>3, <1>6, <1>7, StopStep

LEMMA ProceedKeepsStops ==
    ASSUME TypeOK, StopsInv, NEW t \in Threads, Proceed(t)
    PROVE  StopsInv'
<1>1. calls[t] \in Calls /\ BypassOK(calls[t]) /\ ~Idle(calls[t].account).bypass
      BY CallFields DEF StopsInv, Idle
<1>2. now \in Nat /\ replies \in Nat
      BY DEF TypeOK, DataOK
<1>3. CASE QuoteFails(t)
      BY <1>1, <1>3, QuietStopStep DEF QuoteFails, Return
<1>4. CASE RejectTicket(t)
  <2>1. PICK ticket \in Tickets : log' = Append(log, Event("order_rejected", 0, ticket))
        BY <1>4 DEF RejectTicket
  <2>2. Event("order_rejected", 0, ticket) \in Events
        BY <1>2, EventType DEF EventTypes
  <2>3. Event("order_rejected", 0, ticket).type # "order_submitted"
        BY DEF Event
  <2>4. Goto(t, Idle(calls[t].account))
        BY <1>4 DEF RejectTicket, Return
  <2> QED BY <1>1, <2>1, <2>2, <2>3, <2>4, QuietStopStep
<1>5. CASE AskConfirmation(t)
  <2>1. PICK ticket \in Tickets :
            log' = Append(log, Event("order_confirmation_required", replies', ticket))
        BY <1>5 DEF AskConfirmation
  <2> DEFINE e == Event("order_confirmation_required", replies', ticket)
             call == NextTicket(calls[t], Tail(calls[t].todo))
  <2>2. e \in Events
    <3>1. replies' \in Nat
          BY <1>2, <1>5 DEF AskConfirmation
    <3> QED BY <1>2, <3>1, EventType DEF EventTypes, ReplyEvents
  <2>3. e.type # "order_submitted"
        BY DEF Event
  <2>4. Goto(t, call) /\ ~calls[t].bypass
        BY <1>5 DEF AskConfirmation
  <2>5. ~call.bypass
        BY <1>1, <2>4, NextTicketBypass
  <2> HIDE DEF call
  <2> QED BY <2>1, <2>2, <2>3, <2>4, <2>5, QuietStopStep
<1>6. CASE AcceptTicket(t)
      BY <1>6, SubmissionKeepsStops
<1>7. CASE NoFill(t) \/ Fill(t)
  <2> DEFINE o == calls[t].order
             call == NextTicket(calls[t], calls[t].todo)
  <2>1. calls[t].step = "fill" /\ Goto(t, call)
        BY <1>7 DEF NoFill, Fill, Filling, FillDone
  <2>2. ~call.bypass
        BY <1>1, <2>1, NextTicketBypass DEF BypassOK
  <2>3. o \in Nat /\ orders[o].ticket \in Tickets /\ calls[t].ticket \in Tickets
        BY <2>1, FillingFields DEF OrderStates
  <2> DEFINE cancelled == Event("order_cancelled", o, orders[o].ticket)
             filled == Event("order_filled", o, calls[t].ticket)
  <2>4. cancelled \in Events /\ filled \in Events
        BY <1>2, <2>3, EventType DEF EventTypes, OrderEvents
  <2>5. cancelled.type # "order_submitted" /\ filled.type # "order_submitted"
        BY DEF Event
  <2>6. log' = log \/ log' = Append(log, cancelled) \/ log' = Append(log, filled)
        BY <1>7 DEF NoFill, Fill
  <2> HIDE DEF call, cancelled, filled
  <2> QED BY <2>1, <2>2, <2>4, <2>5, <2>6, QuietStopStep
<1> QED BY <1>3, <1>4, <1>5, <1>6, <1>7 DEF Proceed

LEMMA ConfirmationKeepsStops ==
    ASSUME TypeOK, StopsInv, NEW t \in Threads, NEW r \in DOMAIN pending, ConfirmReply(t, r)
    PROVE  StopsInv'
<1> DEFINE ticket == pending[r].ticket
           e == Event("order_confirmed", r, ticket)
           call == [Idle(pending[r].account) EXCEPT
                       !.step = "check", !.todo = <<ticket>>, !.bypass = TRUE]
<1>1. Answer(r) /\ log' = Append(log, e) /\ Goto(t, call)
      BY DEF ConfirmReply
<1>2. r \in Nat /\ ticket \in Tickets
      BY <1>1, AnswerType
<1>3. e \in Events /\ e.type = "order_confirmed" /\ e.ticket = ticket
      BY <1>2, EventType DEF EventTypes, ReplyEvents, TypeOK, DataOK, Event
<1>4. call.step = "check" /\ call.todo = <<ticket>>
      BY DEF Idle
<1> HIDE DEF call, e
<1>5. BypassOK(call)
  <2>1. Tail(<<ticket>>) = <<>>
        BY <1>2
  <2> QED BY <1>4, <2>1 DEF BypassOK
<1>6. ASSUME NEW k \in Tickets
      PROVE  One(e.type = "order_submitted" /\ e.ticket = k) + One(Waived(call, k))
               <= One(e.type = "order_confirmed" /\ e.ticket = k) + One(Waived(calls[t], k))
  <2>1. Head(<<ticket>>) = ticket
        BY <1>2
  <2>2. Waived(call, k) => e.ticket = k
        BY <1>3, <1>4, <2>1 DEF Waived
  <2> QED BY <1>3, <2>2 DEF One
<1> QED BY <1>1, <1>3, <1>5, <1>6, StopStep

LEMMA CallKeepsStops ==
    ASSUME TypeOK, StopsInv, NEW t \in Threads, Call(t)
    PROVE  StopsInv'
<1>1. now \in Nat
      BY DEF TypeOK, DataOK
<1>2. ASSUME NEW a \in Accounts, NEW batch, SubmitOrders(t, a, batch)
      PROVE  StopsInv'
  <2> DEFINE call == [Idle(a) EXCEPT !.step = "check", !.todo = batch]
  <2>1. Goto(t, call) /\ UNCHANGED log /\ ~call.bypass
        BY <1>2 DEF SubmitOrders, Idle
  <2> HIDE DEF call
  <2> QED BY <2>1, QuietStopStep
<1> DEFINE idle == Idle(calls[t].account)
<1>3. ~idle.bypass
      BY DEF Idle
<1> HIDE DEF idle
<1>4. ASSUME NEW r \in DOMAIN pending, ExpireReply(t, r)
      PROVE  StopsInv'
      BY <1>3, <1>4, QuietStopStep DEF ExpireReply
<1>5. ASSUME NEW r \in DOMAIN pending, DeclineReply(t, r)
      PROVE  StopsInv'
  <2> DEFINE e == Event("order_confirmation_declined", r, pending[r].ticket)
  <2>1. Answer(r) /\ log' = Append(log, e) /\ UNCHANGED calls
        BY <1>5 DEF DeclineReply
  <2>2. e \in Events
        BY <1>1, <2>1, AnswerType, EventType DEF EventTypes, ReplyEvents
  <2>3. e.type # "order_submitted"
        BY DEF Event
  <2> HIDE DEF e
  <2> QED BY <1>3, <2>1, <2>2, <2>3, QuietStopStep
<1>6. ASSUME NEW r \in DOMAIN pending, ConfirmReply(t, r)
      PROVE  StopsInv'
      BY <1>6, ConfirmationKeepsStops
<1>7. ASSUME NEW o \in DOMAIN orders, CancelOrder(t, o)
      PROVE  StopsInv'
  <2> DEFINE e == Event("order_cancelled", o, orders[o].ticket)
  <2>1. log' = Append(log, e) /\ UNCHANGED calls
        BY <1>7 DEF CancelOrder
  <2>2. o \in Nat /\ orders[o] \in OrderStates
        BY CallFields, ElementOfSeq DEF TypeOK, DataOK
  <2>3. orders[o].ticket \in Tickets
        BY <2>2 DEF OrderStates
  <2>4. e \in Events
        BY <1>1, <2>2, <2>3, EventType DEF EventTypes, OrderEvents
  <2>5. e.type # "order_submitted"
        BY DEF Event
  <2> HIDE DEF e
  <2> QED BY <1>3, <2>1, <2>4, <2>5, QuietStopStep
<1>8. ASSUME NEW o \in DOMAIN orders, NEW ticket \in Tickets, ReplaceOrder(t, o, ticket)
      PROVE  StopsInv'
  <2> DEFINE e == Event("order_replaced", o, ticket)
             call == [Idle(orders[o].account) EXCEPT
                         !.step = "fill", !.order = o, !.ticket = ticket]
  <2>1. log' = Append(log, e)
        BY <1>8 DEF ReplaceOrder
  <2>2. Goto(t, call)
        BY <1>8 DEF ReplaceOrder
  <2>3. o \in Nat
        BY CallFields
  <2>4. e \in Events
        BY <1>1, <2>3, EventType DEF EventTypes, OrderEvents
  <2>5. e.type # "order_submitted" /\ ~call.bypass
        BY DEF Event, Idle
  <2> HIDE DEF e, call
  <2> QED BY <2>1, <2>2, <2>4, <2>5, QuietStopStep
<1> QED BY <1>2, <1>4, <1>5, <1>6, <1>7, <1>8 DEF Call

LEMMA NextStops == TypeOK /\ StopsInv /\ [Next]_vars => StopsInv'
<1> SUFFICES ASSUME TypeOK, StopsInv, [Next]_vars PROVE StopsInv'
    OBVIOUS
<1>1. CASE \E t \in Threads : Proceed(t) \/ Call(t)
      BY <1>1, ProceedKeepsStops, CallKeepsStops
<1>2. CASE UNCHANGED <<log, calls>>
      BY <1>2 DEF StopsInv, StopPaid, OnTheWay, Submitted, Confirmed, Logged
<1> QED BY <1>1, <1>2 DEF Next, Outside, MarkToMarket, MarketMoves, Tick, vars

LEMMA StopsInvSuffices == TypeOK /\ StopsInv => StopsNeedConfirmation
<1> SUFFICES ASSUME TypeOK, StopsInv, NEW ticket \in Tickets, ticket.type \in StopTypes
             PROVE  Cardinality(Submitted(ticket)) <= Cardinality(Confirmed(ticket))
    BY DEF StopsNeedConfirmation, Submitted, Confirmed
<1>1. /\ Cardinality(Submitted(ticket)) + Cardinality(OnTheWay(ticket))
           <= Cardinality(Confirmed(ticket))
      /\ Cardinality(OnTheWay(ticket)) \in Nat
      BY FS_CardinalityType DEF StopsInv, StopPaid
<1>2. Cardinality(Submitted(ticket)) \in Nat /\ Cardinality(Confirmed(ticket)) \in Nat
      BY LoggedFinite DEF Submitted, Confirmed
<1> QED BY <1>1, <1>2

\* No stop order is submitted on the client's word alone: every submission has
\* used up a confirmation of its own, however many threads submit, confirm and
\* fail at once (orders.py 85-103, 137; risk.py 52-54).
THEOREM StopsAreConfirmed == Spec => []StopsNeedConfirmation
<1>1. Spec => []StopsInv
      BY TypeCorrect, InitStops, NextStops, PTL DEF Spec
<1> QED BY <1>1, TypeCorrect, StopsInvSuffices, PTL

\* Nor over the TWS adapter, which cannot ask, nor after a restart, which forgets
\* what was confirmed and not yet submitted (semantic.py, orders.py 85-103).
THEOREM StopsAreConfirmedInEveryProcess == ProcessSpec => []StopsNeedConfirmation
<1>1. ProcessInit => StopsInv
      BY InitStops DEF ProcessInit
<1>2. TypeOK /\ StopsInv /\ [ProcessNext]_processVars => StopsInv'
  <2> SUFFICES ASSUME TypeOK, StopsInv, [ProcessNext]_processVars PROVE StopsInv'
      OBVIOUS
  <2>1. ASSUME NEW t \in Threads, NEW a \in Accounts, NEW ticket \in Tickets,
               PlaceOrder(t, a, ticket)
        PROVE  StopsInv'
    <3> DEFINE call == [Idle(a) EXCEPT !.step = "check", !.todo = <<ticket>>]
    <3>1. Goto(t, call) /\ UNCHANGED log /\ ~call.bypass
          BY <2>1 DEF PlaceOrder, SubmitOrders, Idle
    <3> HIDE DEF call
    <3> QED BY <3>1, QuietStopStep
  <2>2. ASSUME Restart
        PROVE  StopsInv'
    <3>1. \A t \in Threads : ~calls'[t].bypass
          BY <2>2 DEF Restart, Idle
    <3>2. \A ticket : OnTheWay(ticket)' = {}
          BY <3>1 DEF OnTheWay, Waived
    <3>3. \A ticket : Submitted(ticket)' = Submitted(ticket) /\ Confirmed(ticket)' = Confirmed(ticket)
          BY <2>2 DEF Restart, Submitted, Confirmed, Logged
    <3>4. ASSUME NEW ticket \in Tickets, ticket.type \in StopTypes
          PROVE  StopPaid(ticket)'
      <4>1. Cardinality(Submitted(ticket)) <= Cardinality(Confirmed(ticket))
            BY <3>4, StopsInvSuffices DEF StopsNeedConfirmation, Submitted, Confirmed
      <4>2. Cardinality(Submitted(ticket)) \in Nat /\ Cardinality(Confirmed(ticket)) \in Nat
            BY LoggedFinite DEF Submitted, Confirmed
      <4> QED BY <3>2, <3>3, <4>1, <4>2, FS_EmptySet DEF StopPaid
    <3> QED BY <3>1, <3>4 DEF StopsInv, BypassOK
  <2> QED BY <2>1, <2>2, ProcessSteps, NextStops
<1>3. ProcessSpec => []StopsInv
      BY <1>1, <1>2, ProcessTypeCorrect, PTL DEF ProcessSpec
<1> QED BY <1>3, ProcessTypeCorrect, StopsInvSuffices, PTL

-------------------------------------------------------------------------------
(* No question is confirmed too late                                         *)

Questions == EventsOfType("order_confirmation_required")

\* No more questions in the log than the expiry check looks through.
FewQuestions == Cardinality(Questions) <= ListLimit

\* What a step may write, as far as questions and confirmations go.
EventFits(e) ==
    /\ e.type = "order_confirmation_required" => e.ref = replies + 1
    /\ e.type = "order_confirmed" => e.ref \in DOMAIN pending /\ ~Expired(e.ref) /\ e.ts = now

LEMMA PlainEvent ==
    ASSUME NEW type \in EventTypes, NEW ref \in Nat, NEW ticket \in Tickets, TypeOK,
           type \notin {"order_confirmation_required", "order_confirmed"}
    PROVE  Event(type, ref, ticket) \in Events /\ EventFits(Event(type, ref, ticket))
<1>1. now \in Nat
      BY DEF TypeOK, DataOK
<1>2. Event(type, ref, ticket) \in Events
      BY <1>1, EventType
<1>3. Event(type, ref, ticket).type = type
      BY DEF Event
<1> QED BY <1>2, <1>3 DEF EventFits

LEMMA ProceedWrites ==
    ASSUME TypeOK, NEW t \in Threads, Proceed(t), log' # log
    PROVE  \E e \in Events : log' = Append(log, e) /\ EventFits(e)
<1>1. CASE RejectTicket(t)
  <2>1. PICK ticket \in Tickets : log' = Append(log, Event("order_rejected", 0, ticket))
        BY <1>1 DEF RejectTicket
  <2> QED BY <2>1, PlainEvent DEF EventTypes
<1>2. CASE AskConfirmation(t)
  <2>1. PICK ticket \in Tickets :
            log' = Append(log, Event("order_confirmation_required", replies + 1, ticket))
        BY <1>2 DEF AskConfirmation
  <2> DEFINE e == Event("order_confirmation_required", replies + 1, ticket)
  <2>2. e \in Events
    <3>1. replies + 1 \in Nat /\ now \in Nat
          BY DEF TypeOK, DataOK
    <3> QED BY <3>1, EventType DEF EventTypes, ReplyEvents
  <2>3. EventFits(e)
        BY DEF EventFits, Event
  <2> QED BY <2>1, <2>2, <2>3
<1>3. CASE AcceptTicket(t)
  <2>1. PICK ticket \in Tickets :
            log' = Append(log, Event("order_submitted", Len(orders) + 1, ticket))
        BY <1>3 DEF AcceptTicket
  <2> DEFINE id == Len(orders) + 1
  <2>2. id \in Nat
        BY CallFields
  <2> HIDE DEF id
  <2>3. Event("order_submitted", id, ticket) \in Events /\ EventFits(Event("order_submitted", id, ticket))
        BY <2>2, PlainEvent DEF EventTypes, OrderEvents
  <2> QED BY <2>1, <2>3 DEF id
<1>4. CASE NoFill(t) \/ Fill(t)
  <2> DEFINE o == calls[t].order
  <2>1. calls[t].step = "fill"
        BY <1>4 DEF NoFill, Fill, Filling
  <2>2. o \in Nat /\ orders[o].ticket \in Tickets /\ calls[t].ticket \in Tickets
        BY <2>1, FillingFields DEF OrderStates
  <2>3. \/ log' = Append(log, Event("order_cancelled", o, orders[o].ticket))
        \/ log' = Append(log, Event("order_filled", o, calls[t].ticket))
        BY <1>4 DEF NoFill, Fill
  <2> HIDE DEF o
  <2> QED BY <2>2, <2>3, PlainEvent DEF EventTypes, OrderEvents
<1>5. ~QuoteFails(t)
      BY DEF QuoteFails
<1> QED BY <1>1, <1>2, <1>3, <1>4, <1>5 DEF Proceed

LEMMA CallWrites ==
    ASSUME TypeOK, NEW t \in Threads, Call(t), log' # log
    PROVE  \E e \in Events : log' = Append(log, e) /\ EventFits(e)
<1>1. ASSUME NEW r \in DOMAIN pending, DeclineReply(t, r)
      PROVE  \E e \in Events : log' = Append(log, e) /\ EventFits(e)
  <2>1. /\ Answer(r)
        /\ log' = Append(log, Event("order_confirmation_declined", r, pending[r].ticket))
        BY <1>1 DEF DeclineReply
  <2>2. r \in Nat /\ pending[r].ticket \in Tickets
        BY <2>1, AnswerType
  <2> QED BY <2>1, <2>2, PlainEvent DEF EventTypes, ReplyEvents
<1>2. ASSUME NEW r \in DOMAIN pending, ConfirmReply(t, r)
      PROVE  \E e \in Events : log' = Append(log, e) /\ EventFits(e)
  <2> DEFINE e == Event("order_confirmed", r, pending[r].ticket)
  <2>1. Answer(r) /\ ~Expired(r) /\ log' = Append(log, e)
        BY <1>2 DEF ConfirmReply
  <2>2. e \in Events
        BY <2>1, AnswerType, EventType DEF EventTypes, ReplyEvents, TypeOK, DataOK
  <2>3. e.ref = r /\ e.ts = now /\ e.type = "order_confirmed"
        BY DEF Event
  <2> HIDE DEF e
  <2>4. EventFits(e)
        BY <2>1, <2>3 DEF EventFits
  <2> QED BY <2>1, <2>2, <2>4
<1>3. ASSUME NEW o \in DOMAIN orders, NEW type \in {"order_cancelled", "order_replaced"},
             NEW ticket \in Tickets, log' = Append(log, Event(type, o, ticket))
      PROVE  \E e \in Events : log' = Append(log, e) /\ EventFits(e)
  <2>1. o \in Nat
        BY CallFields
  <2> QED BY <1>3, <2>1, PlainEvent DEF EventTypes, OrderEvents
<1>4. ASSUME NEW o \in DOMAIN orders, CancelOrder(t, o)
      PROVE  \E e \in Events : log' = Append(log, e) /\ EventFits(e)
  <2>1. orders[o] \in OrderStates
        BY CallFields, ElementOfSeq DEF TypeOK, DataOK
  <2>2. orders[o].ticket \in Tickets
        BY <2>1 DEF OrderStates
  <2> QED BY <1>3, <1>4, <2>2 DEF CancelOrder
<1>5. ASSUME NEW o \in DOMAIN orders, NEW ticket \in Tickets, ReplaceOrder(t, o, ticket)
      PROVE  \E e \in Events : log' = Append(log, e) /\ EventFits(e)
      BY <1>3, <1>5 DEF ReplaceOrder
<1> QED BY <1>1, <1>2, <1>4, <1>5 DEF Call, SubmitOrders, ExpireReply

\* While the log holds no more questions than are listed, an old question is found.
LEMMA OldQuestionExpires ==
    ASSUME TypeOK, FewQuestions, NEW i \in Questions
    PROVE  i \in Listed("order_confirmation_required")
<1> DEFINE E == Questions
           B == {j \in E : j < i}
<1>1. DOMAIN log = 1..Len(log) /\ Len(log) \in Nat /\ ListLimit \in Nat
      BY LenProperties, OrdersAssumption DEF TypeOK, DataOK
<1>2. E \subseteq 1..Len(log)
      BY <1>1 DEF Questions, EventsOfType
<1>3. IsFiniteSet(E)
  <2>1. IsFiniteSet(1..Len(log))
        BY <1>1, FS_Interval
  <2> QED BY <1>2, <2>1, FS_Subset
<1>4. i \in E /\ i \in Int
      BY <1>1, <1>2
<1>5. B \subseteq E \ {i}
      BY <1>4
<1> HIDE DEF B, E
<1>6. /\ IsFiniteSet(E \ {i}) /\ Cardinality(E \ {i}) = Cardinality(E) - 1
      BY <1>3, <1>4, FS_RemoveElement
<1>7. Cardinality(B) <= Cardinality(E) - 1 /\ Cardinality(B) \in Nat /\ Cardinality(E) \in Nat
      BY <1>3, <1>5, <1>6, FS_Subset, FS_CardinalityType
<1>8. Cardinality(B) < ListLimit
      BY <1>1, <1>7 DEF FewQuestions, E
<1> QED BY <1>4, <1>8 DEF B, E, Listed, Questions

LEMMA NextNoStale ==
    ASSUME TypeOK, RepliesInv, FewQuestions, NoStaleConfirmation, [Next]_vars
    PROVE  NoStaleConfirmation'
<1>1. CASE UNCHANGED log
      BY <1>1 DEF NoStaleConfirmation
<1>2. ASSUME NEW e \in Events, log' = Append(log, e), EventFits(e)
      PROVE  NoStaleConfirmation'
  <2> DEFINE n == Len(log) + 1
  <2>1. /\ log \in Seq(Events) /\ Len(log) \in Nat /\ DOMAIN log = 1..Len(log) /\ replies \in Nat
        BY LenProperties DEF TypeOK, DataOK
  <2>2. /\ DOMAIN log' = 1..n /\ log'[n] = e
        /\ \A i \in 1..Len(log) : log'[i] = log[i]
        BY <1>2, <2>1, AppendProperties, LenProperties
  <2> SUFFICES ASSUME NEW i \in DOMAIN log', NEW j \in DOMAIN log',
                      log'[i].type = "order_confirmation_required",
                      log'[j].type = "order_confirmed", log'[i].ref = log'[j].ref
               PROVE  log'[j].ts - log'[i].ts <= ConfirmTTL
      BY DEF NoStaleConfirmation
  <2>3. CASE i # n /\ j # n
    <3>1. /\ i \in DOMAIN log /\ log'[i] = log[i]
          /\ j \in DOMAIN log /\ log'[j] = log[j]
          BY <2>1, <2>2, <2>3
    <3> QED BY <3>1 DEF NoStaleConfirmation
  <2>4. CASE i = n
    <3>1. e.ref = replies + 1 /\ j # n
          BY <1>2, <2>2, <2>4 DEF EventFits
    <3>2. j \in DOMAIN log /\ log'[j] = log[j]
          BY <2>1, <2>2, <3>1
    <3>3. log[j].ref \in 1..replies
          BY <3>2 DEF RepliesInv, AnswersFit, AnswerTypes
    <3> QED BY <2>1, <2>2, <2>4, <3>1, <3>2, <3>3
  <2>5. CASE j = n /\ i # n
    <3>1. ~Expired(e.ref) /\ e.ts = now
          BY <1>2, <2>2, <2>5 DEF EventFits
    <3>2. i \in DOMAIN log /\ log'[i] = log[i]
          BY <2>1, <2>2, <2>5
    <3>3. i \in Listed("order_confirmation_required")
          BY <3>2, OldQuestionExpires DEF Questions, EventsOfType
    <3>4. ~(now - log[i].ts > ConfirmTTL)
          BY <2>2, <2>5, <3>1, <3>2, <3>3 DEF Expired
    <3>5. now \in Nat /\ log[i].ts \in Nat /\ ConfirmTTL \in Nat
      <4>1. log[i] \in Events
            BY <2>1, <3>2, ElementOfSeq
      <4> QED BY <4>1, OrdersAssumption DEF Events, TypeOK, DataOK
    <3> QED BY <2>2, <2>5, <3>1, <3>2, <3>4, <3>5
  <2> QED BY <2>3, <2>4, <2>5
<1>3. CASE \E t \in Threads : Proceed(t) \/ Call(t)
      BY <1>1, <1>2, <1>3, ProceedWrites, CallWrites
<1> QED BY <1>1, <1>3 DEF Next, Outside, MarkToMarket, MarketMoves, Tick, vars

\* No question is confirmed more than ConfirmTTL after it was asked, for as long as
\* the event store holds no more questions than the expiry check reads
\* (orders.py 125-127, events.py list_events).  The condition is needed: with more,
\* the run MCOrdersListLimit confirms an old one.
THEOREM NoStaleConfirmations == Spec /\ []FewQuestions => []NoStaleConfirmation
<1>1. Init => NoStaleConfirmation
  <2> SUFFICES ASSUME Init PROVE NoStaleConfirmation
      OBVIOUS
  <2>1. DOMAIN log = {}
        BY EmptySeq DEF Init
  <2> QED BY <2>1 DEF NoStaleConfirmation
<1>2. Spec => []RepliesInv
      BY TypeCorrect, InitReplies, NextReplies, PTL DEF Spec
<1> QED BY <1>1, <1>2, TypeCorrect, NextNoStale, PTL DEF Spec

-------------------------------------------------------------------------------
(* The counters of an order are what its executions add up to                *)

Quantities(trades) == [i \in DOMAIN trades |-> trades[i].qty]
Amounts(trades) == [i \in DOMAIN trades |-> trades[i].qty * trades[i].price]
TradesOf(trades, o) == {i \in DOMAIN trades : trades[i].order = o}

\* Every execution belongs to an order of the book, whose counters have it.
CountersInv ==
    /\ \A i \in DOMAIN executions : executions[i].order \in DOMAIN orders
    /\ \A o \in DOMAIN orders :
          /\ orders[o].filled = SumOver(Quantities(executions), TradesOf(executions, o))
          /\ orders[o].cost = SumOver(Amounts(executions), TradesOf(executions, o))

LEMMA CounterTotals ==
    ASSUME NEW S \in SUBSET DOMAIN executions
    PROVE  /\ Total(LAMBDA i : executions[i].qty, S) = SumOver(Quantities(executions), S)
           /\ Total(LAMBDA i : executions[i].qty * executions[i].price, S)
                = SumOver(Amounts(executions), S)
<1>1. Total(LAMBDA i : executions[i].qty, S) = SumOver(Quantities(executions), S)
      BY ZenonT(60) DEF Total, MapThenSumSet, MapThenFoldSet, SumOver, SumFcn, SumStep, Pick, Quantities
<1>2. Total(LAMBDA i : executions[i].qty * executions[i].price, S) = SumOver(Amounts(executions), S)
      BY ZenonT(60) DEF Total, MapThenSumSet, MapThenFoldSet, SumOver, SumFcn, SumStep, Pick, Amounts
<1> QED BY <1>1, <1>2

LEMMA InitCounters == Init => CountersInv
<1> SUFFICES ASSUME Init PROVE CountersInv
    OBVIOUS
<1>1. DOMAIN executions = {} /\ DOMAIN orders = {}
      BY EmptySeq DEF Init
<1> QED BY <1>1 DEF CountersInv

\* The book keeps its orders and their counters, and nothing is executed.
LEMMA NoTradeNoCount ==
    ASSUME CountersInv, UNCHANGED executions, DOMAIN orders' = DOMAIN orders,
           \A o \in DOMAIN orders : /\ orders'[o].filled = orders[o].filled
                                    /\ orders'[o].cost = orders[o].cost
    PROVE  CountersInv'
BY DEF CountersInv

LEMMA SubmissionCounts ==
    ASSUME TypeOK, CountersInv, NEW t \in Threads, AcceptTicket(t)
    PROVE  CountersInv'
<1>1. PICK ticket \in Tickets, quote \in Quotes : AcceptTicket(t)!(ticket, quote)
      BY DEF AcceptTicket
<1> DEFINE n == Len(orders) + 1
           order == [account |-> calls[t].account, ticket |-> ticket, status |-> "Submitted",
                     filled |-> 0, remaining |-> ticket.quantity, cost |-> 0]
<1>2. orders' = Append(orders, order) /\ UNCHANGED executions
      BY <1>1
<1>3. order \in OrderStates /\ order.filled = 0 /\ order.cost = 0
      BY CallFields, TicketFields DEF OrderStates, Statuses
<1> HIDE DEF order
<1>4. /\ orders \in Seq(OrderStates) /\ Len(orders) \in Nat /\ DOMAIN orders = 1..Len(orders)
      BY LenProperties DEF TypeOK, DataOK
<1>5. /\ DOMAIN orders' = 1..n /\ orders'[n] = order
      /\ \A o \in 1..Len(orders) : orders'[o] = orders[o]
      BY <1>2, <1>3, <1>4, AppendProperties, LenProperties
<1>6. n \notin DOMAIN orders
      BY <1>4
<1>7. TradesOf(executions, n) = {}
      BY <1>6 DEF CountersInv, TradesOf
<1>8. /\ orders'[n].filled = SumOver(Quantities(executions), TradesOf(executions, n))
      /\ orders'[n].cost = SumOver(Amounts(executions), TradesOf(executions, n))
      BY <1>3, <1>5, <1>7, SumEmpty
<1>9. ASSUME NEW o \in DOMAIN orders', o # n
      PROVE  o \in DOMAIN orders /\ orders'[o] = orders[o]
      BY <1>4, <1>5, <1>9
<1>10. DOMAIN orders \subseteq DOMAIN orders'
       BY <1>4, <1>5
<1> HIDE DEF n
<1> QED BY <1>2, <1>8, <1>9, <1>10 DEF CountersInv

LEMMA FillCounts ==
    ASSUME TypeOK, TypeOK', CountersInv, NEW t \in Threads, Fill(t)
    PROVE  CountersInv'
<1>1. PICK quote \in Quotes : Fill(t)!(quote)
      BY DEF Fill
<1> DEFINE b == calls[t].order
           ticket == calls[t].ticket
           price == FillPrice(ticket, quote)
           qty == FillQuantity(orders[b].remaining, ticket, quote)
           e == [order |-> b, account |-> orders[b].account, conid |-> ticket.conid,
                 side |-> ticket.side, price |-> price, qty |-> qty,
                 commission |-> EstimateCommission(qty, price)]
           n == Len(executions) + 1
<1>2. /\ calls[t].step = "fill" /\ Executes(ticket, quote)
      /\ executions' = Append(executions, e)
      /\ orders' = [orders EXCEPT ![b] = AfterFill(orders[b], ticket, qty, price)]
      BY <1>1 DEF Filling
<1>3. /\ b \in DOMAIN orders /\ orders[b] \in OrderStates /\ ticket \in Tickets
      BY <1>2, CallFields, FillingFields
<1>4. price \in Nat /\ qty \in Nat /\ e \in Executions
      BY <1>2, FillingFields, ExecutionType
<1>5. e.order = b /\ e.qty = qty /\ e.price = price
      OBVIOUS
<1> HIDE DEF e, qty, price
<1>6. /\ executions \in Seq(Executions) /\ Len(executions) \in Nat
      /\ DOMAIN executions = 1..Len(executions)
      BY LenProperties DEF TypeOK, DataOK
<1>7. /\ DOMAIN executions' = 1..n /\ executions'[n] = e
      /\ \A i \in 1..Len(executions) : executions'[i] = executions[i]
      BY <1>2, <1>4, <1>6, AppendProperties, LenProperties
<1>8. ASSUME NEW i \in 1..Len(executions)
      PROVE  executions[i].qty \in Nat /\ executions[i].price \in Nat
  <2>1. executions[i] \in Executions
        BY <1>6, ElementOfSeq
  <2> QED BY <2>1 DEF Executions
<1>9. /\ AgreeUpTo(n, 1..Len(executions), Quantities(executions), Quantities(executions'))
      /\ Quantities(executions')[n] = qty
      BY <1>4, <1>5, <1>6, <1>7, <1>8 DEF AgreeUpTo, Quantities
<1>10. /\ AgreeUpTo(n, 1..Len(executions), Amounts(executions), Amounts(executions'))
       /\ Amounts(executions')[n] = qty * price
  <2>1. qty * price \in Int /\ \A x, y \in Nat : x * y \in Int
        BY <1>4
  <2> QED BY <1>5, <1>6, <1>7, <1>8, <2>1 DEF AgreeUpTo, Amounts
<1>11. DOMAIN orders' = DOMAIN orders
       BY <1>2
<1>12. ASSUME NEW o \in DOMAIN orders
       PROVE  /\ orders'[o].filled = orders[o].filled + (IF o = b THEN qty ELSE 0)
              /\ orders'[o].cost = orders[o].cost + (IF o = b THEN qty * price ELSE 0)
              /\ orders[o].filled \in Nat /\ orders[o].cost \in Nat
  <2>1. orders[o] \in OrderStates
        BY ElementOfSeq, CallFields DEF TypeOK, DataOK
  <2>2. orders[o].filled \in Nat /\ orders[o].cost \in Nat
        BY <2>1 DEF OrderStates
  <2>3. CASE o # b
        BY <1>2, <2>2, <2>3
  <2>4. CASE o = b
    <3>1. orders'[o] = AfterFill(orders[o], ticket, qty, price)
          BY <1>2, <1>3, <2>4
    <3>2. /\ AfterFill(orders[o], ticket, qty, price).filled = orders[o].filled + qty
          /\ AfterFill(orders[o], ticket, qty, price).cost = orders[o].cost + qty * price
          BY <2>1 DEF AfterFill, OrderStates
    <3> QED BY <2>2, <2>4, <3>1, <3>2
  <2> QED BY <2>3, <2>4
<1>13. ASSUME NEW o \in DOMAIN orders
       PROVE  /\ orders'[o].filled = SumOver(Quantities(executions'), TradesOf(executions', o))
              /\ orders'[o].cost = SumOver(Amounts(executions'), TradesOf(executions', o))
  <2> DEFINE S == TradesOf(executions, o)
             R == TradesOf(executions', o)
             f == Quantities(executions)
             g == Quantities(executions')
             k == Amounts(executions)
             l == Amounts(executions')
  <2>1. S \subseteq 1..Len(executions) /\ n \notin S /\ (n \in R <=> o = b)
        BY <1>5, <1>6, <1>7 DEF TradesOf
  <2>2. GrowsBy(n, S, R)
    <3>1. IsFiniteSet(S)
      <4>1. IsFiniteSet(1..Len(executions))
            BY <1>6, FS_Interval
      <4> QED BY <2>1, <4>1, FS_Subset
    <3>2. R = S \/ R = S \cup {n}
          BY <1>6, <1>7 DEF TradesOf
    <3> HIDE DEF S, R
    <3> QED BY <2>1, <3>1, <3>2 DEF GrowsBy
  <2>3. AgreeUpTo(n, S, f, g) /\ AgreeUpTo(n, S, k, l)
        BY <1>9, <1>10, <2>1 DEF AgreeUpTo
  <2>4. orders[o].filled = SumOver(f, S) /\ orders[o].cost = SumOver(k, S)
        BY DEF CountersInv
  <2>5. g[n] = qty /\ l[n] = qty * price
        BY <1>9, <1>10
  <2> HIDE DEF S, R, f, g, k, l
  <2>6. SumOver(g, R) = SumOver(f, S) + (IF n \in R THEN g[n] ELSE 0)
        BY <2>2, <2>3, SumGrows
  <2>7. SumOver(l, R) = SumOver(k, S) + (IF n \in R THEN l[n] ELSE 0)
        BY <2>2, <2>3, SumGrows
  <2>8. orders'[o].filled = SumOver(g, R) /\ orders'[o].cost = SumOver(l, R)
        BY <1>12, <2>1, <2>4, <2>5, <2>6, <2>7
  <2> QED BY <2>8 DEF g, l, R
<1>14. ASSUME NEW i \in DOMAIN executions'
       PROVE  executions'[i].order \in DOMAIN orders
       BY <1>3, <1>5, <1>6, <1>7 DEF CountersInv
<1> QED BY <1>11, <1>13, <1>14 DEF CountersInv

LEMMA NextCounters == TypeOK /\ TypeOK' /\ CountersInv /\ [Next]_vars => CountersInv'
<1> SUFFICES ASSUME TypeOK, TypeOK', CountersInv, [Next]_vars PROVE CountersInv'
    OBVIOUS
<1>1. ASSUME NEW o \in DOMAIN orders, orders' = Closed(o), UNCHANGED executions
      PROVE  CountersInv'
  <2>1. ASSUME NEW p \in DOMAIN orders
        PROVE  orders'[p].filled = orders[p].filled /\ orders'[p].cost = orders[p].cost
    <3>1. orders[p] \in OrderStates
          BY ElementOfSeq, LenProperties DEF TypeOK, DataOK
    <3> QED BY <1>1, <3>1 DEF Closed, OrderStates
  <2>2. DOMAIN orders' = DOMAIN orders
        BY <1>1 DEF Closed
  <2> QED BY <1>1, <2>1, <2>2, NoTradeNoCount
<1>2. CASE UNCHANGED <<orders, executions>>
      BY <1>2, NoTradeNoCount
<1>3. ASSUME NEW t \in Threads, Proceed(t)
      PROVE  CountersInv'
  <2>1. CASE AcceptTicket(t)
        BY <2>1, SubmissionCounts
  <2>2. CASE Fill(t)
        BY <2>2, FillCounts
  <2>3. CASE NoFill(t)
    <3>1. calls[t].order \in DOMAIN orders
          BY <2>3, FillingFields, CallFields DEF NoFill, Filling
    <3>2. (orders' = Closed(calls[t].order) \/ UNCHANGED orders) /\ UNCHANGED executions
          BY <2>3 DEF NoFill
    <3> QED BY <1>1, <1>2, <3>1, <3>2
  <2> QED BY <1>2, <1>3, <2>1, <2>2, <2>3 DEF Proceed, QuoteFails, RejectTicket, AskConfirmation
<1>4. ASSUME NEW t \in Threads, NEW o \in DOMAIN orders, NEW ticket \in Tickets,
             ReplaceOrder(t, o, ticket)
      PROVE  CountersInv'
  <2>1. orders' = [orders EXCEPT ![o] = Amended(orders[o], ticket)] /\ UNCHANGED executions
        BY <1>4 DEF ReplaceOrder
  <2>2. ASSUME NEW p \in DOMAIN orders
        PROVE  orders'[p].filled = orders[p].filled /\ orders'[p].cost = orders[p].cost
    <3>1. orders[p] \in OrderStates
          BY ElementOfSeq, LenProperties DEF TypeOK, DataOK
    <3> QED BY <2>1, <3>1 DEF Amended, OrderStates
  <2>3. DOMAIN orders' = DOMAIN orders
        BY <2>1
  <2> QED BY <2>1, <2>2, <2>3, NoTradeNoCount
<1>5. ASSUME NEW t \in Threads, Call(t)
      PROVE  CountersInv'
      BY <1>1, <1>2, <1>4, <1>5 DEF Call, SubmitOrders, ExpireReply, DeclineReply, ConfirmReply,
                                   CancelOrder
<1> QED BY <1>2, <1>3, <1>5 DEF Next, Outside, MarkToMarket, MarketMoves, Tick, vars

\* What an order says it has filled and paid is what its executions add up to, also
\* when other threads fill, amend and cancel it at the same time (orders.py 196-216).
THEOREM CountersAddUp == Spec => []CountersInv
BY TypeCorrect, InitCounters, NextCounters, PTL DEF Spec

-------------------------------------------------------------------------------
(* One caller at a time                                                      *)

OneThread == \A s, t \in Threads : s = t

\* What is left of an order is what its ticket asks for beyond what it has filled.
RemainingFits(order) ==
    /\ order.remaining = Larger(0, order.ticket.quantity - order.filled)
    /\ order.status = "Filled" => order.remaining = 0

\* The order a call is about to fill is open and still has the ticket that was read.
TicketIsCurrent(call) ==
    call.step = "fill" => /\ orders[call.order].status = "Submitted"
                          /\ orders[call.order].ticket = call.ticket

SoloInv ==
    /\ \A o \in DOMAIN orders : RemainingFits(orders[o])
    /\ \A t \in Threads : TicketIsCurrent(calls[t])

LEMMA InitSolo == Init => SoloInv
<1> SUFFICES ASSUME Init PROVE SoloInv
    OBVIOUS
<1>1. DOMAIN orders = {} /\ \A t \in Threads : calls[t].step # "fill"
      BY EmptySeq DEF Init, Idle
<1> QED BY <1>1 DEF SoloInv, TicketIsCurrent

LEMMA OrderFields ==
    ASSUME TypeOK, NEW o \in DOMAIN orders
    PROVE  /\ orders[o] \in OrderStates /\ orders[o].ticket \in Tickets
           /\ orders[o].ticket.quantity \in Nat /\ orders[o].filled \in Nat
           /\ orders[o].remaining \in Nat /\ orders[o].status \in Statuses
<1>1. orders[o] \in OrderStates
      BY ElementOfSeq, LenProperties DEF TypeOK, DataOK
<1>2. orders[o].ticket \in Tickets
      BY <1>1 DEF OrderStates
<1> QED BY <1>1, <1>2, TicketFields DEF OrderStates

\* The thread does not go on to a fill, and the book is the same or one order in it
\* still has its counters in order.
LEMMA SoloStep ==
    ASSUME TypeOK, SoloInv, OneThread, NEW t \in Threads,
           calls'[t].step # "fill",
           \/ UNCHANGED orders
           \/ \E o \in DOMAIN orders, entry \in OrderStates :
                 orders' = [orders EXCEPT ![o] = entry] /\ RemainingFits(entry)
    PROVE  SoloInv'
<1>1. ASSUME NEW s \in Threads
      PROVE  TicketIsCurrent(calls[s])'
      BY DEF OneThread, TicketIsCurrent
<1>2. ASSUME NEW p \in DOMAIN orders'
      PROVE  RemainingFits(orders'[p])
      BY DEF SoloInv
<1> QED BY <1>1, <1>2 DEF SoloInv

LEMMA CloseFits ==
    ASSUME TypeOK, SoloInv, NEW o \in DOMAIN orders
    PROVE  \E entry \in OrderStates :
               /\ Closed(o) = [orders EXCEPT ![o] = entry] /\ RemainingFits(entry)
               /\ entry = [orders[o] EXCEPT !.status = "Cancelled"]
<1> DEFINE entry == [orders[o] EXCEPT !.status = "Cancelled"]
<1>1. entry \in OrderStates
      BY OrderFields DEF OrderStates, Statuses
<1>2. RemainingFits(entry)
  <2>1. RemainingFits(orders[o]) /\ orders[o] \in OrderStates
        BY OrderFields DEF SoloInv
  <2>2. /\ entry.remaining = orders[o].remaining /\ entry.filled = orders[o].filled
        /\ entry.ticket = orders[o].ticket /\ entry.status = "Cancelled"
        BY <2>1 DEF OrderStates
  <2> HIDE DEF entry
  <2> QED BY <2>1, <2>2 DEF RemainingFits
<1>3. Closed(o) = [orders EXCEPT ![o] = entry]
      BY DEF Closed
<1> QED BY <1>1, <1>2, <1>3

\* What a fill makes of the order of one caller: qty is within what is left.
LEMMA SoloFill ==
    ASSUME TypeOK, SoloInv, NEW t \in Threads, Fill(t)
    PROVE  LET o == calls[t].order
               order == orders[o] IN
           \E qty \in 0..order.remaining, entry \in OrderStates :
               /\ o \in DOMAIN orders /\ order.status = "Submitted"
               /\ orders' = [orders EXCEPT ![o] = entry]
               /\ RemainingFits(entry)
               /\ entry.filled = order.filled + qty
               /\ entry.ticket = order.ticket
               /\ entry.status \in {"Submitted", "Filled", "Cancelled"}
               /\ entry.remaining = 0 => entry.status = "Filled"
<1>1. PICK quote \in Quotes : Fill(t)!(quote)
      BY DEF Fill
<1> DEFINE o == calls[t].order
           ticket == calls[t].ticket
           price == FillPrice(ticket, quote)
           qty == FillQuantity(orders[o].remaining, ticket, quote)
           entry == AfterFill(orders[o], ticket, qty, price)
<1>2. /\ calls[t].step = "fill" /\ Executes(ticket, quote)
      /\ orders' = [orders EXCEPT ![o] = entry]
      BY <1>1 DEF Filling
<1>3. /\ o \in DOMAIN orders /\ orders[o] \in OrderStates /\ ticket \in Tickets
      BY <1>2, CallFields, FillingFields
<1>4. orders[o].status = "Submitted" /\ orders[o].ticket = ticket
      BY <1>2 DEF SoloInv, TicketIsCurrent
<1>5. price \in Nat /\ qty \in 0..orders[o].remaining
      BY <1>2, <1>3, OrderFields, FillPriceWithinLimit, FillQuantityBounds
<1>6. qty \in Nat
      BY <1>3, <1>5, OrderFields
<1>7. entry \in OrderStates
      BY <1>3, <1>5, <1>6, AfterFillType
<1> HIDE DEF qty, price
<1>8. /\ entry.filled = orders[o].filled + qty /\ entry.ticket = orders[o].ticket
      /\ entry.remaining = Larger(0, ticket.quantity - (orders[o].filled + qty))
      /\ entry.status = StatusAfter(entry.remaining, ticket.tif)
      BY <1>3 DEF AfterFill, OrderStates
<1> HIDE DEF entry
<1>9. /\ entry.status \in {"Submitted", "Filled", "Cancelled"}
      /\ entry.remaining = 0 <=> entry.status = "Filled"
      BY <1>8 DEF StatusAfter
<1>10. RemainingFits(entry)
       BY <1>4, <1>8, <1>9 DEF RemainingFits
<1> HIDE DEF o, ticket
<1>11. /\ o \in DOMAIN orders /\ orders[o].status = "Submitted"
       /\ orders' = [orders EXCEPT ![o] = entry]
       /\ RemainingFits(entry)
       /\ entry.filled = orders[o].filled + qty
       /\ entry.ticket = orders[o].ticket
       /\ entry.status \in {"Submitted", "Filled", "Cancelled"}
       /\ entry.remaining = 0 => entry.status = "Filled"
       BY <1>2, <1>3, <1>4, <1>8, <1>9, <1>10
<1>12. \E q \in 0..orders[o].remaining, en \in OrderStates :
           /\ o \in DOMAIN orders /\ orders[o].status = "Submitted"
           /\ orders' = [orders EXCEPT ![o] = en]
           /\ RemainingFits(en)
           /\ en.filled = orders[o].filled + q
           /\ en.ticket = orders[o].ticket
           /\ en.status \in {"Submitted", "Filled", "Cancelled"}
           /\ en.remaining = 0 => en.status = "Filled"
       BY <1>5, <1>7, <1>11
<1> QED BY <1>12 DEF o

LEMMA SubmissionSolo ==
    ASSUME TypeOK, SoloInv, OneThread, NEW t \in Threads, AcceptTicket(t)
    PROVE  SoloInv' /\ \E entry \in OrderStates :
                           /\ orders' = Append(orders, entry)
                           /\ entry.status = "Submitted" /\ entry.filled = 0
<1>1. PICK ticket \in Tickets, quote \in Quotes : AcceptTicket(t)!(ticket, quote)
      BY DEF AcceptTicket
<1> DEFINE n == Len(orders) + 1
           entry == [account |-> calls[t].account, ticket |-> ticket, status |-> "Submitted",
                     filled |-> 0, remaining |-> ticket.quantity, cost |-> 0]
           call == [calls[t] EXCEPT !.step = "fill", !.todo = Tail(calls[t].todo),
                                    !.order = n, !.ticket = ticket]
<1>2. orders' = Append(orders, entry) /\ Goto(t, call)
      BY <1>1
<1>3. /\ entry \in OrderStates /\ entry.filled = 0 /\ entry.status = "Submitted"
      /\ entry.ticket = ticket /\ entry.remaining = ticket.quantity
      BY CallFields, TicketFields DEF OrderStates, Statuses
<1>4. calls'[t].order = n /\ calls'[t].ticket = ticket
      BY <1>2, CallFields DEF Goto, TypeOK, CallsOK, Calls
<1> HIDE DEF entry, call
<1>5. /\ orders \in Seq(OrderStates) /\ Len(orders) \in Nat /\ DOMAIN orders = 1..Len(orders)
      BY LenProperties DEF TypeOK, DataOK
<1>6. /\ DOMAIN orders' = 1..n /\ orders'[n] = entry
      /\ \A o \in 1..Len(orders) : orders'[o] = orders[o]
      BY <1>2, <1>3, <1>5, AppendProperties, LenProperties
<1>7. RemainingFits(entry)
      BY <1>3, TicketFields DEF RemainingFits, Larger
<1>8. ASSUME NEW o \in DOMAIN orders'
      PROVE  RemainingFits(orders'[o])
  <2>1. CASE o = n
        BY <1>6, <1>7, <2>1
  <2>2. CASE o # n
        BY <1>5, <1>6, <2>2 DEF SoloInv
  <2> QED BY <2>1, <2>2
<1>9. ASSUME NEW s \in Threads
      PROVE  TicketIsCurrent(calls[s])'
  <2>1. s = t
        BY DEF OneThread
  <2> QED BY <1>3, <1>4, <1>6, <2>1 DEF TicketIsCurrent
<1> QED BY <1>2, <1>3, <1>8, <1>9 DEF SoloInv

LEMMA ReplaceSolo ==
    ASSUME TypeOK, SoloInv, OneThread, NEW t \in Threads, NEW o \in DOMAIN orders,
           NEW ticket \in Tickets, ReplaceOrder(t, o, ticket)
    PROVE  SoloInv'
<1> DEFINE entry == Amended(orders[o], ticket)
<1>1. orders' = [orders EXCEPT ![o] = entry] /\ orders[o].status \notin {"Filled", "Cancelled"}
      BY DEF ReplaceOrder, IsOpen
<1>2. Goto(t, [Idle(orders[o].account) EXCEPT !.step = "fill", !.order = o, !.ticket = ticket])
      BY DEF ReplaceOrder
<1>3. /\ entry.ticket = ticket /\ entry.status = orders[o].status
      /\ entry.filled = orders[o].filled
      /\ entry.remaining = Larger(0, ticket.quantity - orders[o].filled)
      BY OrderFields DEF Amended, OrderStates
<1>4. calls'[t].order = o /\ calls'[t].ticket = ticket
      BY <1>2 DEF Goto, TypeOK, CallsOK, Idle
<1> HIDE DEF entry
<1>5. entry.status = "Submitted"
      BY <1>1, <1>3, OrderFields DEF Statuses
<1>6. RemainingFits(entry)
      BY <1>3, <1>5 DEF RemainingFits
<1>7. ASSUME NEW p \in DOMAIN orders'
      PROVE  RemainingFits(orders'[p])
      BY <1>1, <1>6 DEF SoloInv
<1>8. ASSUME NEW s \in Threads
      PROVE  TicketIsCurrent(calls[s])'
  <2>1. s = t
        BY DEF OneThread
  <2> QED BY <1>1, <1>3, <1>4, <1>5, <2>1 DEF TicketIsCurrent
<1> QED BY <1>7, <1>8 DEF SoloInv

\* After these steps the thread is not about to fill.
LEMMA NotFilling ==
    ASSUME TypeOK, NEW t \in Threads,
           \/ QuoteFails(t) \/ RejectTicket(t) \/ AskConfirmation(t) \/ NoFill(t) \/ Fill(t)
           \/ \E a \in Accounts, batch \in Batches : SubmitOrders(t, a, batch)
           \/ \E r \in DOMAIN pending : ExpireReply(t, r) \/ DeclineReply(t, r) \/ ConfirmReply(t, r)
           \/ \E o \in DOMAIN orders : CancelOrder(t, o)
    PROVE  calls'[t].step # "fill"
<1>1. \A call, rest : call \in Calls => NextTicket(call, rest).step # "fill"
      BY DEF NextTicket, Idle, Calls
<1>2. calls \in [Threads -> Calls] /\ calls[t] \in Calls
      BY DEF TypeOK, CallsOK
<1>3. CASE QuoteFails(t) \/ RejectTicket(t)
      BY <1>2, <1>3 DEF QuoteFails, RejectTicket, Return, Goto, Idle
<1>4. CASE AskConfirmation(t) \/ NoFill(t) \/ Fill(t)
  <2>1. \E rest : Goto(t, NextTicket(calls[t], rest))
        BY <1>4 DEF AskConfirmation, NoFill, Fill, FillDone
  <2> QED BY <1>1, <1>2, <2>1 DEF Goto
<1>5. CASE \E a \in Accounts, batch \in Batches : SubmitOrders(t, a, batch)
      BY <1>2, <1>5 DEF SubmitOrders, Goto, Idle
<1>6. CASE \E r \in DOMAIN pending : ConfirmReply(t, r)
      BY <1>2, <1>6 DEF ConfirmReply, Goto, Idle
<1>7. CASE \/ \E r \in DOMAIN pending : ExpireReply(t, r) \/ DeclineReply(t, r)
           \/ \E o \in DOMAIN orders : CancelOrder(t, o)
      BY <1>7 DEF ExpireReply, DeclineReply, CancelOrder, MayCall, IsIdle
<1> QED BY <1>3, <1>4, <1>5, <1>6, <1>7

LEMMA NextSolo == TypeOK /\ OneThread /\ SoloInv /\ [Next]_vars => SoloInv'
<1> SUFFICES ASSUME TypeOK, OneThread, SoloInv, [Next]_vars PROVE SoloInv'
    OBVIOUS
<1>1. ASSUME NEW t \in Threads, Proceed(t)
      PROVE  SoloInv'
  <2>1. CASE AcceptTicket(t)
        BY <2>1, SubmissionSolo
  <2>2. CASE Fill(t)
        BY <2>2, NotFilling, SoloFill, SoloStep
  <2>3. CASE NoFill(t)
    <3>1. calls[t].order \in DOMAIN orders
          BY <2>3, FillingFields, CallFields DEF NoFill, Filling
    <3>2. orders' = Closed(calls[t].order) \/ UNCHANGED orders
          BY <2>3 DEF NoFill
    <3> QED BY <2>3, <3>1, <3>2, NotFilling, CloseFits, SoloStep
  <2>4. CASE QuoteFails(t) \/ RejectTicket(t) \/ AskConfirmation(t)
    <3>1. UNCHANGED orders
          BY <2>4 DEF QuoteFails, RejectTicket, AskConfirmation
    <3> QED BY <2>4, <3>1, NotFilling, SoloStep
  <2> QED BY <1>1, <2>1, <2>2, <2>3, <2>4 DEF Proceed
<1>2. ASSUME NEW t \in Threads, Call(t)
      PROVE  SoloInv'
  <2>1. CASE \E o \in DOMAIN orders, ticket \in Tickets : ReplaceOrder(t, o, ticket)
        BY <2>1, ReplaceSolo
  <2>2. CASE \E o \in DOMAIN orders : CancelOrder(t, o)
    <3>1. PICK o \in DOMAIN orders : orders' = Closed(o)
          BY <2>2 DEF CancelOrder
    <3> QED BY <2>2, <3>1, NotFilling, CloseFits, SoloStep
  <2>3. CASE \/ \E a \in Accounts, batch \in Batches : SubmitOrders(t, a, batch)
             \/ \E r \in DOMAIN pending : ExpireReply(t, r) \/ DeclineReply(t, r) \/ ConfirmReply(t, r)
    <3>1. UNCHANGED orders
          BY <2>3 DEF SubmitOrders, ExpireReply, DeclineReply, ConfirmReply
    <3> QED BY <2>3, <3>1, NotFilling, SoloStep
  <2> QED BY <1>2, <2>1, <2>2, <2>3 DEF Call
<1>3. CASE UNCHANGED <<orders, calls>>
      BY <1>3 DEF SoloInv, TicketIsCurrent
<1> QED BY <1>1, <1>2, <1>3 DEF Next, Outside, MarkToMarket, MarketMoves, Tick, vars

LEMMA ArithmeticFollows == CountersInv /\ SoloInv => OrderArithmetic
<1> DEFINE Qty(o) == Total(LAMBDA i : executions[i].qty, FillsOf(o))
           Paid(o) == Total(LAMBDA i : executions[i].qty * executions[i].price, FillsOf(o))
<1>1. \A o : /\ Qty(o) = SumOver(Quantities(executions), TradesOf(executions, o))
             /\ Paid(o) = SumOver(Amounts(executions), TradesOf(executions, o))
      BY CounterTotals DEF FillsOf, TradesOf
<1>2. OrderArithmetic <=>
          \A o \in DOMAIN orders :
              /\ orders[o].filled = Qty(o)
              /\ orders[o].cost = Paid(o)
              /\ orders[o].remaining = Larger(0, orders[o].ticket.quantity - orders[o].filled)
              /\ orders[o].status = "Filled" => orders[o].remaining = 0
      BY Zenon DEF OrderArithmetic
<1> HIDE DEF Qty, Paid
<1> QED BY <1>1, <1>2 DEF CountersInv, SoloInv, RemainingFits

\* With one caller, each order's counters are what its executions add up to and
\* what remains is what its present ticket asks for beyond that, over any number
\* of partial fills, replacements and cancels (orders.py 196-216, 249-250).
THEOREM OrderArithmeticHolds ==
    ASSUME \A s, t \in Threads : s = t
    PROVE  Spec => []OrderArithmetic
<1>1. OneThread
      BY DEF OneThread
<1>2. TypeOK /\ SoloInv /\ [Next]_vars => SoloInv'
      BY <1>1, NextSolo
<1>3. Spec => []SoloInv
      BY <1>2, TypeCorrect, InitSolo, PTL DEF Spec
<1> QED BY <1>3, CountersAddUp, ArithmeticFollows, PTL

-------------------------------------------------------------------------------
(* One caller at a time: each order lives a life of OrderLifecycle           *)

\* What OrderLifecycle sees of an order.
Seen(order) == [open |-> order.status \notin {"Filled", "Cancelled"},
                filled |-> order.filled, quantity |-> order.ticket.quantity]

Book == [o \in DOMAIN orders |->
            [open |-> IsOpen(o), filled |-> orders[o].filled,
             quantity |-> orders[o].ticket.quantity]]

AskedQuantities == {t.quantity : t \in Tickets}

LEMMA BookIsSeen == Book = [o \in DOMAIN orders |-> Seen(orders[o])]
BY DEF Book, Seen, IsOpen

LEMMA SeenAfterChange ==
    ASSUME NEW o \in DOMAIN orders, NEW entry, orders' = [orders EXCEPT ![o] = entry]
    PROVE  Book' = [Book EXCEPT ![o] = Seen(entry)]
<1>1. Book' = [p \in DOMAIN orders' |-> Seen(orders'[p])]
      BY DEF Book, Seen, IsOpen
<1>2. DOMAIN orders' = DOMAIN orders
      OBVIOUS
<1>3. \A p \in DOMAIN orders : Seen(orders'[p]) = IF p = o THEN Seen(entry) ELSE Seen(orders[p])
      OBVIOUS
<1>4. Book = [p \in DOMAIN orders |-> Seen(orders[p])]
      BY BookIsSeen
<1> QED BY <1>1, <1>2, <1>3, <1>4

LEMMA SeenAfterSubmission ==
    ASSUME TypeOK, NEW entry \in OrderStates, orders' = Append(orders, entry)
    PROVE  Book' = Append(Book, Seen(entry))
<1> DEFINE n == Len(orders) + 1
<1>1. /\ orders \in Seq(OrderStates) /\ Len(orders) \in Nat /\ DOMAIN orders = 1..Len(orders)
      BY LenProperties DEF TypeOK, DataOK
<1>2. /\ DOMAIN orders' = 1..n /\ orders'[n] = entry
      /\ \A o \in 1..Len(orders) : orders'[o] = orders[o]
      BY <1>1, AppendProperties, LenProperties
<1>3. Book' = [o \in 1..n |-> Seen(orders'[o])]
      BY <1>2 DEF Book, Seen, IsOpen
<1>4. Book = [o \in 1..Len(orders) |-> Seen(orders[o])]
      BY <1>1, BookIsSeen
<1>5. Book \in Seq({Seen(orders[o]) : o \in 1..Len(orders)}) /\ Len(Book) = Len(orders)
      BY <1>1, <1>4
<1>6. Append(Book, Seen(entry)) = [o \in 1..n |-> IF o = n THEN Seen(entry) ELSE Book[o]]
      BY <1>1, <1>4, <1>5
<1>7. \A o \in 1..n : Seen(orders'[o]) = IF o = n THEN Seen(entry) ELSE Book[o]
      BY <1>1, <1>2, <1>4
<1> QED BY <1>3, <1>6, <1>7

\* The steps of OrderLifecycle, of the book as it is seen.
SeenAccept(after) ==
    \E q \in AskedQuantities : after = Append(Book, [open |-> TRUE, filled |-> 0, quantity |-> q])

SeenTrade(o, after) ==
    /\ Book[o].open
    /\ after[o].filled \in Book[o].filled..Book[o].quantity
    /\ after[o].filled = Book[o].quantity => ~after[o].open
    /\ after[o].open \in BOOLEAN
    /\ after = [Book EXCEPT ![o].open = after[o].open, ![o].filled = after[o].filled]

SeenClose(o, after) == Book[o].open /\ after = [Book EXCEPT ![o].open = FALSE]

SeenAmend(o, after) ==
    Book[o].open /\ \E q \in AskedQuantities : after = [Book EXCEPT ![o].quantity = q]

SeenStep(after) ==
    \/ SeenAccept(after)
    \/ \E o \in DOMAIN Book : SeenTrade(o, after) \/ SeenClose(o, after) \/ SeenAmend(o, after)

LEMMA SeenIsLifecycle == SeenStep(Book') => Lifecycle!Next
BY DEF SeenStep, SeenAccept, SeenTrade, SeenClose, SeenAmend, Book, AskedQuantities,
       Lifecycle!Next, Lifecycle!Accept, Lifecycle!Trade, Lifecycle!Close, Lifecycle!Amend

LEMMA AcceptIsAccept ==
    ASSUME TypeOK, SoloInv, OneThread, NEW t \in Threads, AcceptTicket(t)
    PROVE  SeenStep(Book')
<1>1. PICK entry \in OrderStates : /\ orders' = Append(orders, entry)
                                   /\ entry.status = "Submitted" /\ entry.filled = 0
      BY SubmissionSolo
<1>2. Book' = Append(Book, Seen(entry))
      BY <1>1, SeenAfterSubmission
<1>3. Seen(entry) = [open |-> TRUE, filled |-> 0, quantity |-> entry.ticket.quantity]
      BY <1>1 DEF Seen
<1>4. entry.ticket.quantity \in AskedQuantities
  <2>1. entry.ticket \in Tickets
        BY DEF OrderStates
  <2> QED BY <2>1 DEF AskedQuantities
<1>5. SeenAccept(Book')
      BY <1>2, <1>3, <1>4 DEF SeenAccept
<1> QED BY <1>5 DEF SeenStep

\* What an order of the book looks like, and what it becomes.
LEMMA SeenFields ==
    ASSUME NEW o \in DOMAIN orders
    PROVE  /\ o \in DOMAIN Book
           /\ Book[o] = Seen(orders[o])
           /\ Book[o].open <=> orders[o].status \notin {"Filled", "Cancelled"}
           /\ Book[o].filled = orders[o].filled
           /\ Book[o].quantity = orders[o].ticket.quantity
<1>1. o \in DOMAIN Book /\ Book[o] = Seen(orders[o])
      BY BookIsSeen
<1>2. Book[o].open = (orders[o].status \notin {"Filled", "Cancelled"})
      BY <1>1 DEF Seen
<1>3. Book[o].filled = orders[o].filled /\ Book[o].quantity = orders[o].ticket.quantity
      BY <1>1 DEF Seen
<1> QED BY <1>1, <1>2, <1>3

LEMMA SeenRecord ==
    ASSUME NEW s, DOMAIN s = {"open", "filled", "quantity"}, s = [x \in DOMAIN s |-> s[x]],
           NEW open, NEW filled, NEW quantity,
           s["open"] = open, s["filled"] = filled, s["quantity"] = quantity
    PROVE  s = [open |-> open, filled |-> filled, quantity |-> quantity]
OBVIOUS

\* Changing fields of an order that is seen as open.
Shut(seen) == [seen EXCEPT !.open = FALSE]
WithQuantity(seen, quantity) == [seen EXCEPT !.quantity = quantity]
WithTrade(seen, open, filled) == [[seen EXCEPT !.open = open] EXCEPT !.filled = filled]

LEMMA ShutSeen ==
    ASSUME NEW filled, NEW quantity, NEW seen,
           seen = [open |-> TRUE, filled |-> filled, quantity |-> quantity]
    PROVE  Shut(seen) = [open |-> FALSE, filled |-> filled, quantity |-> quantity]
<1> DEFINE s == [seen EXCEPT !.open = FALSE]
<1>1. DOMAIN s = {"open", "filled", "quantity"} /\ s = [x \in DOMAIN s |-> s[x]]
      OBVIOUS
<1>2. s["open"] = FALSE /\ s["filled"] = filled /\ s["quantity"] = quantity
      OBVIOUS
<1> HIDE DEF s
<1>3. s = [open |-> FALSE, filled |-> filled, quantity |-> quantity]
      BY <1>1, <1>2, SeenRecord
<1> QED BY <1>3 DEF s, Shut

LEMMA AmendedSeen ==
    ASSUME NEW filled, NEW quantity, NEW other, NEW seen,
           seen = [open |-> TRUE, filled |-> filled, quantity |-> quantity]
    PROVE  WithQuantity(seen, other) = [open |-> TRUE, filled |-> filled, quantity |-> other]
<1> DEFINE s == [seen EXCEPT !.quantity = other]
<1>1. DOMAIN s = {"open", "filled", "quantity"} /\ s = [x \in DOMAIN s |-> s[x]]
      OBVIOUS
<1>2. s["open"] = TRUE /\ s["filled"] = filled /\ s["quantity"] = other
      OBVIOUS
<1> HIDE DEF s
<1>3. s = [open |-> TRUE, filled |-> filled, quantity |-> other]
      BY <1>1, <1>2, SeenRecord
<1> QED BY <1>3 DEF s, WithQuantity

LEMMA TradedSeen ==
    ASSUME NEW filled, NEW quantity, NEW other, NEW open, NEW seen,
           seen = [open |-> TRUE, filled |-> filled, quantity |-> quantity]
    PROVE  WithTrade(seen, open, other) = [open |-> open, filled |-> other, quantity |-> quantity]
<1> DEFINE s == [[seen EXCEPT !.open = open] EXCEPT !.filled = other]
<1>1. DOMAIN s = {"open", "filled", "quantity"} /\ s = [x \in DOMAIN s |-> s[x]]
      OBVIOUS
<1>2. s["open"] = open /\ s["filled"] = other /\ s["quantity"] = quantity
      OBVIOUS
<1> HIDE DEF s
<1>3. s = [open |-> open, filled |-> other, quantity |-> quantity]
      BY <1>1, <1>2, SeenRecord
<1> QED BY <1>3 DEF s, WithTrade

\* A trade, or, when the ticket now asks for less than has been filled, a close.
LEMMA FillIsTradeOrClose ==
    ASSUME TypeOK, SoloInv, NEW t \in Threads, Fill(t)
    PROVE  SeenStep(Book')
<1> DEFINE o == calls[t].order
<1>1. PICK qty \in 0..orders[o].remaining, entry \in OrderStates :
          /\ o \in DOMAIN orders /\ orders[o].status = "Submitted"
          /\ orders' = [orders EXCEPT ![o] = entry]
          /\ RemainingFits(entry)
          /\ entry.filled = orders[o].filled + qty
          /\ entry.ticket = orders[o].ticket
          /\ entry.status \in {"Submitted", "Filled", "Cancelled"}
          /\ entry.remaining = 0 => entry.status = "Filled"
      BY SoloFill
<1> HIDE DEF o
<1> DEFINE filled == orders[o].filled
           quantity == orders[o].ticket.quantity
           open == entry.status \notin {"Filled", "Cancelled"}
<1>2. Book' = [Book EXCEPT ![o] = Seen(entry)]
      BY <1>1, SeenAfterChange
<1>3. /\ o \in DOMAIN Book /\ Book[o] = [open |-> TRUE, filled |-> filled, quantity |-> quantity]
      BY <1>1, SeenFields DEF Seen
<1>4. Seen(entry) = [open |-> open, filled |-> filled + qty, quantity |-> quantity]
      BY <1>1 DEF Seen
<1>5. /\ filled \in Nat /\ quantity \in Nat /\ qty \in Nat
      /\ orders[o].remaining = Larger(0, quantity - filled)
      /\ qty <= orders[o].remaining
      BY <1>1, OrderFields DEF SoloInv, RemainingFits
<1>6. entry.remaining = Larger(0, quantity - (filled + qty))
      BY <1>1 DEF RemainingFits
<1>7. entry.remaining = 0 => open = FALSE
      BY <1>1
<1>8. open \in BOOLEAN
      OBVIOUS
<1> HIDE DEF filled, quantity, open
<1>9. CASE filled <= quantity
  <2>1. filled + qty \in filled..quantity
        BY <1>5, <1>9 DEF Larger
  <2>2. filled + qty = quantity => ~open
        BY <1>5, <1>6, <1>7 DEF Larger
  <2>3. Book'[o] = [open |-> open, filled |-> filled + qty, quantity |-> quantity]
        BY <1>2, <1>3, <1>4
  <2>4. Book' = [Book EXCEPT ![o].open = open, ![o].filled = filled + qty]
    <3>1. WithTrade(Book[o], open, filled + qty) = Seen(entry)
          BY <1>3, <1>4, TradedSeen
    <3> QED BY <1>2, <1>3, <3>1 DEF WithTrade
  <2>5. /\ Book'[o].filled = filled + qty /\ Book'[o].open = open
        /\ Book[o].open /\ Book[o].filled = filled /\ Book[o].quantity = quantity
        BY <1>3, <2>3
  <2>6. SeenTrade(o, Book')
    <3> DEFINE after == Book'
    <3> HIDE DEF after
    <3> SUFFICES SeenTrade(o, after)
        BY DEF after
    <3> QED BY <1>8, <2>1, <2>2, <2>4, <2>5 DEF SeenTrade, after
  <2> QED BY <1>3, <2>6 DEF SeenStep
<1>10. CASE filled > quantity
  <2>1. qty = 0 /\ entry.remaining = 0
        BY <1>5, <1>6, <1>10 DEF Larger
  <2>2. Seen(entry) = [open |-> FALSE, filled |-> filled, quantity |-> quantity]
    <3>1. filled + qty = filled /\ open = FALSE
          BY <1>5, <1>7, <2>1
    <3> QED BY <1>4, <3>1
  <2>3. Book' = [Book EXCEPT ![o].open = FALSE]
    <3>1. Shut(Book[o]) = Seen(entry)
          BY <1>3, <2>2, ShutSeen
    <3> QED BY <1>2, <3>1 DEF Shut
  <2>4. SeenClose(o, Book')
        BY <1>3, <2>3 DEF SeenClose
  <2> QED BY <1>3, <2>4 DEF SeenStep
<1> QED BY <1>5, <1>9, <1>10

LEMMA CloseIsClose ==
    ASSUME TypeOK, SoloInv, NEW o \in DOMAIN orders, orders[o].status = "Submitted",
           orders' = Closed(o)
    PROVE  SeenStep(Book')
<1>1. PICK entry : /\ orders' = [orders EXCEPT ![o] = entry]
                   /\ entry = [orders[o] EXCEPT !.status = "Cancelled"]
      BY CloseFits
<1>2. Seen(entry) = [open |-> FALSE, filled |-> orders[o].filled,
                     quantity |-> orders[o].ticket.quantity]
      BY <1>1, OrderFields DEF Seen, OrderStates
<1>3. /\ o \in DOMAIN Book
      /\ Book[o] = [open |-> TRUE, filled |-> orders[o].filled,
                    quantity |-> orders[o].ticket.quantity]
      BY SeenFields DEF Seen
<1>4. Book' = [Book EXCEPT ![o] = Seen(entry)]
      BY <1>1, SeenAfterChange
<1>5. Book' = [Book EXCEPT ![o].open = FALSE]
  <2>1. Shut(Book[o]) = Seen(entry)
        BY <1>2, <1>3, ShutSeen
  <2> QED BY <1>4, <2>1 DEF Shut
<1>6. SeenClose(o, Book')
      BY <1>3, <1>5 DEF SeenClose
<1> QED BY <1>3, <1>6 DEF SeenStep

LEMMA ReplaceIsAmend ==
    ASSUME TypeOK, NEW t \in Threads, NEW o \in DOMAIN orders, NEW ticket \in Tickets,
           ReplaceOrder(t, o, ticket)
    PROVE  SeenStep(Book')
<1> DEFINE entry == Amended(orders[o], ticket)
<1>1. orders' = [orders EXCEPT ![o] = entry] /\ orders[o].status \notin {"Filled", "Cancelled"}
      BY DEF ReplaceOrder, IsOpen
<1>2. /\ entry.ticket = ticket /\ entry.status = orders[o].status
      /\ entry.filled = orders[o].filled
      BY OrderFields DEF Amended, OrderStates
<1> HIDE DEF entry
<1>3. Seen(entry) = [open |-> TRUE, filled |-> orders[o].filled, quantity |-> ticket.quantity]
      BY <1>1, <1>2 DEF Seen
<1>4. /\ o \in DOMAIN Book
      /\ Book[o] = [open |-> TRUE, filled |-> orders[o].filled,
                    quantity |-> orders[o].ticket.quantity]
      BY <1>1, SeenFields DEF Seen
<1>5. Book' = [Book EXCEPT ![o] = Seen(entry)]
      BY <1>1, SeenAfterChange
<1>6. Book' = [Book EXCEPT ![o].quantity = ticket.quantity]
  <2> DEFINE asked == ticket.quantity
             filled == orders[o].filled
             quantity == orders[o].ticket.quantity
             seen == Book[o]
  <2>1. /\ seen = [open |-> TRUE, filled |-> filled, quantity |-> quantity]
        /\ Seen(entry) = [open |-> TRUE, filled |-> filled, quantity |-> asked]
        BY <1>3, <1>4
  <2> HIDE DEF asked, filled, quantity, seen
  <2>2. WithQuantity(seen, asked) = Seen(entry)
        BY <2>1, AmendedSeen
  <2> QED BY <1>5, <2>2 DEF WithQuantity, seen, asked
<1>7. Book[o].open /\ ticket.quantity \in AskedQuantities
      BY <1>4 DEF AskedQuantities
<1>8. SeenAmend(o, Book')
      BY <1>6, <1>7 DEF SeenAmend
<1> QED BY <1>4, <1>8 DEF SeenStep

LEMMA NextIsLifecycle ==
    ASSUME TypeOK, OneThread, SoloInv, [Next]_vars
    PROVE  SeenStep(Book') \/ Book' = Book
<1>1. CASE UNCHANGED orders
      BY <1>1 DEF Book, IsOpen
<1>2. ASSUME NEW t \in Threads, Proceed(t)
      PROVE  SeenStep(Book') \/ UNCHANGED orders
  <2>1. CASE NoFill(t)
    <3>1. /\ calls[t].order \in DOMAIN orders /\ calls[t].step = "fill"
          /\ orders[calls[t].order].status = "Submitted"
          BY <2>1, FillingFields, CallFields DEF NoFill, Filling, SoloInv, TicketIsCurrent
    <3>2. orders' = Closed(calls[t].order) \/ UNCHANGED orders
          BY <2>1 DEF NoFill
    <3> QED BY <3>1, <3>2, CloseIsClose
  <2>2. CASE AcceptTicket(t) \/ Fill(t)
        BY <2>2, AcceptIsAccept, FillIsTradeOrClose
  <2>3. CASE QuoteFails(t) \/ RejectTicket(t) \/ AskConfirmation(t)
        BY <2>3 DEF QuoteFails, RejectTicket, AskConfirmation
  <2> QED BY <1>2, <2>1, <2>2, <2>3 DEF Proceed
<1>3. ASSUME NEW t \in Threads, Call(t)
      PROVE  SeenStep(Book') \/ UNCHANGED orders
  <2>1. ASSUME NEW o \in DOMAIN orders, CancelOrder(t, o)
        PROVE  SeenStep(Book')
    <3>1. orders[o].status = "Submitted" /\ orders' = Closed(o)
          BY <2>1, OrderFields DEF CancelOrder, IsOpen, Statuses
    <3> QED BY <3>1, CloseIsClose
  <2>2. ASSUME NEW o \in DOMAIN orders, NEW ticket \in Tickets, ReplaceOrder(t, o, ticket)
        PROVE  SeenStep(Book')
        BY <2>2, ReplaceIsAmend
  <2> QED BY <1>3, <2>1, <2>2 DEF Call, SubmitOrders, ExpireReply, DeclineReply, ConfirmReply
<1> QED BY <1>1, <1>2, <1>3 DEF Next, Outside, MarkToMarket, MarketMoves, Tick, vars

\* With one caller the order service implements OrderLifecycle: only open orders
\* trade, are amended or close, a trade stays within what is left, nothing that has
\* been filled is taken back and a closed order never changes again
\* (orders.py 196-216, 235, 247).
THEOREM LifecycleIsKept ==
    ASSUME \A s, t \in Threads : s = t
    PROVE  Spec => LifecycleKept
<1>1. OneThread
      BY DEF OneThread
<1>2. Spec => []SoloInv
  <2>1. TypeOK /\ SoloInv /\ [Next]_vars => SoloInv'
        BY <1>1, NextSolo
  <2> QED BY <2>1, TypeCorrect, InitSolo, PTL DEF Spec
<1>3. Init => Lifecycle!Init
  <2> SUFFICES ASSUME Init PROVE Lifecycle!Init
      OBVIOUS
  <2>1. DOMAIN orders = {}
        BY EmptySeq DEF Init
  <2>2. Book = <<>>
        BY <2>1 DEF Book
  <2> QED BY <2>2 DEF Lifecycle!Init, Book
<1>4. TypeOK /\ SoloInv /\ [Next]_vars => [Lifecycle!Next]_Book
      BY <1>1, NextIsLifecycle, SeenIsLifecycle
<1>5. Spec => Lifecycle!Spec
  <2>1. TypeOK /\ SoloInv /\ [Next]_vars
        => [Lifecycle!Next]_([o \in DOMAIN orders |->
               [open |-> IsOpen(o), filled |-> orders[o].filled,
                quantity |-> orders[o].ticket.quantity]])
        BY <1>4 DEF Book
  <2> QED BY <1>2, <1>3, <2>1, TypeCorrect, PTL DEF Spec, Lifecycle!Spec
<1> QED BY <1>5 DEF LifecycleKept


-------------------------------------------------------------------------------
(* The event file tells the book                                             *)

EventsAbout(events, o) == {i \in DOMAIN events : events[i].type \in OrderEvents /\ events[i].ref = o}
Submissions(events, o) == {i \in EventsAbout(events, o) : events[i].type = "order_submitted"}
Life(events, o) == {i \in EventsAbout(events, o) : i >= LastOf(Submissions(events, o))}
FillsIn(events, life) == {i \in life : events[i].type = "order_filled"}

\* The last event about an order tells its status.
StatusTold(order, last) ==
    /\ last.type = "order_cancelled" => order.status = "Cancelled"
    /\ order.status = "Cancelled" =>
          \/ last.type = "order_cancelled"
          \/ last.type = "order_filled" /\ last.ticket.tif = "IOC"
    /\ order.status = "Filled" => last.type = "order_filled"

OrderTold(order, o, events, trades) ==
    LET life == Life(events, o) IN
    /\ Submissions(events, o) # {}
    /\ Cardinality(FillsIn(events, life)) = Cardinality(TradesOf(trades, o))
    /\ StatusTold(order, events[LastOf(life)])

LogInv == \A o \in DOMAIN orders : OrderTold(orders[o], o, log, executions)

LEMMA LogInvSuffices == LogInv => LogTellsTheBook
<1> SUFFICES ASSUME LogInv, NEW o \in DOMAIN orders
             PROVE  LET life == LifeOf(o)
                        last == log[LastOf(life)]
                        status == orders[o].status IN
                    /\ Cardinality({i \in life : log[i].type = "order_filled"})
                         = Cardinality(FillsOf(o))
                    /\ last.type = "order_cancelled" => status = "Cancelled"
                    /\ status = "Cancelled" =>
                          \/ last.type = "order_cancelled"
                          \/ last.type = "order_filled" /\ last.ticket.tif = "IOC"
                    /\ status = "Filled" => last.type = "order_filled"
    BY DEF LogTellsTheBook
<1>1. EventsAbout(log, o) = EventsOf(o)
      BY DEF EventsAbout, EventsOf
<1>2. Life(log, o) = LifeOf(o)
      BY <1>1 DEF Life, LifeOf, Submissions
<1>3. TradesOf(executions, o) = FillsOf(o)
      BY DEF TradesOf, FillsOf
<1>4. OrderTold(orders[o], o, log, executions)
      BY DEF LogInv
<1> QED BY <1>2, <1>3, <1>4 DEF OrderTold, FillsIn, StatusTold

\* What LastOf finds.
LEMMA LastOfElement ==
    ASSUME NEW n \in Nat, NEW S \in SUBSET (1..n), S # {}
    PROVE  LastOf(S) \in S /\ \A j \in S : j <= LastOf(S)
BY GreatestElement DEF LastOf

LEMMA LastOfUnique ==
    ASSUME NEW n \in Nat, NEW S \in SUBSET (1..n), NEW i \in S, \A j \in S : j <= i
    PROVE  LastOf(S) = i
<1>1. LastOf(S) \in S /\ \A j \in S : j <= LastOf(S)
      BY LastOfElement
<1>2. i <= LastOf(S) /\ LastOf(S) <= i
      BY <1>1
<1>3. i \in Int /\ LastOf(S) \in Int
  <2>1. \A j \in 1..n : j \in Int
        OBVIOUS
  <2>2. i \in 1..n /\ LastOf(S) \in 1..n
        BY <1>1
  <2> QED BY <2>1, <2>2
<1> QED BY <1>2, <1>3

\* The numbers of the events about an order.
LEMMA LifeFields ==
    ASSUME NEW events \in Seq(Events), NEW o, Submissions(events, o) # {}
    PROVE  /\ Len(events) \in Nat /\ DOMAIN events = 1..Len(events)
           /\ EventsAbout(events, o) \in SUBSET (1..Len(events))
           /\ Life(events, o) \in SUBSET (1..Len(events)) /\ Life(events, o) # {}
           /\ LastOf(Submissions(events, o)) \in Submissions(events, o)
           /\ \A j \in Submissions(events, o) : j <= LastOf(Submissions(events, o))
           /\ LastOf(Life(events, o)) \in Life(events, o)
           /\ IsFiniteSet(FillsIn(events, Life(events, o)))
<1>1. Len(events) \in Nat /\ DOMAIN events = 1..Len(events)
      BY LenProperties
<1>2. /\ EventsAbout(events, o) \in SUBSET (1..Len(events))
      /\ Submissions(events, o) \in SUBSET (1..Len(events))
      BY <1>1 DEF EventsAbout, Submissions
<1>3. /\ LastOf(Submissions(events, o)) \in Submissions(events, o)
      /\ \A j \in Submissions(events, o) : j <= LastOf(Submissions(events, o))
      BY <1>1, <1>2, LastOfElement
<1>4. Life(events, o) \in SUBSET (1..Len(events))
      BY <1>2 DEF Life
<1>5. LastOf(Submissions(events, o)) \in Life(events, o)
  <2> DEFINE b == LastOf(Submissions(events, o))
  <2>1. b \in EventsAbout(events, o) /\ b >= b
        BY <1>2, <1>3 DEF Submissions
  <2> QED BY <2>1 DEF Life
<1>6. LastOf(Life(events, o)) \in Life(events, o)
      BY <1>1, <1>4, <1>5, LastOfElement
<1>7. IsFiniteSet(FillsIn(events, Life(events, o)))
  <2>1. FillsIn(events, Life(events, o)) \subseteq 1..Len(events) /\ IsFiniteSet(1..Len(events))
        BY <1>1, <1>4, FS_Interval DEF FillsIn
  <2> QED BY <2>1, FS_Subset
<1> QED BY <1>1, <1>2, <1>3, <1>4, <1>5, <1>6, <1>7

\* One event more: it is about one order, and the lives of the others are as before.
LEMMA EventOfAnother ==
    ASSUME NEW events \in Seq(Events), NEW e \in Events, NEW o, NEW order, NEW trades, NEW after,
           OrderTold(order, o, events, trades),
           ~(e.type \in OrderEvents /\ e.ref = o), TradesOf(after, o) = TradesOf(trades, o)
    PROVE  OrderTold(order, o, Append(events, e), after)
<1> DEFINE more == Append(events, e)
           n == Len(events) + 1
<1>1. /\ Submissions(events, o) # {} /\ Len(events) \in Nat /\ DOMAIN events = 1..Len(events)
      /\ Life(events, o) \in SUBSET (1..Len(events)) /\ LastOf(Life(events, o)) \in Life(events, o)
      BY LifeFields DEF OrderTold
<1>2. /\ DOMAIN more = 1..n /\ more[n] = e /\ \A i \in 1..Len(events) : more[i] = events[i]
      BY <1>1, AppendProperties, LenProperties
<1> HIDE DEF more
<1>3. EventsAbout(more, o) = EventsAbout(events, o)
      BY <1>1, <1>2 DEF EventsAbout
<1>4. Submissions(more, o) = Submissions(events, o)
  <2>1. \A i \in EventsAbout(events, o) : more[i] = events[i]
        BY <1>1, <1>2 DEF EventsAbout
  <2> QED BY <1>3, <2>1 DEF Submissions
<1>5. Life(more, o) = Life(events, o)
      BY <1>3, <1>4 DEF Life
<1>6. FillsIn(more, Life(more, o)) = FillsIn(events, Life(events, o))
      BY <1>1, <1>2, <1>5 DEF FillsIn
<1>7. more[LastOf(Life(more, o))] = events[LastOf(Life(events, o))]
      BY <1>1, <1>2, <1>5
<1>8. OrderTold(order, o, more, after)
      BY <1>4, <1>6, <1>7 DEF OrderTold
<1> QED BY <1>8 DEF more

\* One more event of the order: its life goes on with it.
LEMMA EventOfOrder ==
    ASSUME NEW events \in Seq(Events), NEW e \in Events, NEW o, NEW order, NEW before,
           NEW trades, NEW after, OrderTold(before, o, events, trades),
           e.type \in OrderEvents \ {"order_submitted"}, e.ref = o, StatusTold(order, e),
           Cardinality(TradesOf(after, o))
             = Cardinality(TradesOf(trades, o)) + One(e.type = "order_filled")
    PROVE  OrderTold(order, o, Append(events, e), after)
<1> DEFINE more == Append(events, e)
           n == Len(events) + 1
           S == FillsIn(events, Life(events, o))
           R == FillsIn(more, Life(more, o))
<1>1. /\ Submissions(events, o) # {} /\ Len(events) \in Nat /\ DOMAIN events = 1..Len(events)
      /\ Life(events, o) \in SUBSET (1..Len(events)) /\ IsFiniteSet(S)
      /\ LastOf(Submissions(events, o)) \in Submissions(events, o)
      BY LifeFields DEF OrderTold
<1>2. /\ DOMAIN more = 1..n /\ more[n] = e /\ \A i \in 1..Len(events) : more[i] = events[i]
      BY <1>1, AppendProperties, LenProperties
<1> HIDE DEF more
<1>3. EventsAbout(more, o) = EventsAbout(events, o) \cup {n}
      BY <1>1, <1>2 DEF EventsAbout
<1>4. Submissions(more, o) = Submissions(events, o)
  <2>1. \A i \in EventsAbout(events, o) : more[i] = events[i]
        BY <1>1, <1>2 DEF EventsAbout
  <2>2. more[n].type # "order_submitted"
        BY <1>2
  <2> QED BY <1>3, <2>1, <2>2 DEF Submissions
<1>5. Life(more, o) = Life(events, o) \cup {n}
  <2>1. n >= LastOf(Submissions(events, o))
    <3>1. LastOf(Submissions(events, o)) \in 1..Len(events)
          BY <1>1 DEF Submissions, EventsAbout
    <3> QED BY <1>1, <3>1
  <2> QED BY <1>3, <1>4, <2>1 DEF Life
<1>6. LastOf(Life(more, o)) = n
  <2>1. Life(more, o) \in SUBSET (1..n) /\ n \in Nat /\ n \in Life(more, o)
        BY <1>1, <1>5
  <2>2. \A j \in Life(more, o) : j <= n
        BY <2>1
  <2> HIDE DEF n
  <2> QED BY <2>1, <2>2, LastOfUnique
<1>7. n \notin S /\ R = S \cup (IF e.type = "order_filled" THEN {n} ELSE {})
      BY <1>1, <1>2, <1>5 DEF FillsIn
<1>8. Cardinality(R) = Cardinality(S) + One(e.type = "order_filled")
  <2> HIDE DEF R, S, n
  <2>1. Cardinality(S) \in Nat
        BY <1>1, FS_CardinalityType
  <2>2. CASE e.type = "order_filled"
        BY <1>1, <1>7, <2>2, FS_AddElement DEF One
  <2>3. CASE e.type # "order_filled"
    <3>1. R = S
          BY <1>7, <2>3
    <3> QED BY <2>1, <2>3, <3>1 DEF One
  <2> QED BY <2>2, <2>3
<1>9. Cardinality(S) = Cardinality(TradesOf(trades, o))
      BY DEF OrderTold
<1>10. OrderTold(order, o, more, after)
       BY <1>1, <1>2, <1>4, <1>6, <1>8, <1>9 DEF OrderTold
<1> QED BY <1>10 DEF more

\* A submission: the number begins a new life.
LEMMA EventOfNew ==
    ASSUME NEW events \in Seq(Events), NEW e \in Events, NEW o, NEW order, NEW trades,
           e.type = "order_submitted", e.ref = o, order.status = "Submitted",
           TradesOf(trades, o) = {}
    PROVE  OrderTold(order, o, Append(events, e), trades)
<1> DEFINE more == Append(events, e)
           n == Len(events) + 1
<1>1. Len(events) \in Nat /\ DOMAIN events = 1..Len(events)
      BY LenProperties
<1>2. /\ DOMAIN more = 1..n /\ more[n] = e /\ \A i \in 1..Len(events) : more[i] = events[i]
      BY <1>1, AppendProperties, LenProperties
<1> HIDE DEF more
<1>3. n \in EventsAbout(more, o) /\ EventsAbout(more, o) \in SUBSET (1..n) /\ n \in Nat
      BY <1>1, <1>2 DEF EventsAbout, OrderEvents
<1>4. n \in Submissions(more, o) /\ Submissions(more, o) \in SUBSET (1..n)
      BY <1>2, <1>3 DEF Submissions
<1> HIDE DEF n
<1>5. LastOf(Submissions(more, o)) = n
  <2>1. \A j \in Submissions(more, o) : j <= n
        BY <1>3, <1>4
  <2> QED BY <1>3, <1>4, <2>1, LastOfUnique
<1>6. Life(more, o) = {n}
      BY <1>3, <1>5 DEF Life
<1>7. LastOf(Life(more, o)) = n
  <2>1. \A j \in {n} : j <= n
        BY <1>3
  <2>2. {n} \in SUBSET (1..n) /\ n \in {n}
        BY <1>3
  <2>3. LastOf({n}) = n
        BY <1>3, <2>1, <2>2, LastOfUnique
  <2> QED BY <1>6, <2>3
<1>8. FillsIn(more, Life(more, o)) = {}
      BY <1>2, <1>6 DEF FillsIn
<1>9. OrderTold(order, o, more, trades)
      BY <1>2, <1>4, <1>7, <1>8 DEF OrderTold, StatusTold
<1> QED BY <1>9 DEF more

LEMMA TradesCount ==
    ASSUME TypeOK, NEW o
    PROVE  /\ IsFiniteSet(TradesOf(executions, o))
           /\ Cardinality(TradesOf(executions, o)) \in Nat
<1>1. Len(executions) \in Nat /\ DOMAIN executions = 1..Len(executions)
      BY LenProperties DEF TypeOK, DataOK
<1>2. TradesOf(executions, o) \subseteq 1..Len(executions) /\ IsFiniteSet(1..Len(executions))
      BY <1>1, FS_Interval DEF TradesOf
<1> QED BY <1>2, FS_Subset, FS_CardinalityType

\* A step that records something about one order and changes nothing but it.
LEMMA OrderLogged ==
    ASSUME TypeOK, LogInv, NEW b \in DOMAIN orders, NEW e \in Events, NEW order,
           log' = Append(log, e), orders' = [orders EXCEPT ![b] = order],
           e.type \in OrderEvents \ {"order_submitted"}, e.ref = b, StatusTold(order, e),
           Cardinality(TradesOf(executions', b))
             = Cardinality(TradesOf(executions, b)) + One(e.type = "order_filled"),
           \A o \in DOMAIN orders \ {b} : TradesOf(executions', o) = TradesOf(executions, o)
    PROVE  LogInv'
<1>1. log \in Seq(Events)
      BY DEF TypeOK, DataOK
<1>2. ASSUME NEW o \in DOMAIN orders
      PROVE  OrderTold(orders'[o], o, log', executions')
  <2>1. OrderTold(orders[o], o, log, executions)
        BY DEF LogInv
  <2>2. CASE o = b
    <3>1. orders'[o] = order
          BY <2>2
    <3> QED BY <1>1, <2>1, <2>2, <3>1, EventOfOrder
  <2>3. CASE o # b
    <3>1. orders'[o] = orders[o] /\ e.ref # o
          BY <2>3
    <3> QED BY <1>1, <2>1, <2>3, <3>1, EventOfAnother
  <2> QED BY <2>2, <2>3
<1> QED BY <1>2 DEF LogInv

\* A step that records nothing about an order and executes nothing.
LEMMA NothingLogged ==
    ASSUME TypeOK, LogInv, UNCHANGED <<orders, executions>>,
           \/ UNCHANGED log
           \/ \E e \in Events : log' = Append(log, e) /\ e.type \notin OrderEvents
    PROVE  LogInv'
<1>1. log \in Seq(Events)
      BY DEF TypeOK, DataOK
<1>2. CASE UNCHANGED log
      BY <1>2 DEF LogInv
<1>3. ASSUME NEW e \in Events, log' = Append(log, e), e.type \notin OrderEvents
      PROVE  LogInv'
  <2>1. ASSUME NEW o \in DOMAIN orders
        PROVE  OrderTold(orders[o], o, log', executions)
    <3>1. OrderTold(orders[o], o, log, executions)
          BY DEF LogInv
    <3> QED BY <1>1, <1>3, <3>1, EventOfAnother
  <2> QED BY <2>1 DEF LogInv
<1> QED BY <1>2, <1>3

LEMMA CloseLogged ==
    ASSUME TypeOK, LogInv, NEW o \in DOMAIN orders, orders' = Closed(o), UNCHANGED executions,
           log' = Append(log, Event("order_cancelled", o, orders[o].ticket))
    PROVE  LogInv'
<1> DEFINE e == Event("order_cancelled", o, orders[o].ticket)
           order == [orders[o] EXCEPT !.status = "Cancelled"]
<1>1. o \in Nat /\ orders[o] \in OrderStates /\ now \in Nat
      BY CallFields, ElementOfSeq, LenProperties DEF TypeOK, DataOK
<1>2. e \in Events
  <2>1. orders[o].ticket \in Tickets
        BY <1>1 DEF OrderStates
  <2> QED BY <1>1, <2>1, EventType DEF EventTypes, OrderEvents
<1>3. e.type = "order_cancelled" /\ e.ref = o
      BY DEF Event
<1>4. order.status = "Cancelled"
      BY <1>1 DEF OrderStates
<1>5. orders' = [orders EXCEPT ![o] = order] /\ log' = Append(log, e)
      BY DEF Closed
<1> HIDE DEF e, order
<1>6. StatusTold(order, e)
      BY <1>3, <1>4 DEF StatusTold
<1>7. Cardinality(TradesOf(executions', o))
        = Cardinality(TradesOf(executions, o)) + One(e.type = "order_filled")
  <2>1. Cardinality(TradesOf(executions, o)) \in Nat
        BY TradesCount
  <2> QED BY <1>3, <2>1 DEF One
<1>8. e.type \in OrderEvents \ {"order_submitted"}
      BY <1>3 DEF OrderEvents
<1> QED BY <1>2, <1>3, <1>5, <1>6, <1>7, <1>8, OrderLogged

LEMMA ReplaceLogged ==
    ASSUME TypeOK, LogInv, NEW t \in Threads, NEW o \in DOMAIN orders, NEW ticket \in Tickets,
           ReplaceOrder(t, o, ticket)
    PROVE  LogInv'
<1> DEFINE e == Event("order_replaced", o, ticket)
           order == Amended(orders[o], ticket)
<1>1. o \in Nat /\ orders[o] \in OrderStates /\ now \in Nat
      BY CallFields, ElementOfSeq, LenProperties DEF TypeOK, DataOK
<1>2. e \in Events
      BY <1>1, EventType DEF EventTypes, OrderEvents
<1>3. e.type = "order_replaced" /\ e.ref = o
      BY DEF Event
<1>4. order.status = orders[o].status /\ orders[o].status \notin {"Filled", "Cancelled"}
      BY <1>1 DEF OrderStates, Amended, ReplaceOrder, IsOpen
<1>5. /\ orders' = [orders EXCEPT ![o] = order] /\ log' = Append(log, e)
      /\ UNCHANGED executions
      BY DEF ReplaceOrder
<1> HIDE DEF e, order
<1>6. StatusTold(order, e)
      BY <1>3, <1>4 DEF StatusTold
<1>7. Cardinality(TradesOf(executions', o))
        = Cardinality(TradesOf(executions, o)) + One(e.type = "order_filled")
  <2>1. Cardinality(TradesOf(executions, o)) \in Nat
        BY TradesCount
  <2> QED BY <1>3, <1>5, <2>1 DEF One
<1>8. e.type \in OrderEvents \ {"order_submitted"}
      BY <1>3 DEF OrderEvents
<1> QED BY <1>2, <1>3, <1>5, <1>6, <1>7, <1>8, OrderLogged

LEMMA FillLogged ==
    ASSUME TypeOK, LogInv, NEW t \in Threads, Fill(t)
    PROVE  LogInv'
<1>1. PICK quote \in Quotes : Fill(t)!(quote)
      BY DEF Fill
<1> DEFINE b == calls[t].order
           ticket == calls[t].ticket
           price == FillPrice(ticket, quote)
           qty == FillQuantity(orders[b].remaining, ticket, quote)
           trade == [order |-> b, account |-> orders[b].account, conid |-> ticket.conid,
                     side |-> ticket.side, price |-> price, qty |-> qty,
                     commission |-> EstimateCommission(qty, price)]
           order == AfterFill(orders[b], ticket, qty, price)
           e == Event("order_filled", b, ticket)
           n == Len(executions) + 1
<1>2. /\ calls[t].step = "fill" /\ Executes(ticket, quote)
      /\ executions' = Append(executions, trade) /\ orders' = [orders EXCEPT ![b] = order]
      /\ log' = Append(log, e)
      BY <1>1 DEF Filling
<1>3. /\ b \in DOMAIN orders /\ b \in Nat /\ orders[b] \in OrderStates /\ ticket \in Tickets
      /\ now \in Nat
      BY <1>2, CallFields, FillingFields DEF TypeOK, DataOK
<1>4. trade \in Executions /\ trade.order = b
      BY <1>2, FillingFields, ExecutionType
<1>5. e \in Events
      BY <1>3, EventType DEF EventTypes, OrderEvents
<1>6. e.type = "order_filled" /\ e.ref = b /\ e.ticket = ticket
      BY DEF Event
<1>7. \E left : order.status = StatusAfter(left, ticket.tif)
      BY <1>3 DEF AfterFill, OrderStates
<1> HIDE DEF trade, order, e
<1>8. StatusTold(order, e)
      BY <1>6, <1>7 DEF StatusTold, StatusAfter
<1>9. /\ executions \in Seq(Executions) /\ Len(executions) \in Nat
      /\ DOMAIN executions = 1..Len(executions)
      BY LenProperties DEF TypeOK, DataOK
<1>10. /\ DOMAIN executions' = 1..n /\ executions'[n] = trade
       /\ \A i \in 1..Len(executions) : executions'[i] = executions[i]
       BY <1>2, <1>4, <1>9, AppendProperties, LenProperties
<1>11. ASSUME NEW o \in DOMAIN orders \ {b}
       PROVE  TradesOf(executions', o) = TradesOf(executions, o)
       BY <1>4, <1>9, <1>10 DEF TradesOf
<1>12. TradesOf(executions', b) = TradesOf(executions, b) \cup {n} /\ n \notin TradesOf(executions, b)
       BY <1>4, <1>9, <1>10 DEF TradesOf
<1> HIDE DEF n, b
<1>13. Cardinality(TradesOf(executions', b))
         = Cardinality(TradesOf(executions, b)) + One(e.type = "order_filled")
       BY <1>6, <1>12, TradesCount, FS_AddElement DEF One
<1>14. e.type \in OrderEvents \ {"order_submitted"}
       BY <1>6 DEF OrderEvents
<1> QED BY <1>2, <1>3, <1>5, <1>6, <1>8, <1>11, <1>13, <1>14, OrderLogged

LEMMA SubmissionLogged ==
    ASSUME TypeOK, CountersInv, LogInv, NEW t \in Threads, AcceptTicket(t)
    PROVE  LogInv'
<1>1. PICK ticket \in Tickets, quote \in Quotes : AcceptTicket(t)!(ticket, quote)
      BY DEF AcceptTicket
<1> DEFINE n == Len(orders) + 1
           order == [account |-> calls[t].account, ticket |-> ticket, status |-> "Submitted",
                     filled |-> 0, remaining |-> ticket.quantity, cost |-> 0]
           e == Event("order_submitted", n, ticket)
<1>2. orders' = Append(orders, order) /\ log' = Append(log, e) /\ UNCHANGED executions
      BY <1>1
<1>3. order \in OrderStates /\ order.status = "Submitted"
      BY CallFields, TicketFields DEF OrderStates, Statuses
<1>4. /\ orders \in Seq(OrderStates) /\ Len(orders) \in Nat /\ DOMAIN orders = 1..Len(orders)
      /\ log \in Seq(Events) /\ now \in Nat
      BY LenProperties DEF TypeOK, DataOK
<1> HIDE DEF order
<1>5. /\ DOMAIN orders' = 1..n /\ orders'[n] = order
      /\ \A o \in 1..Len(orders) : orders'[o] = orders[o]
      BY <1>2, <1>3, <1>4, AppendProperties, LenProperties
<1>6. n \in Nat /\ n \notin DOMAIN orders
      BY <1>4
<1>7. \A o \in DOMAIN orders' : o = n \/ o \in DOMAIN orders
      BY <1>4, <1>5
<1> HIDE DEF n
<1>8. e \in Events
      BY <1>4, <1>6, EventType DEF EventTypes, OrderEvents
<1>9. e.type = "order_submitted" /\ e.ref = n
      BY DEF Event
<1> HIDE DEF e
<1>10. TradesOf(executions, n) = {}
       BY <1>6 DEF CountersInv, TradesOf
<1>11. OrderTold(orders'[n], n, log', executions')
       BY <1>2, <1>3, <1>4, <1>5, <1>8, <1>9, <1>10, EventOfNew
<1>12. ASSUME NEW o \in DOMAIN orders
       PROVE  OrderTold(orders'[o], o, log', executions')
  <2>1. OrderTold(orders[o], o, log, executions) /\ orders'[o] = orders[o] /\ e.ref # o
        BY <1>4, <1>5, <1>6, <1>9 DEF LogInv
  <2>2. OrderTold(orders[o], o, Append(log, e), executions)
        BY <1>4, <1>8, <2>1, EventOfAnother
  <2> QED BY <1>2, <2>1, <2>2
<1> QED BY <1>7, <1>11, <1>12 DEF LogInv

LEMMA NextLogged == TypeOK /\ CountersInv /\ LogInv /\ [Next]_vars => LogInv'
<1> SUFFICES ASSUME TypeOK, CountersInv, LogInv, [Next]_vars PROVE LogInv'
    OBVIOUS
<1>1. now \in Nat /\ replies \in Nat
      BY DEF TypeOK, DataOK
<1>2. ASSUME NEW t \in Threads, Proceed(t)
      PROVE  LogInv'
  <2>1. CASE AcceptTicket(t)
        BY <2>1, SubmissionLogged
  <2>2. CASE Fill(t)
        BY <2>2, FillLogged
  <2>3. CASE NoFill(t)
    <3> DEFINE o == calls[t].order
    <3>1. o \in DOMAIN orders
          BY <2>3, FillingFields, CallFields DEF NoFill, Filling
    <3>2. /\ UNCHANGED executions
          /\ \/ UNCHANGED <<orders, log>>
             \/ /\ orders' = Closed(o)
                /\ log' = Append(log, Event("order_cancelled", o, orders[o].ticket))
          BY <2>3 DEF NoFill
    <3> HIDE DEF o
    <3> QED BY <3>1, <3>2, CloseLogged, NothingLogged
  <2>4. CASE QuoteFails(t)
        BY <2>4, NothingLogged DEF QuoteFails
  <2>5. CASE RejectTicket(t)
    <3>1. PICK ticket \in Tickets : log' = Append(log, Event("order_rejected", 0, ticket))
          BY <2>5 DEF RejectTicket
    <3>2. Event("order_rejected", 0, ticket) \in Events
          BY <1>1, EventType DEF EventTypes
    <3>3. Event("order_rejected", 0, ticket).type \notin OrderEvents
          BY DEF Event, OrderEvents
    <3>4. UNCHANGED <<orders, executions>>
          BY <2>5 DEF RejectTicket
    <3> QED BY <3>1, <3>2, <3>3, <3>4, NothingLogged
  <2>6. CASE AskConfirmation(t)
    <3>1. PICK ticket \in Tickets :
              log' = Append(log, Event("order_confirmation_required", replies + 1, ticket))
          BY <2>6 DEF AskConfirmation
    <3> DEFINE e == Event("order_confirmation_required", replies + 1, ticket)
    <3>2. e \in Events
      <4>1. replies + 1 \in Nat
            BY <1>1
      <4> QED BY <1>1, <4>1, EventType DEF EventTypes, ReplyEvents
    <3>3. e.type \notin OrderEvents
          BY DEF Event, OrderEvents
    <3>4. UNCHANGED <<orders, executions>>
          BY <2>6 DEF AskConfirmation
    <3> HIDE DEF e
    <3> QED BY <3>1, <3>2, <3>3, <3>4, NothingLogged DEF e
  <2> QED BY <1>2, <2>1, <2>2, <2>3, <2>4, <2>5, <2>6 DEF Proceed
<1>3. ASSUME NEW r \in DOMAIN pending, NEW type \in {"order_confirmed", "order_confirmation_declined"},
             Answer(r), log' = Append(log, Event(type, r, pending[r].ticket)),
             UNCHANGED <<orders, executions>>
      PROVE  LogInv'
  <2>1. Event(type, r, pending[r].ticket) \in Events
        BY <1>1, <1>3, AnswerType, EventType DEF EventTypes, ReplyEvents
  <2>2. Event(type, r, pending[r].ticket).type \notin OrderEvents
        BY DEF Event, OrderEvents
  <2> QED BY <1>3, <2>1, <2>2, NothingLogged
<1>4. ASSUME NEW t \in Threads, Call(t)
      PROVE  LogInv'
  <2>1. ASSUME NEW r \in DOMAIN pending, DeclineReply(t, r) \/ ConfirmReply(t, r)
        PROVE  LogInv'
        BY <1>3, <2>1 DEF DeclineReply, ConfirmReply
  <2>2. ASSUME NEW o \in DOMAIN orders, CancelOrder(t, o)
        PROVE  LogInv'
        BY <2>2, CloseLogged DEF CancelOrder
  <2>3. ASSUME NEW o \in DOMAIN orders, NEW ticket \in Tickets, ReplaceOrder(t, o, ticket)
        PROVE  LogInv'
        BY <2>3, ReplaceLogged
  <2>4. CASE UNCHANGED <<orders, executions, log>>
        BY <2>4, NothingLogged
  <2> QED BY <1>4, <2>1, <2>2, <2>3, <2>4 DEF Call, SubmitOrders, ExpireReply
<1>5. CASE UNCHANGED <<orders, executions, log>>
      BY <1>5, NothingLogged
<1> QED BY <1>2, <1>4, <1>5 DEF Next, Outside, MarkToMarket, MarketMoves, Tick, vars

\* Who reads the event file from an order's latest submission on knows its executions
\* and its status, whatever the threads of both front ends do at once and however
\* often the service was started again on the file (orders.py 156-238, events.py 46-71).
THEOREM LogAlwaysTellsTheBook == ProcessSpec => []LogTellsTheBook
<1> DEFINE Inv == CountersInv /\ LogInv
<1>1. ProcessInit => Inv
  <2> SUFFICES ASSUME ProcessInit PROVE Inv
      OBVIOUS
  <2>1. Init /\ DOMAIN orders = {}
        BY EmptySeq DEF ProcessInit, Init
  <2> QED BY <2>1, InitCounters DEF LogInv
<1>2. TypeOK /\ TypeOK' /\ Inv /\ [ProcessNext]_processVars => Inv'
  <2>1. ASSUME TypeOK, Inv, NEW t \in Threads, NEW a \in Accounts, NEW ticket \in Tickets,
               PlaceOrder(t, a, ticket)
        PROVE  Inv'
    <3>1. UNCHANGED <<orders, executions, log>>
          BY <2>1 DEF PlaceOrder, SubmitOrders
    <3> QED BY <2>1, <3>1, NoTradeNoCount, NothingLogged
  <2>2. ASSUME Restart
        PROVE  Inv'
    <3>1. DOMAIN orders' = {} /\ DOMAIN executions' = {}
          BY <2>2, EmptySeq DEF Restart
    <3> QED BY <3>1 DEF CountersInv, LogInv
  <2> QED BY <2>1, <2>2, ProcessSteps, NextCounters, NextLogged
<1>3. Inv => LogTellsTheBook
      BY LogInvSuffices
<1> HIDE DEF Inv
<1>4. ProcessSpec => []Inv
      BY <1>1, <1>2, ProcessTypeCorrect, PTL DEF ProcessSpec
<1> QED BY <1>3, <1>4, PTL

===============================================================================
