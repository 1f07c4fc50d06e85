-------------------------------- MODULE Orders --------------------------------
(***************************************************************************)
(* OrderService (orders.py): the life of an order from the submitted ticket *)
(* over the risk check, the confirmation reply, the fill attempt, cancel    *)
(* and replace, with the account books (accounts.py) and the event store    *)
(* (events.py) it writes.                                                   *)
(*                                                                         *)
(* A call of the service runs from one market data request to the next:    *)
(* that is where it waits for the network, and where a thread of the web   *)
(* server's pool lets the others run.  A call that waits for a quote is    *)
(* kept in calls[t], so with one thread the model is the library used      *)
(* sequentially and with several it is the web adapter.                    *)
(***************************************************************************)
EXTENDS TradeRules, Sequences, FiniteSets, FiniteSetsExt

CONSTANTS
    Threads,        \* the threads that call the service
    Accounts,
    Conids,         \* the contracts that have been seeded
    Tickets,        \* the tickets a client may send
    Batches,        \* the ticket lists of a submit call
    Quotes,         \* the quotes the market data provider may return
    NoQuote,        \* the provider raises
    NoTicket,
    Multiplier,     \* contract multiplier, 1 for stocks and currencies
    InitialCash,
    ListLimit,      \* rows list_events returns at most (1000)
    ConfirmTTL,     \* age at which a reply can no longer be confirmed (2 minutes)
    MaxLog,         \* bound: no new call once the log holds this many events
    MaxTime         \* bound on the clock

ASSUME OrdersAssumption ==
    /\ Tickets \subseteq WellFormedTickets(Conids)
    /\ Batches \subseteq Seq(Tickets) \ {<<>>}
    /\ Quotes \subseteq QuoteRecords
    /\ NoQuote \notin QuoteRecords
    /\ NoTicket \notin Tickets
    /\ Multiplier \in [Conids -> Nat \ {0}]
    /\ InitialCash \in Nat
    /\ ListLimit \in Nat /\ ConfirmTTL \in Nat
    /\ MaxLog \in Nat /\ MaxTime \in Nat

VARIABLES
    now,            \* SimClock.now()
    market,         \* what quote(conid) answers
    orders,         \* the order book; order id 1_000_000 + i is entry i
    executions,
    pending,        \* pending_confirmations, by reply id
    replies,        \* reply ids handed out (uuid4: never the same twice)
    log,            \* the event store
    cash,           \* AccountSnapshot.total_cash_value
    position,       \* Position.position
    marketValue,    \* Position.market_value
    calls           \* the call each thread is in

books == <<cash, position, marketValue>>
vars == <<now, market, orders, executions, pending, replies, log, books, calls>>

-------------------------------------------------------------------------------
(* State                                                                     *)

Statuses == {"Submitted", "Filled", "Cancelled"}

\* avg_fill_price of the code is cost \div filled.
OrderStates ==
    [account : Accounts, ticket : Tickets, status : Statuses,
     filled : Nat, remaining : Nat, cost : Nat]

Executions ==
    [order : Nat, account : Accounts, conid : Conids, side : Sides,
     price : Nat, qty : Nat, commission : Nat]

Confirmations == [account : Accounts, ticket : Tickets]

OrderEvents ==
    {"order_submitted", "order_filled", "order_cancelled", "order_replaced"}
ReplyEvents ==
    {"order_confirmation_required", "order_confirmed", "order_confirmation_declined"}

\* ref is the order id or the reply id.  The ticket of a reply event is not in
\* the stored payload: it is kept to tell what was asked and answered.
Events ==
    [type : OrderEvents \cup ReplyEvents \cup {"order_rejected"},
     ref : Nat, ts : Nat, ticket : Tickets]

\* step "check": about to ask for the quote of the risk check of Head(todo);
\* step "fill": about to ask for the quote that may fill order, with the ticket
\* _try_fill has already read from it; todo are the tickets still to come.
Calls ==
    [step : {"idle", "check", "fill"}, account : Accounts, todo : Seq(Tickets),
     bypass : BOOLEAN, order : Nat, ticket : Tickets \cup {NoTicket}]

Idle(a) ==
    [step |-> "idle", account |-> a, todo |-> <<>>, bypass |-> FALSE,
     order |-> 0, ticket |-> NoTicket]

IsIdle(t) == calls[t].step = "idle"
IsOpen(o) == orders[o].status \notin {"Filled", "Cancelled"}

NetLiq(a) == cash[a] + MapThenSumSet(LAMBDA c : marketValue[a][c], Conids)

DataOK ==
    /\ now \in Nat
    /\ market \in [Conids -> Quotes \cup {NoQuote}]
    /\ orders \in Seq(OrderStates)
    /\ executions \in Seq(Executions)
    /\ replies \in Nat
    /\ DOMAIN pending \subseteq 1..replies
    /\ pending \in [DOMAIN pending -> Confirmations]
    /\ log \in Seq(Events)
    /\ cash \in [Accounts -> Int]
    /\ position \in [Accounts -> [Conids -> Int]]
    /\ marketValue \in [Accounts -> [Conids -> Int]]

\* A call that checks has a ticket to check, one that fills has one of the
\* booked orders to fill.
CallFits(call, booked) ==
    /\ call \in Calls
    /\ call.step = "check" => call.todo # <<>>
    /\ call.step = "fill" => call.order \in 1..booked /\ call.ticket \in Tickets

CallsOK ==
    /\ calls \in [Threads -> Calls]
    /\ \A t \in Threads : CallFits(calls[t], Len(orders))

TypeOK == DataOK /\ CallsOK

Init ==
    /\ now = 0
    /\ market \in [Conids -> Quotes]
    /\ orders = <<>>
    /\ executions = <<>>
    /\ pending = <<>>
    /\ replies = 0
    /\ log = <<>>
    /\ cash = [a \in Accounts |-> InitialCash]
    /\ position = [a \in Accounts |-> [c \in Conids |-> 0]]
    /\ marketValue = [a \in Accounts |-> [c \in Conids |-> 0]]
    /\ \E a \in Accounts : calls = [t \in Threads |-> Idle(a)]

-------------------------------------------------------------------------------
(* Steps shared by the calls                                                 *)

Event(type, ref, ticket) == [type |-> type, ref |-> ref, ts |-> now, ticket |-> ticket]

Goto(t, call) == calls' = [calls EXCEPT ![t] = call]
Return(t) == Goto(t, Idle(calls[t].account))

\* A client may start a call on an idle thread while the log has room.
MayCall(t) == IsIdle(t) /\ Len(log) < MaxLog

\* Goes on after the last ticket of the list.
NextTicketMutant(call, rest) ==
    [call EXCEPT !.step = "check", !.todo = rest, !.order = 0, !.ticket = NoTicket]

\* The call with the tickets still to be submitted after this one.
NextTicket(call, rest) ==
    IF rest = <<>> THEN Idle(call.account)
    ELSE [call EXCEPT !.step = "check", !.todo = rest, !.order = 0, !.ticket = NoTicket]

\* Asks again until there is a quote.
QuoteFailsMutant(t) ==
    /\ \/ calls[t].step = "check" /\ market[Head(calls[t].todo).conid] = NoQuote
       \/ calls[t].step = "fill" /\ market[calls[t].ticket.conid] = NoQuote
    /\ UNCHANGED vars

\* market_data.quote raises: the call ends, what it did so far stays done.
QuoteFails(t) ==
    /\ \/ calls[t].step = "check" /\ market[Head(calls[t].todo).conid] = NoQuote
       \/ calls[t].step = "fill" /\ market[calls[t].ticket.conid] = NoQuote
    /\ Return(t)
    /\ UNCHANGED <<now, market, orders, executions, pending, replies, log, books>>

-------------------------------------------------------------------------------
(* submit_orders                                                             *)

SubmitOrders(t, a, batch) ==
    /\ MayCall(t)
    /\ Goto(t, [Idle(a) EXCEPT !.step = "check", !.todo = batch])
    /\ UNCHANGED <<now, market, orders, executions, pending, replies, log, books>>

\* The risk check of the next ticket, with the quote it is made with.
Checking(t, ticket, quote) ==
    /\ calls[t].step = "check"
    /\ ticket = Head(calls[t].todo)
    /\ quote = market[ticket.conid]
    /\ quote # NoQuote

\* Not accepted: an event and OrderRejected; earlier tickets of the list stay.
RejectTicket(t) ==
    \E ticket \in Tickets, quote \in Quotes :
        /\ Checking(t, ticket, quote)
        /\ AllIn(ticket, NetLiq(calls[t].account), quote)
        /\ log' = Append(log, Event("order_rejected", 0, ticket))
        /\ Return(t)
        /\ UNCHANGED <<now, market, orders, executions, pending, replies, books>>

AskConfirmation(t) ==
    \E ticket \in Tickets, quote \in Quotes :
        LET netLiq == NetLiq(calls[t].account) IN
        /\ Checking(t, ticket, quote)
        /\ ~AllIn(ticket, netLiq, quote)
        /\ RequiresConfirmation(ticket, netLiq, quote)
        /\ ~calls[t].bypass
        /\ replies' = replies + 1
        /\ pending' = [r \in DOMAIN pending \cup {replies'} |->
                          IF r = replies'
                          THEN [account |-> calls[t].account, ticket |-> ticket]
                          ELSE pending[r]]
        /\ log' = Append(log, Event("order_confirmation_required", replies', ticket))
        /\ Goto(t, NextTicket(calls[t], Tail(calls[t].todo)))
        /\ UNCHANGED <<now, market, orders, executions, books>>

\* A confirmed reply waives the whole risk check.
PassesMutant(call, ticket, quote) ==
    LET netLiq == NetLiq(call.account) IN
    call.bypass \/ (~AllIn(ticket, netLiq, quote) /\ ~RequiresConfirmation(ticket, netLiq, quote))

\* A confirmed reply waives the warnings only.
Passes(call, ticket, quote) ==
    LET netLiq == NetLiq(call.account) IN
    /\ ~AllIn(ticket, netLiq, quote)
    /\ RequiresConfirmation(ticket, netLiq, quote) => call.bypass

\* _submit_one up to the quote of the fill attempt.
AcceptTicket(t) ==
    \E ticket \in Tickets, quote \in Quotes :
        LET call == calls[t]
            id == Len(orders) + 1 IN
        /\ Checking(t, ticket, quote)
        /\ Passes(call, ticket, quote)
        /\ orders' = Append(orders,
                        [account |-> call.account, ticket |-> ticket,
                         status |-> "Submitted", filled |-> 0,
                         remaining |-> ticket.quantity, cost |-> 0])
        /\ log' = Append(log, Event("order_submitted", id, ticket))
        /\ Goto(t, [call EXCEPT !.step = "fill", !.todo = Tail(call.todo),
                                !.order = id, !.ticket = ticket])
        /\ UNCHANGED <<now, market, executions, pending, replies, books>>

-------------------------------------------------------------------------------
(* _try_fill after its quote                                                 *)

Filling(t, quote) ==
    /\ calls[t].step = "fill"
    /\ quote = market[calls[t].ticket.conid]
    /\ quote # NoQuote

FillDone(t) == Goto(t, NextTicket(calls[t], calls[t].todo))

Closed(o) == [orders EXCEPT ![o].status = "Cancelled"]

\* The cancellation is not recorded.
NoFillMutant(t) ==
    \E quote \in Quotes :
        /\ Filling(t, quote)
        /\ ~Executes(calls[t].ticket, quote)
        /\ orders' = IF calls[t].ticket.tif = "IOC" THEN Closed(calls[t].order) ELSE orders
        /\ FillDone(t)
        /\ UNCHANGED <<now, market, executions, pending, replies, log, books>>

\* No price: a DAY or GTC order rests, an IOC order is cancelled.
NoFill(t) ==
    \E quote \in Quotes :
        LET o == calls[t].order
            ticket == calls[t].ticket IN
        /\ Filling(t, quote)
        /\ ~Executes(ticket, quote)
        /\ IF ticket.tif = "IOC"
           THEN /\ orders' = Closed(o)
                /\ log' = Append(log, Event("order_cancelled", o, orders[o].ticket))
           ELSE UNCHANGED <<orders, log>>
        /\ FillDone(t)
        /\ UNCHANGED <<now, market, executions, pending, replies, books>>

\* An immediate-or-cancel order keeps working after a partial fill.
StatusAfterMutant(remaining, tif) == IF remaining = 0 THEN "Filled" ELSE "Submitted"

StatusAfter(remaining, tif) ==
    CASE remaining = 0  -> "Filled"
      [] remaining # 0 /\ tif = "IOC" -> "Cancelled"
      [] OTHER          -> "Submitted"

\* What remains is not recomputed from all that has been filled.
AfterFillMutant(order, ticket, qty, price) ==
    [order EXCEPT
        !.filled = @ + qty,
        !.cost = @ + qty * price,
        !.remaining = Larger(0, ticket.quantity - qty),
        !.status = StatusAfter(Larger(0, ticket.quantity - qty), ticket.tif)]

\* The order state after qty units at price: the ticket is the one read before
\* the quote, the counters are the current ones.
AfterFill(order, ticket, qty, price) ==
    LET filled == order.filled + qty
        remaining == Larger(0, ticket.quantity - filled) IN
    [order EXCEPT
        !.filled = filled,
        !.cost = @ + qty * price,
        !.remaining = remaining,
        !.status = StatusAfter(remaining, ticket.tif)]

\* AccountService.apply_execution; the average cost and the profit and loss it
\* also computes are the subject of module AccountBooks.
ApplyExecution(e, quote) ==
    LET held == position[e.account][e.conid] + SignedQuantity(e.side, e.qty) IN
    /\ cash' = [cash EXCEPT ![e.account] = @ + CashDelta(e.side, e.qty, e.price, e.commission)]
    /\ position' = [position EXCEPT ![e.account][e.conid] = held]
    /\ marketValue' = [marketValue EXCEPT ![e.account][e.conid] =
                          held * quote.last * Multiplier[e.conid]]

Fill(t) ==
    \E quote \in Quotes :
        LET o == calls[t].order
            ticket == calls[t].ticket
            price == FillPrice(ticket, quote)
            qty == FillQuantity(orders[o].remaining, ticket, quote)
            e == [order |-> o, account |-> orders[o].account, conid |-> ticket.conid,
                  side |-> ticket.side, price |-> price, qty |-> qty,
                  commission |-> EstimateCommission(qty, price)] IN
        /\ Filling(t, quote)
        /\ Executes(ticket, quote)
        /\ executions' = Append(executions, e)
        /\ orders' = [orders EXCEPT ![o] = AfterFill(@, ticket, qty, price)]
        /\ ApplyExecution(e, quote)
        /\ log' = Append(log, Event("order_filled", o, ticket))
        /\ FillDone(t)
        /\ UNCHANGED <<now, market, pending, replies>>

-------------------------------------------------------------------------------
(* confirm_reply                                                             *)

EventsOfType(type) == {i \in DOMAIN log : log[i].type = type}

\* list_events(event_type = type): the oldest ListLimit of them.
Listed(type) ==
    {i \in EventsOfType(type) : Cardinality({j \in EventsOfType(type) : j < i}) < ListLimit}

\* A reply lives one unit of time too long.
ExpiredMutant(r) ==
    \E i \in Listed("order_confirmation_required") :
        log[i].ref = r /\ now - log[i].ts > ConfirmTTL + 1

Expired(r) ==
    \E i \in Listed("order_confirmation_required") :
        log[i].ref = r /\ now - log[i].ts > ConfirmTTL

\* The reply is still there after the answer.
AnswerMutant(r) == UNCHANGED pending

Answer(r) == pending' = Restrict(pending, DOMAIN pending \ {r})

\* TimeoutError: the reply is dropped and nothing is recorded.
ExpireReply(t, r) ==
    /\ MayCall(t)
    /\ r \in DOMAIN pending /\ Expired(r)
    /\ Answer(r)
    /\ UNCHANGED <<now, market, orders, executions, replies, log, books, calls>>

DeclineReply(t, r) ==
    /\ MayCall(t)
    /\ r \in DOMAIN pending /\ ~Expired(r)
    /\ Answer(r)
    /\ log' = Append(log, Event("order_confirmation_declined", r, pending[r].ticket))
    /\ UNCHANGED <<now, market, orders, executions, replies, books, calls>>

\* Confirmed: submit_orders again, this time without asking.
ConfirmReply(t, r) ==
    /\ MayCall(t)
    /\ r \in DOMAIN pending /\ ~Expired(r)
    /\ Answer(r)
    /\ log' = Append(log, Event("order_confirmed", r, pending[r].ticket))
    /\ Goto(t, [Idle(pending[r].account) EXCEPT
                    !.step = "check", !.todo = <<pending[r].ticket>>, !.bypass = TRUE])
    /\ UNCHANGED <<now, market, orders, executions, replies, books>>

-------------------------------------------------------------------------------
(* cancel_order, replace_order                                               *)

\* On a closed order the call answers its status and changes nothing.
CancelOrder(t, o) ==
    /\ MayCall(t)
    /\ IsOpen(o)
    /\ orders' = Closed(o)
    /\ log' = Append(log, Event("order_cancelled", o, orders[o].ticket))
    /\ UNCHANGED <<now, market, executions, pending, replies, books, calls>>

Amended(order, ticket) ==
    [order EXCEPT !.ticket = ticket,
                  !.remaining = Larger(0, ticket.quantity - order.filled)]

\* No risk check; the new ticket may name another contract and another side.
ReplaceOrder(t, o, ticket) ==
    /\ MayCall(t)
    /\ IsOpen(o)
    /\ orders' = [orders EXCEPT ![o] = Amended(@, ticket)]
    /\ log' = Append(log, Event("order_replaced", o, ticket))
    /\ Goto(t, [Idle(orders[o].account) EXCEPT
                    !.step = "fill", !.order = o, !.ticket = ticket])
    /\ UNCHANGED <<now, market, executions, pending, replies, books>>

-------------------------------------------------------------------------------
(* The account summary of the web adapter, the market and the clock           *)

Held(a) == {c \in Conids : position[a][c] # 0}

\* mark_to_market with a fresh quote of every open position: no multiplier.
MarkToMarket(a) ==
    /\ Held(a) # {}
    /\ \A c \in Held(a) : market[c] # NoQuote
    /\ marketValue' = [marketValue EXCEPT ![a] =
          [c \in Conids |-> IF c \in Held(a) THEN position[a][c] * market[c].last
                                         ELSE marketValue[a][c]]]
    /\ UNCHANGED <<now, market, orders, executions, pending, replies, log, cash, position, calls>>

MarketMoves(c, quote) ==
    /\ market' = [market EXCEPT ![c] = quote]
    /\ UNCHANGED <<now, orders, executions, pending, replies, log, books, calls>>

Tick ==
    /\ now < MaxTime
    /\ now' = now + 1
    /\ UNCHANGED <<market, orders, executions, pending, replies, log, books, calls>>

-------------------------------------------------------------------------------

\* What a thread in a call does next.
Proceed(t) ==
    \/ QuoteFails(t)
    \/ RejectTicket(t)
    \/ AskConfirmation(t)
    \/ AcceptTicket(t)
    \/ NoFill(t)
    \/ Fill(t)

\* What a client may call on a free thread.
Call(t) ==
    \/ \E a \in Accounts, batch \in Batches : SubmitOrders(t, a, batch)
    \/ \E r \in DOMAIN pending : ExpireReply(t, r) \/ DeclineReply(t, r) \/ ConfirmReply(t, r)
    \/ \E o \in DOMAIN orders : CancelOrder(t, o)
    \/ \E o \in DOMAIN orders, ticket \in Tickets : ReplaceOrder(t, o, ticket)

\* What happens between the calls.
Outside ==
    \/ \E a \in Accounts : MarkToMarket(a)
    \/ \E c \in Conids, quote \in Quotes \cup {NoQuote} : MarketMoves(c, quote)
    \/ Tick

Next ==
    \/ \E t \in Threads : Proceed(t) \/ Call(t)
    \/ Outside

Spec == Init /\ [][Next]_vars

\* A market data request ends, with a quote or an exception: every provider
\* that uses the network sets a timeout.
FairSpec == Spec /\ \A t \in Threads : WF_vars(Proceed(t))

===============================================================================
