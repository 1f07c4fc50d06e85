----------------------------- MODULE OrderProcess -----------------------------
(***************************************************************************)
(* The order service as a process with two front ends, that may die at any   *)
(* moment and be started again on the same event file.                      *)
(*                                                                         *)
(* The web adapter (app.py) offers every call.  The TWS adapter              *)
(* (semantic.py) places single tickets and cancels; where the service asks    *)
(* for a confirmation it answers with an error that leaves the reply id out,  *)
(* so nobody can ever answer.  Its other requests only read.                *)
(*                                                                         *)
(* Everything but the event store lives in memory: a restart begins with new *)
(* books and uses the order numbers again.  The store is a file where the    *)
(* service is given a path (event_store_path); the web server by itself uses *)
(* ":memory:", where a restart is a new beginning and there is nothing to     *)
(* claim.  An event is committed before the call goes on, so what a crash     *)
(* leaves is the log of some completed step.                                *)
(***************************************************************************)
EXTENDS OrderProperties

CONSTANT TwsThreads     \* the callers that use the TWS adapter

ASSUME OrderProcessAssumption == TwsThreads \subseteq Threads

VARIABLE unheard        \* the reply ids that no client has been told

processVars == <<vars, unheard>>

ProcessInit == Init /\ unheard = {}

\* Submits on the client's word, as TWS has no dialogue to ask in.
PlaceOrderMutant(t, a, ticket) ==
    /\ MayCall(t)
    /\ Goto(t, [Idle(a) EXCEPT !.step = "check", !.todo = <<ticket>>, !.bypass = TRUE])
    /\ UNCHANGED <<now, market, orders, executions, pending, replies, log, books>>

\* place_order of the TWS adapter.
PlaceOrder(t, a, ticket) == SubmitOrders(t, a, <<ticket>>)

TwsCall(t) ==
    /\ \/ \E a \in Accounts, ticket \in Tickets : PlaceOrder(t, a, ticket)
       \/ \E o \in DOMAIN orders : CancelOrder(t, o)
    /\ UNCHANGED unheard

\* A client of the web adapter answers only what it has been asked.
WebCall(t) ==
    /\ Call(t)
    /\ unheard \subseteq DOMAIN pending'
    /\ UNCHANGED unheard

\* Error 399 has the text of the question only.
Service(t) ==
    /\ Proceed(t)
    /\ unheard' = IF t \in TwsThreads THEN unheard \cup (DOMAIN pending' \ DOMAIN pending)
                                     ELSE unheard

\* A new SimulatorService; the reply ids it will hand out are new ones.
Restart ==
    /\ orders' = <<>> /\ executions' = <<>> /\ pending' = <<>>
    /\ cash' = [a \in Accounts |-> InitialCash]
    /\ position' = [a \in Accounts |-> [c \in Conids |-> 0]]
    /\ marketValue' = position'
    /\ calls' = [t \in Threads |-> Idle(calls[t].account)]
    /\ unheard' = {}
    /\ UNCHANGED <<now, market, replies, log>>

ProcessNext ==
    \/ \E t \in TwsThreads : TwsCall(t)
    \/ \E t \in Threads \ TwsThreads : WebCall(t)
    \/ \E t \in Threads : Service(t)
    \/ Restart
    \/ Outside /\ UNCHANGED unheard

ProcessSpec == ProcessInit /\ [][ProcessNext]_processVars

\* As in Orders: a quote is answered or raises.
FairProcessSpec == ProcessSpec /\ \A t \in Threads : WF_processVars(Service(t))

-------------------------------------------------------------------------------
(* Properties                                                                *)

LastOf(S) == CHOOSE i \in S : \A j \in S : j <= i

EventsOf(o) == {i \in DOMAIN log : log[i].type \in OrderEvents /\ log[i].ref = o}

\* The events of the order that has the number now: earlier processes have used it
\* for others.
LifeOf(o) ==
    LET begun == LastOf({i \in EventsOf(o) : log[i].type = "order_submitted"}) IN
    {i \in EventsOf(o) : i >= begun}

\* Who reads the event file from an order's latest submission on knows the order,
\* over restarts that give its number to others and whatever two callers do at
\* once: each of its executions is there, and its last event tells whether it is
\* filled, cancelled or open.  Only a cancellation that ends an immediate-or-cancel
\* order after a partial fill shows as the fill (orders.py 156-238, events.py 46-71).
LogTellsTheBook ==
    \A o \in DOMAIN orders :
        LET life == LifeOf(o)
            last == log[LastOf(life)]
            status == orders[o].status IN
        /\ Cardinality({i \in life : log[i].type = "order_filled"}) = Cardinality(FillsOf(o))
        /\ last.type = "order_cancelled" => status = "Cancelled"
        /\ status = "Cancelled" =>
              \/ last.type = "order_cancelled"
              \/ last.type = "order_filled" /\ last.ticket.tif = "IOC"
        /\ status = "Filled" => last.type = "order_filled"

===============================================================================
