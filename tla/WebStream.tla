------------------------------- MODULE WebStream -------------------------------
(***************************************************************************)
(* The WebSocket of the web adapter (app.py ws_endpoint): one connection,   *)
(* served by a coroutine that waits a quarter of a second for a message,     *)
(* handles it, and publishes what the client has subscribed to whenever a    *)
(* second of simulated time has gone by since it last did.                  *)
(*                                                                         *)
(* The coroutine runs from one await to the next.  In between clients send   *)
(* and hang up, time passes and other threads drive the clock.  Of the clock *)
(* only its distance from the last publication matters: it is kept instead   *)
(* of the time, so that the stream can run for ever.                        *)
(*                                                                         *)
(* Left out: the fields of a subscription, the events that are appended and  *)
(* never read back, the tickle of a "tic" (module Sessions) and the marking  *)
(* of the accounts that a P&L message makes (modules Orders, AccountBooks).  *)
(***************************************************************************)
EXTENDS Integers, Sequences

CONSTANTS
    Conids,         \* what clients subscribe to
    Served,         \* those the provider has quotes for
    Reports,        \* the topics that are not market data: "sor", "spl", "sld"
    PositionReports,\* those of them that go through the positions: "spl", "sld"
    Messages,       \* what clients send
    MaxInbox,       \* bound on the messages on their way
    Second,         \* one second, in the units of the clock
    MaxBack         \* bound on how far behind the last publication the clock is put

\* "other" is a tic or an unsupported topic: it is answered, and that is all.
Kinds == {"other", "subscribe", "unsubscribe", "malformed"}
Topics == Conids \cup Reports

ASSUME WebStreamAssumption ==
    /\ Served \subseteq Conids
    /\ Conids \cap Reports = {} /\ PositionReports \subseteq Reports
    /\ Messages \subseteq [kind : Kinds, topic : Topics]
    /\ MaxInbox \in Nat /\ MaxBack \in Nat
    /\ Second \in Nat \ {0}

VARIABLES
    step,           \* where the coroutine is
    wanted,         \* subscriptions, order_stream, pnl_stream and ledger_stream
    todo,           \* what is still to be sent of this publication
    gap,            \* clock.now() - last_publish, not counted beyond a second
    inbox,          \* messages the client has sent and the server not received
    gone,           \* the client has closed the connection
    running,        \* the simulated clock moves by itself
    spoilt          \* history: the client sent what the server cannot take

stream == <<step, wanted, todo, inbox, gone, spoilt>>
vars == <<stream, gap, running>>

\* Every status of the coroutine; "closed" also before a client connects.
Steps == {"closed", "receive", "check", "publish"}

TypeOK ==
    /\ step \in Steps
    /\ wanted \subseteq Topics /\ todo \subseteq wanted
    /\ step # "publish" => todo = {}
    /\ step = "closed" => wanted = {} /\ inbox = <<>>
    /\ gap \in -MaxBack..Second
    /\ inbox \in Seq(Messages) /\ Len(inbox) <= MaxInbox
    /\ gone \in BOOLEAN /\ running \in BOOLEAN /\ spoilt \in BOOLEAN

\* The subscriptions outlive the connection.
ClosedMutant ==
    /\ step' = "closed"
    /\ todo' = {} /\ inbox' = <<>>
    /\ UNCHANGED <<wanted, gone, spoilt>>

\* The coroutine returns or ends with an exception: its variables are gone.
Closed ==
    /\ step' = "closed"
    /\ wanted' = {} /\ todo' = {} /\ inbox' = <<>>
    /\ UNCHANGED <<gone, spoilt>>

Init ==
    /\ step = "closed"
    /\ wanted = {} /\ todo = {} /\ inbox = <<>>
    /\ gap = Second
    /\ gone = TRUE /\ spoilt = FALSE
    /\ running \in BOOLEAN

-------------------------------------------------------------------------------
(* The client                                                                *)

\* last_publish starts at 0: the first publication is due at once.
Connect ==
    /\ step = "closed" /\ gone
    /\ step' = "receive"
    /\ gap' = Second
    /\ gone' = FALSE /\ spoilt' = FALSE
    /\ UNCHANGED <<wanted, todo, inbox, running>>

\* May end the stream, when it is received or when it is published.
Spoils(message) ==
    \/ message.kind = "malformed"
    \/ message.kind = "subscribe" /\ message.topic \in (Conids \ Served) \cup PositionReports

SendMessage ==
    \E message \in Messages :
        /\ step # "closed" /\ ~gone
        /\ Len(inbox) < MaxInbox
        /\ inbox' = Append(inbox, message)
        /\ spoilt' = (spoilt \/ Spoils(message))
        /\ UNCHANGED <<step, wanted, todo, gap, gone, running>>

HangUp ==
    /\ ~gone
    /\ gone' = TRUE
    /\ UNCHANGED <<step, wanted, todo, gap, inbox, running, spoilt>>

-------------------------------------------------------------------------------
(* The coroutine                                                             *)

\* smd, sor, spl, sld; umd, uor: nothing takes a P&L or a ledger back.
WantedAfter(message) ==
    CASE message.kind = "subscribe"   -> wanted \cup {message.topic}
      [] message.kind = "unsubscribe" -> wanted \ {message.topic}
      [] OTHER                        -> wanted

\* An answer to a topic that was never subscribed is an exception.
FailsMutant(message) ==
    \/ message.kind = "malformed"
    \/ message.kind = "unsubscribe" /\ message.topic \notin wanted

\* int() and json.loads()["fields"] raise; an unknown topic is only answered.
Fails(message) == message.kind = "malformed"

\* Waits for the next message before it looks at the time.
AfterMessageMutant == "receive"

\* Every message is followed by a look at the time.
AfterMessage == "check"

Receive ==
    /\ step = "receive" /\ inbox # <<>>
    /\ ~Fails(Head(inbox))
    /\ wanted' = WantedAfter(Head(inbox))
    /\ inbox' = Tail(inbox)
    /\ step' = AfterMessage
    /\ UNCHANGED <<todo, gap, gone, running, spoilt>>

\* The exception is not caught: the coroutine ends and the connection with it.
ReceiveFails ==
    /\ step = "receive" /\ inbox # <<>>
    /\ Fails(Head(inbox))
    /\ Closed
    /\ UNCHANGED <<gap, running>>

\* Nothing came for a quarter of a second.
ReceiveTimesOut ==
    /\ step = "receive" /\ inbox = <<>> /\ ~gone
    /\ step' = "check"
    /\ UNCHANGED <<wanted, todo, gap, inbox, gone, running, spoilt>>

\* A disconnect is taken for a timeout.
DisconnectedMutant ==
    /\ step = "receive" /\ inbox = <<>> /\ gone
    /\ step' = "check"
    /\ UNCHANGED <<wanted, todo, gap, inbox, gone, running, spoilt>>

\* WebSocketDisconnect, after the messages that came before it.
Disconnected ==
    /\ step = "receive" /\ inbox = <<>> /\ gone
    /\ Closed
    /\ UNCHANGED <<gap, running>>

NotYet ==
    /\ step = "check" /\ gap < Second
    /\ step' = "receive"
    /\ UNCHANGED <<wanted, todo, gap, inbox, gone, running, spoilt>>

\* The time is taken before anything is sent.
Publish ==
    /\ step = "check" /\ gap >= Second
    /\ gap' = 0
    /\ todo' = wanted
    /\ step' = IF wanted = {} THEN "receive" ELSE "publish"
    /\ UNCHANGED <<wanted, inbox, gone, running, spoilt>>

\* What may be sent next: the subscribed contracts come before the reports.
Due == IF todo \cap Conids # {} THEN todo \cap Conids ELSE todo

Send(topic) ==
    /\ topic \in Due
    /\ topic \in Served \cup Reports
    /\ todo' = todo \ {topic}
    /\ step' = IF todo' = {} THEN "receive" ELSE "publish"
    /\ UNCHANGED <<wanted, gap, inbox, gone, running, spoilt>>

\* quote() raises for a contract that no provider has.
QuoteFails ==
    /\ Due \cap (Conids \ Served) # {}
    /\ Closed
    /\ UNCHANGED <<gap, running>>

\* positions_for goes through a dictionary to which another thread may add the
\* first position in a contract: Python ends the iteration with an exception.
ReportFails ==
    /\ Due \cap PositionReports # {}
    /\ Closed
    /\ UNCHANGED <<gap, running>>

\* Sending on a connection that is closed may raise, a publication or the answer
\* to a tic or an unsupported topic.
SendFails ==
    /\ gone
    /\ \/ step = "publish"
       \/ step = "receive" /\ inbox # <<>> /\ Head(inbox).kind = "other"
    /\ Closed
    /\ UNCHANGED <<gap, running>>

Coroutine ==
    \/ Receive \/ ReceiveFails \/ ReceiveTimesOut \/ Disconnected
    \/ NotYet \/ Publish
    \/ \E topic \in Topics : Send(topic)
    \/ QuoteFails \/ ReportFails \/ SendFails

-------------------------------------------------------------------------------
(* The clock                                                                 *)

TimePasses ==
    /\ running /\ gap < Second
    /\ gap' = gap + 1
    /\ UNCHANGED <<stream, running>>

\* Wall or compressed time; pause, or a speed of zero.
SetRunning ==
    /\ running' \in BOOLEAN
    /\ UNCHANGED <<stream, gap>>

\* step(), which also pauses.
StepClock ==
    /\ gap' \in gap..Second /\ running' = FALSE
    /\ UNCHANGED stream

\* resume_wall() of a clock that was ahead.
TurnBack ==
    /\ gap' \in -MaxBack..gap /\ running' = TRUE
    /\ UNCHANGED stream

Clock == TimePasses \/ SetRunning \/ StepClock \/ TurnBack

Next == Connect \/ SendMessage \/ HangUp \/ Coroutine \/ Clock

Spec == Init /\ [][Next]_vars

\* The event loop serves every connection: receiving times out, quotes are
\* answered or raise.  Time passes while the clock runs.
FairSpec == Spec /\ WF_vars(Coroutine) /\ WF_vars(TimePasses)

-------------------------------------------------------------------------------
(* Properties                                                                *)

\* A topic that a connected client keeps subscribed is published again and again,
\* however fast the client sends and however often the clock was paused, stepped
\* or turned back before, as soon as it runs again (app.py 229-268).
WantedIsServed ==
    \A topic \in Served \cup Reports :
        /\ <>[](topic \in wanted /\ running)
        /\ <>[][~TurnBack]_vars
        => []<><<Send(topic)>>_vars

\* What a client takes back stops: the server gets to the message, also while it
\* publishes and behind other messages, or the connection ends; and the task
\* of a client that has gone does not live on, also with a clock that stands
\* (app.py 231-244, 269).
ClientIsHeard ==
    /\ \A i \in 1..MaxInbox, topic \in Topics :
          Len(inbox) >= i /\ inbox[i] = [kind |-> "unsubscribe", topic |-> topic]
          ~> step = "closed" \/ topic \notin wanted \cup todo
    /\ gone ~> step = "closed"

\* The server never ends a stream by itself: only the client's hanging up, a
\* message that does not parse, a contract without quotes or a report that other
\* threads disturb does (app.py 228-270, accounts.py 47).
EndsForAReason == step = "closed" => gone \/ spoilt

===============================================================================
