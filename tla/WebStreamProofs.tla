---------------------------- MODULE WebStreamProofs ----------------------------
(***************************************************************************)
(* The WebSocket stream never ends by itself, for any contracts, reports    *)
(* and messages and any course of the clock.                               *)
(*                                                                         *)
(* That a stream which ends had a reason is not inductive: the reason came   *)
(* with a message, long before.  A message that spoils leaves its trace      *)
(* while it is on its way, and in the subscriptions it becomes.             *)
(***************************************************************************)
EXTENDS WebStream, SequenceTheorems, TLAPS

\* Subscriptions that may end the stream when they are published.
Unsafe == (Conids \ Served) \cup PositionReports

MessagesAreNoted == \A i \in 1..Len(inbox) : Spoils(inbox[i]) => spoilt

SubscriptionsAreNoted == wanted \cap Unsafe # {} => spoilt

IInv ==
    /\ TypeOK
    /\ MessagesAreNoted
    /\ SubscriptionsAreNoted
    /\ EndsForAReason

LEMMA GapRange ==
    /\ MaxInbox \in Nat /\ MaxBack \in Nat /\ Second \in Nat
    /\ 0 \in -MaxBack..Second /\ Second \in -MaxBack..Second
<1>1. MaxInbox \in Nat /\ MaxBack \in Nat /\ Second \in Nat
      BY WebStreamAssumption
<1> QED BY <1>1

-------------------------------------------------------------------------------
(* The inbox                                                                 *)

LEMMA AppendedInbox ==
    ASSUME NEW m \in Messages, TypeOK, Len(inbox) < MaxInbox,
           inbox' = Append(inbox, m)
    PROVE  /\ inbox' \in Seq(Messages) /\ Len(inbox') = Len(inbox) + 1
           /\ Len(inbox') <= MaxInbox
           /\ \A i \in 1..Len(inbox) : inbox'[i] = inbox[i]
           /\ inbox'[Len(inbox) + 1] = m
<1>1. inbox \in Seq(Messages) /\ MaxInbox \in Nat
      BY WebStreamAssumption DEF TypeOK
<1>2. Len(inbox) \in Nat
      BY <1>1, LenProperties
<1>3. /\ inbox' \in Seq(Messages) /\ Len(inbox') = Len(inbox) + 1
      /\ \A i \in 1..Len(inbox) : inbox'[i] = inbox[i]
      /\ inbox'[Len(inbox) + 1] = m
      BY <1>1, AppendProperties
<1> QED BY <1>1, <1>2, <1>3

LEMMA ReceivedInbox ==
    ASSUME TypeOK, inbox # <<>>, inbox' = Tail(inbox)
    PROVE  /\ inbox' \in Seq(Messages) /\ Len(inbox') <= MaxInbox
           /\ Head(inbox) \in Messages
           /\ 1 \in 1..Len(inbox) /\ Head(inbox) = inbox[1]
           /\ \A i \in 1..Len(inbox') : i + 1 \in 1..Len(inbox) /\ inbox'[i] = inbox[i + 1]
<1>1. inbox \in Seq(Messages) /\ MaxInbox \in Nat /\ Len(inbox) <= MaxInbox
      BY WebStreamAssumption DEF TypeOK
<1>2. Len(inbox) \in Nat /\ Len(inbox) # 0
      BY <1>1, LenProperties, EmptySeq
<1>3. /\ inbox' \in Seq(Messages) /\ Len(inbox') = Len(inbox) - 1
      /\ Head(inbox) = inbox[1] /\ Head(inbox) \in Messages
      /\ \A i \in 1..Len(inbox') : inbox'[i] = inbox[i + 1]
      BY <1>1, HeadTailProperties
<1> QED BY <1>1, <1>2, <1>3

-------------------------------------------------------------------------------
(* What ends the stream                                                      *)

LEMMA ClosedKeeps ==
    ASSUME TypeOK, Closed, gap' = gap, running' = running, gone \/ spoilt
    PROVE  IInv'
<1>1. inbox' = <<>> /\ inbox' \in Seq(Messages) /\ Len(inbox') = 0
      BY DEF Closed
<1>2. TypeOK'
      BY <1>1, WebStreamAssumption DEF Closed, TypeOK, Steps
<1>3. MessagesAreNoted'
      BY <1>1 DEF MessagesAreNoted
<1>4. SubscriptionsAreNoted' /\ EndsForAReason'
      BY DEF Closed, SubscriptionsAreNoted, EndsForAReason
<1> QED BY <1>2, <1>3, <1>4 DEF IInv

-------------------------------------------------------------------------------
(* The invariant                                                             *)

LEMMA StreamInit == Init => IInv
<1> SUFFICES ASSUME Init PROVE IInv
    OBVIOUS
<1>1. inbox = <<>> /\ inbox \in Seq(Messages) /\ Len(inbox) = 0
      BY DEF Init
<1>2. TypeOK
  <2>1. MaxInbox \in Nat /\ Second \in -MaxBack..Second
        BY GapRange
  <2>2. gone \in BOOLEAN /\ running \in BOOLEAN /\ spoilt \in BOOLEAN
        BY DEF Init
  <2>3. /\ step \in Steps /\ wanted \subseteq Topics /\ todo \subseteq wanted /\ todo = {}
        /\ wanted = {}
        BY DEF Init, Steps
  <2>4. gap \in -MaxBack..Second /\ Len(inbox) <= MaxInbox
        BY <1>1, <2>1 DEF Init
  <2> QED BY <1>1, <2>2, <2>3, <2>4 DEF TypeOK
<1>3. MessagesAreNoted
      BY <1>1 DEF MessagesAreNoted
<1>4. SubscriptionsAreNoted /\ EndsForAReason
      BY DEF Init, SubscriptionsAreNoted, EndsForAReason
<1> QED BY <1>2, <1>3, <1>4 DEF IInv

LEMMA ClientKeeps ==
    ASSUME IInv, Connect \/ SendMessage \/ HangUp
    PROVE  IInv'
<1> USE DEF IInv
<1>1. CASE Connect
  <2>1. /\ inbox' = <<>> /\ wanted' = {} /\ todo' = {}
        BY <1>1 DEF Connect, TypeOK
  <2>2. inbox' \in Seq(Messages) /\ Len(inbox') = 0
        BY <2>1
  <2>3. TypeOK'
        BY <1>1, <2>1, <2>2, GapRange DEF Connect, TypeOK, Steps
  <2>4. MessagesAreNoted' /\ SubscriptionsAreNoted' /\ EndsForAReason'
        BY <1>1, <2>1, <2>2
        DEF Connect, MessagesAreNoted, SubscriptionsAreNoted, EndsForAReason
  <2> QED BY <2>3, <2>4
<1>2. CASE SendMessage
  <2>1. PICK message \in Messages : SendMessage!(message)
        BY <1>2 DEF SendMessage
  <2>2. /\ inbox' \in Seq(Messages) /\ Len(inbox') = Len(inbox) + 1
        /\ Len(inbox') <= MaxInbox
        /\ \A i \in 1..Len(inbox) : inbox'[i] = inbox[i]
        /\ inbox'[Len(inbox) + 1] = message
        BY <2>1, AppendedInbox
  <2>3. TypeOK'
        BY <2>1, <2>2 DEF TypeOK
  <2>4. Len(inbox) \in Nat
        BY LenProperties DEF TypeOK
  <2>5. MessagesAreNoted'
    <3> SUFFICES ASSUME NEW i \in 1..Len(inbox'), Spoils(inbox'[i])
                 PROVE  spoilt'
        BY DEF MessagesAreNoted, Spoils
    <3>1. CASE i = Len(inbox) + 1
          BY <2>1, <2>2, <3>1
    <3>2. CASE i \in 1..Len(inbox)
          BY <2>1, <2>2, <3>2 DEF MessagesAreNoted
    <3> QED BY <2>2, <2>4, <3>1, <3>2
  <2>6. SubscriptionsAreNoted' /\ EndsForAReason'
        BY <2>1 DEF SubscriptionsAreNoted, EndsForAReason
  <2> QED BY <2>3, <2>5, <2>6
<1>3. CASE HangUp
  <2>1. TypeOK'
        BY <1>3 DEF HangUp, TypeOK
  <2>2. MessagesAreNoted' /\ SubscriptionsAreNoted' /\ EndsForAReason'
        BY <1>3 DEF HangUp, MessagesAreNoted, SubscriptionsAreNoted, EndsForAReason
  <2> QED BY <2>1, <2>2
<1> QED BY <1>1, <1>2, <1>3

\* Receiving a message moves its trace from the inbox to the subscriptions.
LEMMA ReceiveKeeps ==
    ASSUME IInv, Receive
    PROVE  IInv'
<1> USE DEF IInv
<1> DEFINE message == Head(inbox)
<1>1. /\ inbox' \in Seq(Messages) /\ Len(inbox') <= MaxInbox
      /\ message \in Messages
      /\ 1 \in 1..Len(inbox) /\ message = inbox[1]
      /\ \A i \in 1..Len(inbox') : i + 1 \in 1..Len(inbox) /\ inbox'[i] = inbox[i + 1]
      BY ReceivedInbox DEF Receive
<1>2. message.topic \in Topics
      BY <1>1, WebStreamAssumption
<1>3. /\ step = "receive" /\ step' = "check" /\ spoilt' = spoilt
      /\ wanted' = WantedAfter(message)
      BY DEF Receive, AfterMessage
<1> HIDE DEF message
<1>4. wanted' \subseteq wanted \cup {message.topic}
      /\ (message.topic \in wanted' \ wanted => message.kind = "subscribe")
      BY <1>3 DEF WantedAfter
<1>5. TypeOK'
      BY <1>1, <1>2, <1>3, <1>4 DEF Receive, TypeOK, Steps
<1>6. MessagesAreNoted'
  <2> SUFFICES ASSUME NEW i \in 1..Len(inbox'), Spoils(inbox'[i])
               PROVE  spoilt
      BY <1>3 DEF MessagesAreNoted, Spoils
  <2> QED BY <1>1 DEF MessagesAreNoted
<1>7. SubscriptionsAreNoted'
  <2> SUFFICES ASSUME NEW topic \in wanted', topic \in Unsafe
               PROVE  spoilt
      BY <1>3 DEF SubscriptionsAreNoted, Unsafe
  <2>1. CASE topic \in wanted
        BY <2>1 DEF SubscriptionsAreNoted
  <2>2. CASE topic \notin wanted
    <3>1. topic = message.topic /\ message.kind = "subscribe"
          BY <1>4, <2>2
    <3>2. Spoils(message)
          BY <3>1 DEF Spoils, Unsafe
    <3> QED BY <1>1, <3>2 DEF MessagesAreNoted
  <2> QED BY <2>1, <2>2
<1>8. EndsForAReason'
      BY <1>3 DEF EndsForAReason
<1> QED BY <1>5, <1>6, <1>7, <1>8

LEMMA CoroutineKeeps ==
    ASSUME IInv, Coroutine
    PROVE  IInv'
<1> USE DEF IInv
<1>1. CASE Receive
      BY <1>1, ReceiveKeeps
<1>2. CASE ReceiveFails
  <2>1. inbox \in Seq(Messages) /\ inbox # <<>>
        BY <1>2 DEF ReceiveFails, TypeOK
  <2>2. 1 \in 1..Len(inbox) /\ Head(inbox) = inbox[1]
        BY <2>1, LenProperties, EmptySeq, HeadTailProperties
  <2>3. Spoils(Head(inbox))
        BY <1>2 DEF ReceiveFails, Fails, Spoils
  <2>4. spoilt
        BY <2>2, <2>3 DEF MessagesAreNoted
  <2> QED BY <1>2, <2>4, ClosedKeeps DEF ReceiveFails
<1>3. CASE ReceiveTimesOut
  <2>1. TypeOK'
        BY <1>3 DEF ReceiveTimesOut, TypeOK, Steps
  <2> QED BY <1>3, <2>1
          DEF ReceiveTimesOut, MessagesAreNoted, SubscriptionsAreNoted, EndsForAReason
<1>4. CASE Disconnected
      BY <1>4, ClosedKeeps DEF Disconnected
<1>5. CASE NotYet
  <2>1. TypeOK'
        BY <1>5 DEF NotYet, TypeOK, Steps
  <2> QED BY <1>5, <2>1
          DEF NotYet, MessagesAreNoted, SubscriptionsAreNoted, EndsForAReason
<1>6. CASE Publish
  <2>1. step' \in {"receive", "publish"} /\ (step' # "publish" => todo' = {})
        BY <1>6 DEF Publish
  <2>2. TypeOK'
        BY <1>6, <2>1, WebStreamAssumption DEF Publish, TypeOK, Steps
  <2> QED BY <1>6, <2>1, <2>2
          DEF Publish, MessagesAreNoted, SubscriptionsAreNoted, EndsForAReason
<1>7. ASSUME NEW topic \in Topics, Send(topic) PROVE IInv'
  <2>1. step' \in {"receive", "publish"} /\ (step' # "publish" => todo' = {})
        BY <1>7 DEF Send
  <2>2. TypeOK'
        BY <1>7, <2>1 DEF Send, TypeOK, Steps
  <2> QED BY <1>7, <2>1, <2>2
          DEF Send, MessagesAreNoted, SubscriptionsAreNoted, EndsForAReason
<1>8. CASE QuoteFails
  <2>1. wanted \cap Unsafe # {}
        BY <1>8 DEF QuoteFails, Due, Unsafe, TypeOK
  <2> QED BY <1>8, <2>1, ClosedKeeps DEF QuoteFails, SubscriptionsAreNoted
<1>9. CASE ReportFails
  <2>1. wanted \cap Unsafe # {}
        BY <1>9 DEF ReportFails, Due, Unsafe, TypeOK
  <2> QED BY <1>9, <2>1, ClosedKeeps DEF ReportFails, SubscriptionsAreNoted
<1>10. CASE SendFails
      BY <1>10, ClosedKeeps DEF SendFails
<1> QED BY <1>1, <1>2, <1>3, <1>4, <1>5, <1>6, <1>7, <1>8, <1>9, <1>10 DEF Coroutine

LEMMA ClockKeeps ==
    ASSUME IInv, Clock
    PROVE  IInv'
<1> USE DEF IInv
<1>1. gap' \in -MaxBack..Second /\ running' \in BOOLEAN
  <2>1. gap \in -MaxBack..Second /\ running \in BOOLEAN
        BY DEF TypeOK
  <2>2. CASE TimePasses
        BY <2>1, <2>2, GapRange DEF TimePasses
  <2>3. CASE SetRunning
        BY <2>1, <2>3 DEF SetRunning, stream
  <2>4. CASE StepClock
    <3>1. gap' \in -MaxBack..Second
          BY <2>1, <2>4, GapRange DEF StepClock
    <3> QED BY <2>4, <3>1 DEF StepClock
  <2>5. CASE TurnBack
        BY <2>1, <2>5, GapRange DEF TurnBack
  <2> QED BY <2>2, <2>3, <2>4, <2>5 DEF Clock
<1>2. UNCHANGED stream
      BY DEF Clock, TimePasses, SetRunning, StepClock, TurnBack
<1>3. TypeOK'
      BY <1>1, <1>2 DEF stream, TypeOK
<1> QED BY <1>2, <1>3
        DEF stream, MessagesAreNoted, SubscriptionsAreNoted, EndsForAReason

LEMMA StreamInductive == IInv /\ [Next]_vars => IInv'
<1> SUFFICES ASSUME IInv, [Next]_vars PROVE IInv'
    OBVIOUS
<1>1. CASE Connect \/ SendMessage \/ HangUp
      BY <1>1, ClientKeeps
<1>2. CASE Coroutine
      BY <1>2, CoroutineKeeps
<1>3. CASE Clock
      BY <1>3, ClockKeeps
<1>4. CASE UNCHANGED vars
  <2>1. TypeOK'
        BY <1>4 DEF IInv, vars, stream, TypeOK
  <2> QED BY <1>4, <2>1
          DEF IInv, vars, stream, MessagesAreNoted, SubscriptionsAreNoted, EndsForAReason
<1> QED BY <1>1, <1>2, <1>3, <1>4 DEF Next

LEMMA StreamInvariant == Spec => []IInv
<1> QED BY StreamInit, StreamInductive, PTL DEF Spec

-------------------------------------------------------------------------------
(* The theorems                                                              *)

\* Nothing is sent that is not subscribed, and a stream that has ended leaves no
\* subscription and no message behind (app.py 222-228: all of it is local to the
\* connection).
THEOREM StreamTypeCorrect == Spec => []TypeOK
<1>1. IInv => TypeOK
      BY DEF IInv
<1> QED BY <1>1, StreamInvariant, PTL

\* A stream ends because the client hung up or because of something the client
\* sent, however long ago (app.py 228-270, accounts.py 47).
THEOREM StreamEndsForAReason == Spec => []EndsForAReason
<1>1. IInv => EndsForAReason
      BY DEF IInv
<1> QED BY <1>1, StreamInvariant, PTL

===============================================================================
