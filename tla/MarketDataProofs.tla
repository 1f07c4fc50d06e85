--------------------------- MODULE MarketDataProofs ---------------------------
(***************************************************************************)
(* What the provider chain answers, for any chain of providers, any          *)
(* contracts and any number of threads that ask at the same time.           *)
(***************************************************************************)
EXTENDS MarketData, SequenceTheorems, TLAPS

-------------------------------------------------------------------------------
(* The invariant: what is said of an entry and of a call at a moment and       *)
(* after the outages so far                                                  *)

\* What is kept was true while it was on its way, and an answer without data is
\* an outage of that moment or later.
EntryOK(p, c, entry, now, out) ==
    /\ c \in Serves[p]
    /\ entry.since \in Nat /\ entry.payload \in Payloads
    /\ entry.since <= entry.payload.of /\ entry.payload.of <= now
    /\ ~entry.payload.usable => out[p] >= entry.payload.of

\* The provider could not answer, not longer before the request than it may keep
\* that it has nothing.
Excused(p, call, out) ==
    p \in External /\ call.conid \in Serves[p]
    => out[p] >= 0 /\ out[p] >= call.asked - TTL[p]

CallOK(call, now, out) ==
    LET p == Chain[call.next] IN
    /\ call \in Calls
    /\ call.step = "idle" => call.next = 1
    /\ call.asked <= now
    /\ call.step \in {"wait", "arrived"} =>
          /\ p \in External /\ call.conid \in Serves[p]
          /\ call.asked <= call.began /\ call.began <= now
    /\ call.step = "arrived" =>
          /\ call.began <= call.payload.of /\ call.payload.of <= now
          /\ ~call.payload.usable => out[p] >= call.payload.of
    /\ call.step # "idle" => \A i \in 1..(call.next - 1) : Excused(Chain[i], call, out)

ClockOK ==
    /\ time \in 0..MaxTime
    /\ outage \in [External -> -1..MaxTime]
    /\ \A p \in External : outage[p] <= time

CacheOK ==
    /\ cache = [p \in External |-> cache[p]]
    /\ \A p \in External : \A c \in DOMAIN cache[p] :
          EntryOK(p, c, cache[p][c], time, outage)

CallsOK ==
    /\ calls \in [Threads -> Calls]
    /\ \A t \in Threads : CallOK(calls[t], time, outage)

IInv == ClockOK /\ CacheOK /\ CallsOK

-------------------------------------------------------------------------------
(* Helpers                                                                   *)

LEMMA Constants ==
    /\ MaxTime \in Nat /\ Len(Chain) \in Nat /\ Len(Chain) >= 1
    /\ DOMAIN Chain = 1..Len(Chain)
    /\ \A i \in 1..Len(Chain) : Chain[i] \in Providers
    /\ \A p \in External : TTL[p] \in Nat
<1>1. Chain \in Seq(Providers) /\ Chain # <<>>
      BY MarketDataAssumption
<1>2. Len(Chain) \in Nat /\ DOMAIN Chain = 1..Len(Chain) /\ Len(Chain) # 0
      BY <1>1, LenProperties, EmptySeq
<1> QED BY <1>2, MarketDataAssumption DEF Providers

LEMMA ClockTypes ==
    ASSUME ClockOK
    PROVE  /\ time \in Nat /\ time <= MaxTime
           /\ \A p \in External : outage[p] \in Int /\ outage[p] <= time
BY Constants DEF ClockOK

\* Time has gone on and outages were only added.
Forward ==
    /\ ClockOK /\ ClockOK'
    /\ time <= time'
    /\ \A p \in External : outage[p] <= outage'[p]

LEMMA ForwardUnchanged ==
    ASSUME ClockOK, UNCHANGED <<time, outage>>
    PROVE  Forward
BY ClockTypes DEF Forward, ClockOK

LEMMA ForwardOutage ==
    ASSUME ClockOK, NEW p \in External, UNCHANGED time,
           outage' = [outage EXCEPT ![p] = time]
    PROVE  Forward /\ outage'[p] = time
<1>1. time \in Nat /\ time <= MaxTime /\ MaxTime \in Nat /\ time \in -1..MaxTime
      BY ClockTypes, Constants
<1>2. outage' \in [External -> -1..MaxTime] /\ outage'[p] = time
      BY <1>1 DEF ClockOK
<1>3. \A q \in External : outage[q] <= outage'[q] /\ outage'[q] <= time
      BY <1>1, <1>2, ClockTypes DEF ClockOK
<1> QED BY <1>1, <1>2, <1>3 DEF Forward, ClockOK

\* What is kept and what was asked stay right.
LEMMA EntryStays ==
    ASSUME Forward, NEW p \in External, NEW c, NEW entry,
           EntryOK(p, c, entry, time, outage)
    PROVE  EntryOK(p, c, entry, time', outage')
<1>1. /\ time \in Nat /\ time' \in Nat /\ time <= time'
      /\ outage[p] \in Int /\ outage'[p] \in Int /\ outage[p] <= outage'[p]
      BY Constants DEF Forward, ClockOK
<1>2. entry.payload.of \in Nat
      BY DEF EntryOK, Payloads
<1> QED BY <1>1, <1>2 DEF EntryOK

LEMMA ExcuseStays ==
    ASSUME Forward, NEW p, NEW call \in Calls, Excused(p, call, outage)
    PROVE  Excused(p, call, outage')
<1> SUFFICES ASSUME p \in External, call.conid \in Serves[p]
             PROVE  outage'[p] >= 0 /\ outage'[p] >= call.asked - TTL[p]
    BY DEF Excused
<1>1. /\ outage[p] \in Int /\ outage'[p] \in Int /\ outage[p] <= outage'[p]
      /\ TTL[p] \in Nat /\ call.asked \in Nat
      BY Constants DEF Forward, ClockOK, Calls
<1>2. outage[p] >= 0 /\ outage[p] >= call.asked - TTL[p]
      BY DEF Excused
<1> QED BY <1>1, <1>2

LEMMA CallStays ==
    ASSUME Forward, NEW call, CallOK(call, time, outage)
    PROVE  CallOK(call, time', outage')
<1>1. call \in Calls /\ call.next \in DOMAIN Chain
      BY DEF CallOK, Calls
<1>2. time \in Nat /\ time' \in Nat /\ time <= time'
      BY Constants DEF Forward, ClockOK
<1>3. call.asked \in Nat /\ call.began \in Nat /\ call.payload.of \in Nat
      BY <1>1 DEF Calls, Payloads
<1>4. ASSUME call.step # "idle", NEW i \in 1..(call.next - 1)
      PROVE  Excused(Chain[i], call, outage')
      BY <1>1, <1>4, ExcuseStays DEF CallOK
<1>5. ASSUME call.step = "arrived", ~call.payload.usable
      PROVE  outage'[Chain[call.next]] >= call.payload.of
  <2> DEFINE p == Chain[call.next]
  <2>1. p \in External /\ outage[p] >= call.payload.of
        BY <1>5 DEF CallOK
  <2>2. outage[p] \in Int /\ outage'[p] \in Int /\ outage[p] <= outage'[p]
        BY <2>1, Constants DEF Forward, ClockOK
  <2> QED BY <1>3, <2>1, <2>2
<1> QED BY <1>1, <1>2, <1>3, <1>4, <1>5 DEF CallOK

LEMMA CacheStays ==
    ASSUME IInv, Forward, UNCHANGED cache
    PROVE  CacheOK'
BY EntryStays DEF IInv, CacheOK

LEMMA CallsStay ==
    ASSUME IInv, Forward, UNCHANGED calls
    PROVE  CallsOK'
BY CallStays DEF IInv, CallsOK

\* One thread moves on.
LEMMA CallMoves ==
    ASSUME IInv, Forward, NEW t \in Threads, NEW call,
           calls' = [calls EXCEPT ![t] = call], CallOK(call, time', outage')
    PROVE  CallsOK'
<1>1. call \in Calls
      BY DEF CallOK
<1>2. calls \in [Threads -> Calls] /\ calls' \in [Threads -> Calls]
      BY <1>1 DEF IInv, CallsOK
<1>3. ASSUME NEW u \in Threads PROVE CallOK(calls'[u], time', outage')
      BY <1>2, CallStays DEF IInv, CallsOK
<1> QED BY <1>2, <1>3 DEF CallsOK

LEMMA IdleOK ==
    ASSUME NEW answered \in BOOLEAN, NEW now \in Nat, NEW out
    PROVE  CallOK(Idle(answered), now, out)
<1>1. 1 \in DOMAIN Chain
      BY Constants
<1>2. NoPayload \in Payloads
      BY DEF NoPayload, Payloads
<1>3. Idle(answered) \in Calls
      BY <1>1, <1>2 DEF Idle, Calls
<1>4. /\ Idle(answered).step = "idle" /\ Idle(answered).next = 1
      /\ Idle(answered).asked = 0
      BY DEF Idle
<1> HIDE DEF Idle
<1> QED BY <1>1, <1>3, <1>4 DEF CallOK

LEMMA AnsweredCall ==
    ASSUME IInv, Forward, NEW t \in Threads, Answered(t)
    PROVE  CallsOK'
<1>1. time' \in Nat
      BY Constants DEF Forward, ClockOK
<1> QED BY <1>1, IdleOK, CallMoves DEF Answered

\* The next provider is asked after one that is excused.
LEMMA FailedCall ==
    ASSUME IInv, Forward, NEW t \in Threads, Failed(t), calls[t].step # "idle",
           Excused(Provider(t), calls[t], outage')
    PROVE  CallsOK'
<1> DEFINE call == calls[t]
           next == NextProvider(call)
<1>1. call \in Calls /\ CallOK(call, time', outage')
      BY CallStays DEF IInv, CallsOK
<1>2. CASE call.next < Len(Chain)
  <2>1. calls' = [calls EXCEPT ![t] = next]
        BY <1>2 DEF Failed
  <2>2. /\ next \in Calls /\ next.step = "try" /\ next.next = call.next + 1
        /\ next.asked = call.asked /\ next.conid = call.conid
    <3>1. call.next \in 1..Len(Chain) /\ call.next + 1 \in DOMAIN Chain
          BY <1>1, <1>2, Constants DEF Calls
    <3>2. NoPayload \in Payloads
          BY DEF NoPayload, Payloads
    <3> QED BY <1>1, <3>1, <3>2 DEF Calls, NextProvider
  <2>3. ASSUME NEW i \in 1..(next.next - 1) PROVE Excused(Chain[i], next, outage')
    <3>1. call.next \in Nat /\ i \in 1..call.next
          BY <1>1, <2>2, Constants DEF Calls
    <3>2. Excused(Chain[i], call, outage')
      <4>1. CASE i = call.next
            BY <4>1 DEF Provider
      <4>2. CASE i \in 1..(call.next - 1)
            BY <1>1, <4>2 DEF CallOK
      <4> QED BY <3>1, <4>1, <4>2
    <3> QED BY <2>2, <3>2 DEF Excused
  <2> HIDE DEF next
  <2>4. CallOK(next, time', outage')
        BY <1>1, <2>2, <2>3 DEF CallOK
  <2> QED BY <2>1, <2>4, CallMoves
<1>3. CASE ~(call.next < Len(Chain))
  <2>1. calls' = [calls EXCEPT ![t] = Idle(FALSE)]
        BY <1>3 DEF Failed
  <2>2. time' \in Nat
        BY Constants DEF Forward, ClockOK
  <2> QED BY <2>1, <2>2, IdleOK, CallMoves
<1> QED BY <1>2, <1>3

-------------------------------------------------------------------------------
(* The steps                                                                 *)

LEMMA CallFields ==
    ASSUME IInv, NEW t \in Threads
    PROVE  /\ calls[t] \in Calls /\ CallOK(calls[t], time, outage)
           /\ calls[t].next \in 1..Len(Chain)
           /\ Provider(t) = Chain[calls[t].next] /\ Provider(t) \in Providers
           /\ calls[t].asked \in Nat /\ calls[t].began \in Nat
           /\ calls[t].payload \in Payloads
<1>1. calls[t] \in Calls /\ CallOK(calls[t], time, outage)
      BY DEF IInv, CallsOK
<1> QED BY <1>1, Constants DEF Calls, Provider

LEMMA InitOK == Init => IInv
<1> SUFFICES ASSUME Init PROVE IInv
    OBVIOUS
<1>1. ClockOK
      BY Constants DEF Init, ClockOK
<1>2. CacheOK
  <2>1. cache = [p \in External |-> cache[p]]
        BY DEF Init
  <2>2. \A p \in External : DOMAIN cache[p] = {}
        BY DEF Init
  <2> QED BY <2>1, <2>2 DEF CacheOK
<1>3. CallsOK
  <2>1. time \in Nat /\ calls = [t \in Threads |-> Idle(TRUE)]
        BY DEF Init
  <2>2. CallOK(Idle(TRUE), time, outage)
        BY <2>1, IdleOK
  <2>3. Idle(TRUE) \in Calls
        BY <2>2 DEF CallOK
  <2> HIDE DEF Idle
  <2> QED BY <2>1, <2>2, <2>3 DEF CallsOK
<1> QED BY <1>1, <1>2, <1>3 DEF IInv

LEMMA AskKeeps ==
    ASSUME IInv, NEW t \in Threads, NEW c \in Conids, Ask(t, c)
    PROVE  IInv'
<1> DEFINE call == [calls[t] EXCEPT !.step = "try", !.conid = c, !.asked = time]
<1>1. Forward /\ time \in Nat
      BY ForwardUnchanged, ClockTypes DEF Ask, IInv
<1>2. /\ call \in Calls /\ call.step = "try" /\ call.asked = time
      /\ call.next = calls[t].next
      BY <1>1, CallFields DEF Calls
<1>3. call.next = 1 /\ calls' = [calls EXCEPT ![t] = call]
      BY <1>2, CallFields DEF Ask, CallOK
<1> HIDE DEF call
<1>4. CallOK(call, time', outage')
      BY <1>1, <1>2, <1>3 DEF CallOK, Ask
<1> QED BY <1>1, <1>3, <1>4, CallMoves, CacheStays DEF Forward, IInv, Ask

LEMMA UnsupportedKeeps ==
    ASSUME IInv, NEW t \in Threads, Unsupported(t)
    PROVE  IInv'
<1>1. Forward
      BY ForwardUnchanged DEF Unsupported, IInv
<1>2. Excused(Provider(t), calls[t], outage')
      BY DEF Unsupported, Excused
<1>3. calls[t].step # "idle"
      BY DEF Unsupported
<1> QED BY <1>1, <1>2, <1>3, FailedCall, CacheStays DEF Unsupported, Forward, IInv

LEMMA AnswerLocallyKeeps ==
    ASSUME IInv, NEW t \in Threads, AnswerLocally(t)
    PROVE  IInv'
<1>1. Forward
      BY ForwardUnchanged DEF AnswerLocally, IInv
<1> QED BY <1>1, AnsweredCall, CacheStays DEF AnswerLocally, Forward, IInv

\* The entry that is used is fresh: it came in before the request at most for as
\* long as it is kept.
LEMMA FreshEntry ==
    ASSUME IInv, NEW t \in Threads, UseCache(t)
    PROVE  LET p == Provider(t)
               entry == cache[p][calls[t].conid] IN
           /\ p \in External
           /\ EntryOK(p, calls[t].conid, entry, time, outage)
           /\ entry.payload.of \in Nat
           /\ time - entry.payload.of <= TTL[p]
<1> DEFINE p == Provider(t)
           entry == cache[p][calls[t].conid]
<1>1. /\ p \in External /\ calls[t].conid \in DOMAIN cache[p]
      /\ time - entry.since <= TTL[p]
      BY DEF UseCache, AskingExternal, Fresh
<1>2. EntryOK(p, calls[t].conid, entry, time, outage)
      BY <1>1 DEF IInv, CacheOK
<1>3. time \in Nat /\ TTL[p] \in Nat
      BY <1>1, ClockTypes, Constants DEF IInv
<1> HIDE DEF entry
<1>4. entry.since \in Nat /\ entry.payload.of \in Nat /\ entry.since <= entry.payload.of
      BY <1>2 DEF EntryOK, Payloads
<1>5. time - entry.payload.of <= TTL[p]
      BY <1>1, <1>3, <1>4
<1> QED BY <1>1, <1>2, <1>4, <1>5 DEF entry

LEMMA UseCacheKeeps ==
    ASSUME IInv, NEW t \in Threads, UseCache(t)
    PROVE  IInv'
<1> DEFINE p == Provider(t)
           entry == cache[p][calls[t].conid]
<1>1. Forward
      BY ForwardUnchanged DEF UseCache, IInv
<1>2. CASE entry.payload.usable
      BY <1>1, <1>2, AnsweredCall, CacheStays DEF UseCache, Forward, IInv
<1>3. CASE ~entry.payload.usable
  <2>1. /\ p \in External /\ outage[p] \in Int /\ time \in Nat
        /\ outage[p] >= entry.payload.of /\ entry.payload.of \in Nat
        /\ time - entry.payload.of <= TTL[p] /\ TTL[p] \in Nat
        BY <1>3, FreshEntry, ClockTypes, Constants DEF EntryOK, IInv
  <2>2. calls[t].asked \in Nat /\ calls[t].asked <= time
        BY CallFields DEF CallOK
  <2>3. outage[p] >= 0 /\ outage[p] >= calls[t].asked - TTL[p]
        BY <2>1, <2>2
  <2>4. Excused(p, calls[t], outage')
        BY <2>3 DEF Excused, UseCache
  <2>5. calls[t].step # "idle"
        BY DEF UseCache, AskingExternal
  <2> QED BY <1>1, <1>3, <2>4, <2>5, FailedCall, CacheStays DEF UseCache, Forward, IInv
<1> QED BY <1>2, <1>3

LEMMA SendKeeps ==
    ASSUME IInv, NEW t \in Threads, Send(t)
    PROVE  IInv'
<1> DEFINE call == [calls[t] EXCEPT !.step = "wait", !.began = time]
<1>1. Forward /\ time \in Nat
      BY ForwardUnchanged, ClockTypes DEF Send, IInv
<1>2. /\ call \in Calls /\ call.step = "wait" /\ call.asked = calls[t].asked
      /\ call.next = calls[t].next /\ call.conid = calls[t].conid /\ call.began = time
      BY <1>1, CallFields DEF Calls
<1>3. calls' = [calls EXCEPT ![t] = call] /\ UNCHANGED <<time, cache, outage>>
      BY DEF Send
<1>4. /\ Chain[call.next] \in External /\ call.conid \in Serves[Chain[call.next]]
      /\ calls[t].step # "idle"
      BY <1>2 DEF Send, AskingExternal, Provider
<1> HIDE DEF call
<1>5. \A i \in 1..(call.next - 1) : Excused(Chain[i], call, outage')
      BY <1>2, <1>3, <1>4, CallFields DEF CallOK, Excused
<1>6. CallOK(call, time', outage')
      BY <1>1, <1>2, <1>3, <1>4, <1>5, CallFields DEF CallOK
<1> QED BY <1>1, <1>3, <1>6, CallMoves, CacheStays DEF Forward, IInv

LEMMA TransportFailsKeeps ==
    ASSUME IInv, NEW t \in Threads, TransportFails(t)
    PROVE  IInv'
<1> DEFINE p == Provider(t)
<1>1. calls[t].step = "wait" /\ p \in External
      BY CallFields DEF TransportFails, CallOK
<1>2. Forward /\ outage'[p] = time
      BY <1>1, ForwardOutage DEF TransportFails, IInv
<1>3. time \in Nat /\ TTL[p] \in Nat /\ calls[t].asked \in Nat /\ calls[t].asked <= time
      BY <1>1, ClockTypes, Constants, CallFields DEF CallOK, IInv
<1>4. outage'[p] >= 0 /\ outage'[p] >= calls[t].asked - TTL[p]
      BY <1>2, <1>3
<1>5. Excused(p, calls[t], outage')
      BY <1>4 DEF Excused
<1>6. CallsOK'
      BY <1>1, <1>2, <1>5, FailedCall DEF TransportFails
<1> QED BY <1>2, <1>6, CacheStays DEF TransportFails, Forward, IInv

LEMMA RespondKeeps ==
    ASSUME IInv, NEW t \in Threads, NEW usable \in BOOLEAN, Respond(t, usable)
    PROVE  IInv'
<1> DEFINE p == Provider(t)
           payload == [usable |-> usable, of |-> time]
           call == [calls[t] EXCEPT !.step = "arrived", !.payload = payload]
<1>1. calls[t].step = "wait" /\ p \in External /\ calls[t].conid \in Serves[p]
      BY CallFields DEF Respond, CallOK
<1>2. Forward /\ (~usable => outage'[p] = time)
  <2>1. CASE usable
        BY <2>1, ForwardUnchanged DEF Respond, IInv
  <2>2. CASE ~usable
        BY <1>1, <2>2, ForwardOutage DEF Respond, IInv
  <2> QED BY <2>1, <2>2
<1>3. time \in Nat /\ payload \in Payloads /\ payload.of = time /\ payload.usable = usable
      BY ClockTypes DEF IInv, Payloads
<1>4. /\ call \in Calls /\ call.step = "arrived" /\ call.asked = calls[t].asked
      /\ call.next = calls[t].next /\ call.conid = calls[t].conid
      /\ call.began = calls[t].began /\ call.payload = payload
      BY <1>3, CallFields DEF Calls
<1>5. calls' = [calls EXCEPT ![t] = call] /\ UNCHANGED <<time, cache>>
      BY DEF Respond
<1>6. CallOK(calls[t], time', outage')
      BY <1>2, CallFields, CallStays
<1> HIDE DEF call, payload
<1>7. \A i \in 1..(call.next - 1) : Excused(Chain[i], call, outage')
      BY <1>1, <1>4, <1>6 DEF CallOK, Excused
<1>8. CallOK(call, time', outage')
      BY <1>1, <1>2, <1>3, <1>4, <1>5, <1>6, <1>7, CallFields DEF CallOK, Provider
<1> QED BY <1>2, <1>5, <1>8, CallMoves, CacheStays DEF Forward, IInv

LEMMA DeliverKeeps ==
    ASSUME IInv, NEW t \in Threads, Deliver(t)
    PROVE  IInv'
<1> DEFINE p == Provider(t)
           c == calls[t].conid
           kept == [d \in DOMAIN cache[p] \cup {c} |->
                       IF d = c THEN Entry(calls[t]) ELSE cache[p][d]]
<1>1. /\ calls[t].step = "arrived" /\ p \in External /\ c \in Serves[p]
      /\ cache' = [cache EXCEPT ![p] = kept] /\ UNCHANGED <<time, outage>>
      BY CallFields DEF Deliver, CallOK
<1>2. Forward
      BY <1>1, ForwardUnchanged DEF IInv
<1>3. EntryOK(p, c, Entry(calls[t]), time, outage)
  <2>1. Entry(calls[t]).since = calls[t].began /\ Entry(calls[t]).payload = calls[t].payload
        BY DEF Entry
  <2> QED BY <1>1, <2>1, CallFields DEF CallOK, EntryOK
<1>4. CacheOK'
  <2>1. cache = [q \in External |-> cache[q]]
        BY DEF IInv, CacheOK
  <2>2. /\ cache' = [q \in External |-> cache'[q]] /\ cache'[p] = kept
        /\ \A q \in External : q # p => cache'[q] = cache[q]
        BY <1>1, <2>1
  <2>3. ASSUME NEW q \in External, NEW d \in DOMAIN cache'[q]
        PROVE  EntryOK(q, d, cache'[q][d], time', outage')
    <3>1. CASE q = p /\ d = c
          BY <1>1, <1>3, <2>2, <3>1
    <3>2. CASE ~(q = p /\ d = c)
          BY <1>1, <2>2, <3>2 DEF IInv, CacheOK
    <3> QED BY <3>1, <3>2
  <2> HIDE DEF kept
  <2> QED BY <2>2, <2>3 DEF CacheOK
<1>5. CallsOK'
  <2>1. CASE calls[t].payload.usable
        BY <1>2, <2>1, AnsweredCall DEF Deliver
  <2>2. CASE ~calls[t].payload.usable
    <3>1. /\ outage[p] \in Int /\ outage[p] >= calls[t].payload.of
          /\ calls[t].asked <= calls[t].began /\ calls[t].began <= calls[t].payload.of
          BY <1>1, <2>2, CallFields, ClockTypes DEF CallOK, IInv
    <3>2. /\ calls[t].asked \in Nat /\ calls[t].began \in Nat
          /\ calls[t].payload.of \in Nat /\ TTL[p] \in Nat
          BY <1>1, CallFields, Constants DEF Payloads
    <3>3. outage[p] >= 0 /\ outage[p] >= calls[t].asked - TTL[p]
          BY <3>1, <3>2
    <3>4. Excused(p, calls[t], outage')
          BY <1>1, <3>3 DEF Excused
    <3> QED BY <1>1, <1>2, <2>2, <3>4, FailedCall DEF Deliver
  <2> QED BY <2>1, <2>2
<1> QED BY <1>2, <1>4, <1>5 DEF Forward, IInv

LEMMA TickKeeps ==
    ASSUME IInv, Tick
    PROVE  IInv'
<1>1. time \in Nat /\ MaxTime \in Nat /\ time < MaxTime /\ time' = time + 1
      BY ClockTypes, Constants DEF IInv, Tick
<1>2. Forward
      BY <1>1, ClockTypes DEF Tick, IInv, Forward, ClockOK
<1> QED BY <1>2, CacheStays, CallsStay DEF Tick, Forward, IInv

LEMMA NextOK ==
    ASSUME IInv, [Next]_vars
    PROVE  IInv'
<1>1. ASSUME NEW t \in Threads, Proceed(t) PROVE IInv'
      BY <1>1, UnsupportedKeeps, AnswerLocallyKeeps, UseCacheKeeps, SendKeeps,
         TransportFailsKeeps, RespondKeeps, DeliverKeeps DEF Proceed
<1>2. CASE UNCHANGED vars
      BY <1>2, ForwardUnchanged, CacheStays, CallsStay DEF vars, IInv, Forward
<1> QED BY <1>1, <1>2, AskKeeps, TickKeeps DEF Next

LEMMA ChainInvariant == Spec => []IInv
<1>1. IInv /\ [Next]_vars => IInv'
      BY NextOK
<1> QED BY InitOK, <1>1, PTL DEF Spec

-------------------------------------------------------------------------------
(* The theorems                                                              *)

\* Every entry that is kept is one of a contract the provider serves, and says
\* something from after it was asked for (marketdata.py 212-222, 368-376).
THEOREM MarketDataTypeCorrect == Spec => []TypeOK
<1>1. IInv => TypeOK
  <2> SUFFICES ASSUME IInv PROVE TypeOK
      OBVIOUS
  <2>1. \A p \in External : \A c \in DOMAIN cache[p] :
           /\ c \in Serves[p]
           /\ cache[p][c].since <= cache[p][c].payload.of
           /\ cache[p][c].payload.of <= time
        BY DEF IInv, CacheOK, EntryOK
  <2> QED BY <2>1 DEF IInv, ClockOK, CallsOK, TypeOK
<1> QED BY <1>1, ChainInvariant, PTL

\* A request returns by a step of its own.
LEMMA ReturnProceeds ==
    ASSUME IInv, [Next]_vars, NEW t \in Threads, Returns(t)
    PROVE  Proceed(t)
<1>1. calls \in [Threads -> Calls] /\ calls'[t] # calls[t]
      BY DEF IInv, CallsOK, Returns
<1>2. ASSUME NEW u \in Threads, NEW call, calls' = [calls EXCEPT ![u] = call]
      PROVE  u = t
      BY <1>1, <1>2
<1>3. ASSUME NEW u \in Threads, Proceed(u) PROVE u = t
  <2>1. PICK call : calls' = [calls EXCEPT ![u] = call]
        BY <1>3 DEF Proceed, Unsupported, AnswerLocally, UseCache, Send, TransportFails,
                    Respond, Deliver, Answered, Failed
  <2> QED BY <1>2, <2>1
<1>4. ASSUME NEW u \in Threads, NEW c \in Conids, Ask(u, c) PROVE FALSE
  <2>1. u = t
        BY <1>2, <1>4 DEF Ask
  <2> QED BY <1>4, <2>1 DEF Ask, Returns
<1>5. calls' # calls
      BY <1>1
<1> QED BY <1>3, <1>4, <1>5 DEF Next, Tick, vars

\* Only the last provider's failure ends a request without an answer.
LEMMA FailedReturns ==
    ASSUME IInv, NEW t \in Threads, Failed(t), calls'[t].step = "idle"
    PROVE  calls[t].next = Len(Chain) /\ ~calls'[t].answered
<1>1. calls \in [Threads -> Calls] /\ calls[t] \in Calls /\ calls[t].next \in 1..Len(Chain)
      BY CallFields DEF IInv, CallsOK
<1>2. CASE calls[t].next < Len(Chain)
  <2>1. calls'[t] = NextProvider(calls[t])
        BY <1>1, <1>2 DEF Failed
  <2>2. NextProvider(calls[t]).step = "try"
        BY <1>1 DEF NextProvider, Calls
  <2> QED BY <2>1, <2>2
<1>3. CASE ~(calls[t].next < Len(Chain))
  <2>1. calls'[t] = Idle(FALSE)
        BY <1>1, <1>3 DEF Failed
  <2> QED BY <1>1, <1>3, <2>1, Constants DEF Idle
<1> QED BY <1>2, <1>3

\* What an external provider answers from its cache was true no longer ago than it
\* may be kept, for any threads, contracts and times (marketdata.py 212-222).
THEOREM CachedDataIsFresh == Spec => DataIsFresh
<1> DEFINE A == \A t \in Threads :
                   LET p == Provider(t) IN
                   Returns(t) /\ calls'[t].answered /\ AskingExternal(t)
                   => time - cache[p][calls[t].conid].payload.of <= TTL[p]
<1>1. IInv /\ [Next]_vars => A
  <2> SUFFICES ASSUME IInv, [Next]_vars, NEW t \in Threads, Returns(t),
                      AskingExternal(t)
               PROVE  time - cache[Provider(t)][calls[t].conid].payload.of
                          <= TTL[Provider(t)]
      OBVIOUS
  <2>1. Proceed(t) /\ calls[t].step = "try"
        BY ReturnProceeds DEF AskingExternal
  <2>2. ~Send(t)
    <3> SUFFICES ASSUME Send(t) PROVE FALSE
        OBVIOUS
    <3>1. calls'[t] = [calls[t] EXCEPT !.step = "wait", !.began = time] /\ calls[t] \in Calls
          BY CallFields DEF Send, IInv, CallsOK
    <3>2. calls'[t].step = "wait"
          BY <3>1 DEF Calls
    <3> QED BY <3>2 DEF Returns
  <2>3. ~Unsupported(t) /\ ~AnswerLocally(t)
        BY DEF AskingExternal, Unsupported, AnswerLocally
  <2>4. UseCache(t)
        BY <2>1, <2>2, <2>3 DEF Proceed, TransportFails, Deliver, Respond
  <2> QED BY <2>4, FreshEntry
<1>2. IInv /\ [Next]_vars => [A]_vars
      BY <1>1
<1> QED BY <1>2, ChainInvariant, PTL DEF Spec, DataIsFresh

\* A provider is passed over only when it could not answer, not longer before the
\* request than it keeps an answer without data (marketdata.py 145-167, 368-385).
THEOREM FallbackIsExcused == Spec => FallbackOnlyAfterOutage
<1> DEFINE A == \A t \in Threads :
                   Returns(t) /\ calls'[t].answered =>
                      \A i \in 1..(calls[t].next - 1) :
                         LET p == Chain[i] IN
                         p \in External /\ calls[t].conid \in Serves[p]
                         => outage[p] >= 0 /\ outage[p] >= calls[t].asked - TTL[p]
<1>1. IInv => A
      BY CallFields DEF Returns, CallOK, Excused
<1>2. IInv /\ [Next]_vars => [A]_vars
      BY <1>1
<1> QED BY <1>2, ChainInvariant, PTL DEF Spec, FallbackOnlyAfterOutage

\* With a last provider that needs no network, as every configuration of the
\* server has, a request for a contract it has data for never raises
\* (marketdata.py 145-167, service.py 70-95).
THEOREM SafetyNetAnswers ==
    ASSUME Chain[Len(Chain)] \notin External
    PROVE  Spec => ServedContractsAnswered
<1> DEFINE A == \A t \in Threads :
                   Returns(t) /\ calls[t].conid \in Serves[Chain[Len(Chain)]]
                   => calls'[t].answered
<1>1. IInv /\ [Next]_vars => A
  <2> SUFFICES ASSUME IInv, [Next]_vars, NEW t \in Threads, Returns(t),
                      calls[t].conid \in Serves[Chain[Len(Chain)]]
               PROVE  calls'[t].answered
      OBVIOUS
  <2>1. Proceed(t) /\ calls'[t].step = "idle" /\ calls[t] \in Calls
        /\ calls \in [Threads -> Calls]
        BY ReturnProceeds, CallFields DEF Returns, IInv, CallsOK
  <2>2. ASSUME Failed(t)
        PROVE  /\ Provider(t) \notin External
               /\ calls[t].conid \in Serves[Provider(t)]
               /\ calls[t].step \notin {"wait", "arrived"}
    <3>1. Provider(t) = Chain[Len(Chain)]
          BY <2>1, <2>2, FailedReturns DEF Provider
    <3> QED BY <3>1, CallFields DEF CallOK
  <2>3. ~Send(t)
    <3>1. ASSUME Send(t) PROVE calls'[t].step = "wait"
          BY <2>1, <3>1 DEF Send, Calls
    <3> QED BY <2>1, <3>1
  <2>4. ASSUME NEW usable \in BOOLEAN PROVE ~Respond(t, usable)
    <3>1. ASSUME Respond(t, usable) PROVE calls'[t].step = "arrived"
          BY <2>1, <3>1 DEF Respond, Calls
    <3> QED BY <2>1, <3>1
  <2>5. Answered(t)
        BY <2>1, <2>2, <2>3, <2>4
        DEF Proceed, Unsupported, AnswerLocally, UseCache, AskingExternal, TransportFails,
            Deliver
  <2> QED BY <2>1, <2>5 DEF Answered, Idle
<1>2. IInv /\ [Next]_vars => [A]_vars
      BY <1>1
<1> QED BY <1>2, ChainInvariant, PTL DEF Spec, ServedContractsAnswered

===============================================================================
