------------------------------ MODULE MarketData ------------------------------
(***************************************************************************)
(* CompositeMarketDataProvider and the providers behind it (marketdata.py): *)
(* a request goes down the chain of providers until one answers; the        *)
(* external providers keep what they fetched for a while, answers without   *)
(* data as well.  Quotes, bars and depth take the same way, each with cache *)
(* keys of its own or sharing one, so one kind of request stands for all.   *)
(* What a payload says is reduced to whether it can be used and when it was *)
(* true.                                                                    *)
(***************************************************************************)
EXTENDS Integers, Sequences

CONSTANTS
    Threads,
    Chain,          \* the providers, in the order they are tried
    External,       \* those that ask the network
    Conids,         \* what clients ask for
    NoConid,
    Contracts,      \* the seeded contracts among Conids
    Serves,         \* the contracts a provider has data for
    TTL,            \* how long an external provider keeps a payload
    MaxTime         \* bound on the time

Providers == {Chain[i] : i \in DOMAIN Chain}

ASSUME MarketDataAssumption ==
    /\ Chain \in Seq(Providers) /\ Chain # <<>>
    /\ External \subseteq Providers
    /\ NoConid \notin Conids /\ Contracts \subseteq Conids
    /\ Serves \in [Providers -> SUBSET Contracts]
    /\ TTL \in [External -> Nat]
    /\ MaxTime \in Nat

VARIABLES
    time,           \* time.time()
    cache,          \* _cache of each external provider
    calls,          \* the request each thread is in, and its last answer
    outage          \* history: when a provider last failed to give data, -1 for never

vars == <<time, cache, calls, outage>>

Payloads == [usable : BOOLEAN, of : Nat]

\* step "try": about to ask Chain[next]; "wait": its request is on the way, began
\* is when it was sent; "arrived": payload is back.  answered tells of an idle
\* thread whether its last request was answered or raised.
Calls ==
    [step : {"idle", "try", "wait", "arrived"}, conid : Conids \cup {NoConid},
     next : DOMAIN Chain, asked : Nat, began : Nat, payload : Payloads,
     answered : BOOLEAN]

NoPayload == [usable |-> FALSE, of |-> 0]

Idle(answered) ==
    [step |-> "idle", conid |-> NoConid, next |-> 1, asked |-> 0, began |-> 0,
     payload |-> NoPayload, answered |-> answered]

\* Every cache entry was fetched before now and says something from when it was
\* on the way or later.
TypeOK ==
    /\ time \in 0..MaxTime
    /\ calls \in [Threads -> Calls]
    /\ outage \in [External -> -1..MaxTime]
    /\ \A p \in External : \A c \in DOMAIN cache[p] :
          /\ c \in Serves[p]
          /\ cache[p][c].since <= cache[p][c].payload.of
          /\ cache[p][c].payload.of <= time

Init ==
    /\ time = 0
    /\ cache = [p \in External |-> <<>>]
    /\ calls = [t \in Threads |-> Idle(TRUE)]
    /\ outage = [p \in External |-> -1]

-------------------------------------------------------------------------------

Provider(t) == Chain[calls[t].next]

\* The provider returns; nothing of the request is kept but the answer.
Answered(t) == calls' = [calls EXCEPT ![t] = Idle(TRUE)]

NextProvider(call) ==
    [call EXCEPT !.step = "try", !.next = @ + 1, !.began = 0, !.payload = NoPayload]

\* Gives up with the first failure of the provider before the last.
FailedMutant(t) ==
    calls' = [calls EXCEPT ![t] = IF @.next < Len(Chain) - 1 THEN NextProvider(@)
                                                             ELSE Idle(FALSE)]

\* The provider raises: the next one is asked, after the last the request raises.
Failed(t) ==
    calls' = [calls EXCEPT ![t] = IF @.next < Len(Chain) THEN NextProvider(@)
                                                         ELSE Idle(FALSE)]

Ask(t, c) ==
    /\ calls[t].step = "idle"
    /\ calls' = [calls EXCEPT ![t] =
                    [@ EXCEPT !.step = "try", !.conid = c, !.asked = time]]
    /\ UNCHANGED <<time, cache, outage>>

\* An unknown contract, or one that the provider does not support.
Unsupported(t) ==
    /\ calls[t].step = "try"
    /\ calls[t].conid \notin Serves[Provider(t)]
    /\ Failed(t)
    /\ UNCHANGED <<time, cache, outage>>

\* A provider without network always has something for its contracts.
AnswerLocally(t) ==
    /\ calls[t].step = "try"
    /\ Provider(t) \notin External
    /\ calls[t].conid \in Serves[Provider(t)]
    /\ Answered(t)
    /\ UNCHANGED <<time, cache, outage>>

\* Keeps an entry as long as nothing else was fetched.
FreshMutant(p, c) == c \in DOMAIN cache[p]

Fresh(p, c) == c \in DOMAIN cache[p] /\ time - cache[p][c].since <= TTL[p]

\* An external provider that has the contract is asked.
AskingExternal(t) ==
    /\ calls[t].step = "try"
    /\ Provider(t) \in External
    /\ calls[t].conid \in Serves[Provider(t)]

\* What was kept is used, also when it is an answer without data.
UseCache(t) ==
    LET p == Provider(t)
        c == calls[t].conid IN
    /\ AskingExternal(t)
    /\ Fresh(p, c)
    /\ IF cache[p][c].payload.usable THEN Answered(t)
                                       ELSE Failed(t)
    /\ UNCHANGED <<time, cache, outage>>

Send(t) ==
    /\ AskingExternal(t)
    /\ ~Fresh(Provider(t), calls[t].conid)
    /\ calls' = [calls EXCEPT ![t] = [@ EXCEPT !.step = "wait", !.began = time]]
    /\ UNCHANGED <<time, cache, outage>>

\* No connection, an HTTP error or the timeout: nothing is kept.
TransportFails(t) ==
    /\ calls[t].step = "wait"
    /\ Failed(t)
    /\ outage' = [outage EXCEPT ![Provider(t)] = time]
    /\ UNCHANGED <<time, cache>>

\* The source answers with what is true now, or with nothing that can be used.
Respond(t, usable) ==
    /\ calls[t].step = "wait"
    /\ calls' = [calls EXCEPT ![t] =
                    [@ EXCEPT !.step = "arrived",
                              !.payload = [usable |-> usable, of |-> time]]]
    /\ outage' = IF usable THEN outage ELSE [outage EXCEPT ![Provider(t)] = time]
    /\ UNCHANGED <<time, cache>>

\* Counts the time it is kept from when it came in.
EntryMutant(call) == [since |-> time, payload |-> call.payload]

\* Counts the time it is kept from when it was asked for.
Entry(call) == [since |-> call.began, payload |-> call.payload]

\* The payload is kept before it is looked at, whatever was kept meanwhile.
Deliver(t) ==
    LET p == Provider(t)
        c == calls[t].conid IN
    /\ calls[t].step = "arrived"
    /\ cache' = [cache EXCEPT ![p] =
                    [d \in DOMAIN cache[p] \cup {c} |->
                        IF d = c THEN Entry(calls[t]) ELSE cache[p][d]]]
    /\ IF calls[t].payload.usable THEN Answered(t) ELSE Failed(t)
    /\ UNCHANGED <<time, outage>>

Proceed(t) ==
    \/ Unsupported(t) \/ AnswerLocally(t) \/ UseCache(t)
    \/ Send(t) \/ TransportFails(t) \/ Deliver(t)
    \/ \E usable \in BOOLEAN : Respond(t, usable)

Tick ==
    /\ time < MaxTime
    /\ time' = time + 1
    /\ UNCHANGED <<cache, calls, outage>>

Next ==
    \/ \E t \in Threads :
          \/ Proceed(t)
          \/ \E c \in Conids : Ask(t, c)
    \/ Tick

Spec == Init /\ [][Next]_vars

-------------------------------------------------------------------------------
(* Properties                                                                *)

Returns(t) == calls[t].step # "idle" /\ calls'[t].step = "idle"

\* What an external provider returns from its cache was true no longer ago than it
\* may be kept, however long the requests were on the way and however the
\* requests of other threads came in between (marketdata.py 212-222, 368-376).
DataIsFresh ==
    [][\A t \in Threads :
          LET p == Provider(t) IN
          Returns(t) /\ calls'[t].answered /\ AskingExternal(t)
          => time - cache[p][calls[t].conid].payload.of <= TTL[p]]_vars

\* "tries Yahoo Finance first, then Stooq, then deterministic synthetic fallback if
\* the network or provider is unavailable" (README.md 32-34), up to what is kept:
\* a provider that could have answered is passed over only if it could not, not
\* longer before the request than it keeps an answer without data.
FallbackOnlyAfterOutage ==
    [][\A t \in Threads :
          Returns(t) /\ calls'[t].answered =>
             \A i \in 1..(calls[t].next - 1) :
                LET p == Chain[i] IN
                p \in External /\ calls[t].conid \in Serves[p]
                => outage[p] >= 0 /\ outage[p] >= calls[t].asked - TTL[p]]_vars

\* The last provider is the safety net: a request for a contract that it has data
\* for never raises (marketdata.py 145-159).
ServedContractsAnswered ==
    [][\A t \in Threads :
          Returns(t) /\ calls[t].conid \in Serves[Chain[Len(Chain)]]
          => calls'[t].answered]_vars

===============================================================================
