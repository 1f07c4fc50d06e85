------------------------------- MODULE Sessions -------------------------------
(***************************************************************************)
(* SessionManager (sessions.py) on a SimClock: the brokerage session that   *)
(* expires unless it is tickled, and the gate in front of every trading     *)
(* request.  A check of the expiry reads the clock and compares, then       *)
(* assigns: the threads of the web server interleave there.                *)
(***************************************************************************)
EXTENDS SimClock

CONSTANTS
    Threads,
    Timeout,        \* five minutes
    MaxNow          \* bound on the simulated time: the clock is not driven beyond it

ASSUME SessionsAssumption == Timeout \in Nat \ {0} /\ MaxNow \in Nat

VARIABLES
    authenticated, connected, brokerage,    \* SessionState
    lastTickleAt, expiresAt,
    loggedOut,      \* history: a logout since the session was last tickled
    calls           \* what each thread is doing

session == <<authenticated, connected, brokerage, lastTickleAt, expiresAt, loggedOut>>
vars == <<clock, session, calls>>

(***************************************************************************)
(* step "write": tickle has read the clock; "check": about to enter        *)
(* _refresh_expiry; "settle": has compared the time at with the expiry.     *)
(***************************************************************************)
Calls ==
    [step : {"idle", "write", "check", "settle"}, kind : {"status", "require", "tickle"},
     at : Nat, expired : BOOLEAN]

Idle == [step |-> "idle", kind |-> "status", at |-> 0, expired |-> FALSE]

\* What require_brokerage asks for.
Usable == connected /\ authenticated /\ brokerage

TypeOK ==
    /\ ClockTypeOK
    /\ authenticated \in BOOLEAN /\ connected \in BOOLEAN /\ brokerage \in BOOLEAN
    /\ loggedOut \in BOOLEAN
    /\ lastTickleAt \in Nat /\ expiresAt \in Nat
    /\ calls \in [Threads -> Calls]

\* _new_session
Init ==
    /\ ClockInit
    /\ authenticated = TRUE /\ connected = TRUE /\ brokerage = TRUE
    /\ lastTickleAt = Now /\ expiresAt = Now + Timeout
    /\ loggedOut = FALSE
    /\ calls = [t \in Threads |-> Idle]

IsIdle(t) == calls[t].step = "idle"
Goto(t, call) == calls' = [calls EXCEPT ![t] = call]

\* Expired in the last moment of the session.
CompareMutant(t, kind) ==
    /\ Goto(t, [step |-> "settle", kind |-> kind, at |-> Now, expired |-> Now >= expiresAt])
    /\ UNCHANGED <<clock, session>>

\* _refresh_expiry: now > expires_at
Compare(t, kind) ==
    /\ Goto(t, [step |-> "settle", kind |-> kind, at |-> Now, expired |-> Now > expiresAt])
    /\ UNCHANGED <<clock, session>>

\* auth_status or require_brokerage is called.
Check(t) ==
    /\ IsIdle(t)
    /\ \E kind \in {"status", "require"} : Compare(t, kind)

\* The flags follow what was compared; the call returns.
Settle(t) ==
    /\ calls[t].step = "settle"
    /\ connected' = ~calls[t].expired
    /\ brokerage' = (brokerage /\ ~calls[t].expired)
    /\ Goto(t, Idle)
    /\ UNCHANGED <<clock, authenticated, lastTickleAt, expiresAt, loggedOut>>

Tickle(t) ==
    /\ IsIdle(t)
    /\ Goto(t, [step |-> "write", kind |-> "tickle", at |-> Now, expired |-> FALSE])
    /\ UNCHANGED <<clock, session>>

\* Extends the expiry instead of restarting it.
NewExpiryMutant(at) == expiresAt + Timeout

NewExpiry(at) == at + Timeout

\* Does not open a new session after a logout.
AuthenticatedByTickleMutant == authenticated

\* An unauthenticated session is replaced by a new one.
AuthenticatedByTickle == TRUE

TickleWrites(t) ==
    /\ calls[t].step = "write"
    /\ authenticated' = AuthenticatedByTickle
    /\ connected' = TRUE
    /\ brokerage' = TRUE
    /\ lastTickleAt' = calls[t].at
    /\ expiresAt' = NewExpiry(calls[t].at)
    /\ loggedOut' = FALSE
    /\ Goto(t, [calls[t] EXCEPT !.step = "check"])
    /\ UNCHANGED clock

\* The tickle answers with auth_status.
TickleChecks(t) ==
    /\ calls[t].step = "check"
    /\ Compare(t, "tickle")

Logout(t) ==
    /\ IsIdle(t)
    /\ connected' = FALSE /\ authenticated' = FALSE /\ brokerage' = FALSE
    /\ loggedOut' = TRUE
    /\ UNCHANGED <<clock, lastTickleAt, expiresAt, calls>>

\* A thread of the program drives the clock.
SetClock(t) ==
    /\ IsIdle(t) /\ Now <= MaxNow
    /\ ClockCall
    /\ UNCHANGED <<session, calls>>

Next ==
    \/ \E t \in Threads :
          Check(t) \/ Settle(t) \/ Tickle(t) \/ TickleWrites(t) \/ TickleChecks(t)
            \/ Logout(t) \/ SetClock(t)
    \/ TimePasses /\ UNCHANGED <<session, calls>>

Spec == Init /\ [][Next]_vars

-------------------------------------------------------------------------------
(* Properties                                                                *)

\* Going into paused or compressed mode, from any mode and with any speed, never
\* moves the time, and only a return to wall time turns it back (clock.py 28-56).
TimeIsContinuous ==
    [][/\ Pause \/ (\E s \in Speeds : ResumeCompressed(s)) => Now' = Now
       /\ Now' >= Now \/ ResumeWall]_vars

Granted(t) ==
    /\ calls[t].step = "settle" /\ calls[t].kind = "require"
    /\ calls'[t].step = "idle" /\ Usable'

\* A request passes the gate only on a session that has been tickled since its
\* last logout and no longer than the timeout ago, also when the clock was
\* paused, stepped, compressed or set back (sessions.py 30-36, 51-58, 76-79).
GrantedOnlyWhileAlive ==
    [][\A t \in Threads :
          Granted(t) => ~loggedOut /\ calls[t].at <= lastTickleAt + Timeout]_vars

\* "Brokerage session timed out; call /tickle to re-establish it." (sessions.py
\* 44): the session is lost by a logout or by a check that found it past the
\* expiry it still has, never because of the expiry it had before a tickle.
LostOnlyByExpiryOrLogout ==
    [][brokerage /\ ~brokerage' =>
          loggedOut' \/ \E t \in Threads : calls[t].expired /\ calls[t].at > expiresAt]_vars

\* The same message from the other side: when a tickle returns the session can be
\* used again, after an expiry as after a logout, unless it has run out again.
TickleReestablishes ==
    [][\A t \in Threads :
          /\ calls[t].step = "settle" /\ calls[t].kind = "tickle"
          /\ calls'[t].step = "idle"
          => Usable' \/ Now > expiresAt]_vars

===============================================================================
