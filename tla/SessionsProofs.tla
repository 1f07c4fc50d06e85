---------------------------- MODULE SessionsProofs ----------------------------
(***************************************************************************)
(* The simulated clock is continuous, and the gate in front of the trading  *)
(* requests opens only on a live session.  What is said of the clock and of  *)
(* a logout holds for any number of threads; that the expiry is right needs  *)
(* that no second thread comes between comparing and assigning.             *)
(***************************************************************************)
EXTENDS Sessions, TLAPS

-------------------------------------------------------------------------------
(* The clock                                                                 *)

\* The anchor of the compressed time lies in the past.
ClockInv == ClockTypeOK /\ realAnchor <= real

LEMMA ProductType ==
    ASSUME NEW a \in Nat, NEW b \in Nat
    PROVE  a * b \in Nat
OBVIOUS

LEMMA ClampedType ==
    ASSUME NEW s \in Speeds
    PROVE  Clamped(s) \in Nat
BY SimClockAssumption DEF Clamped

\* Simulated time does not go below zero.
LEMMA NowType ==
    ASSUME ClockInv
    PROVE  Now \in Nat
<1>1. real \in Nat /\ realAnchor \in Nat /\ realAnchor <= real
      BY SimClockAssumption DEF ClockInv, ClockTypeOK
<1>2. real - realAnchor \in Nat
      BY <1>1
<1>3. speed \in Nat /\ simAnchor \in Nat /\ pausedAt \in Nat /\ mode \in Modes
      BY DEF ClockInv, ClockTypeOK
<1>4. (real - realAnchor) * speed \in Nat
      BY <1>2, <1>3, ProductType
<1>5. simAnchor + (real - realAnchor) * speed \in Nat
      BY <1>3, <1>4
<1> QED BY <1>1, <1>3, <1>5 DEF Now, Modes

LEMMA InitClock == ClockInit => ClockInv
<1> SUFFICES ASSUME ClockInit PROVE ClockInv
    OBVIOUS
<1>1. real = 0 /\ real \in 0..MaxReal /\ realAnchor = 0
      BY SimClockAssumption DEF ClockInit
<1>2. speed \in Nat
      BY ClampedType DEF ClockInit
<1>3. simAnchor \in Nat /\ pausedAt \in Nat /\ mode \in Modes
      BY <1>1, SimClockAssumption DEF ClockInit
<1> QED BY <1>1, <1>2, <1>3 DEF ClockInv, ClockTypeOK

\* Pausing and compressing keep the time, stepping does not turn it back.
LEMMA ClockCallKeeps ==
    ASSUME ClockInv, ClockCall
    PROVE  /\ ClockInv'
           /\ Pause \/ (\E s \in Speeds : ResumeCompressed(s)) => Now' = Now
           /\ Now' >= Now \/ ResumeWall
<1>1. Now \in Nat
      BY NowType
<1>2. real \in 0..MaxReal /\ real \in Nat /\ realAnchor \in Nat /\ realAnchor <= real
      BY SimClockAssumption DEF ClockInv, ClockTypeOK
<1>3. ASSUME Pause PROVE ClockInv' /\ Now' = Now
  <2>1. ClockInv'
        BY <1>1, <1>3 DEF Pause, ClockInv, ClockTypeOK, Modes
  <2>2. mode' = "paused" /\ pausedAt' = Now
        BY <1>3 DEF Pause
  <2>3. Now' = pausedAt'
        BY <2>2 DEF Now
  <2> QED BY <2>1, <2>2, <2>3
<1>4. ASSUME ResumeWall PROVE ClockInv'
      BY <1>2, <1>4 DEF ResumeWall, ClockInv, ClockTypeOK, Modes
<1>5. ASSUME NEW s \in Speeds, ResumeCompressed(s) PROVE ClockInv' /\ Now' = Now
  <2>1. speed' \in Nat
        BY <1>5, ClampedType DEF ResumeCompressed
  <2>2. ClockInv'
        BY <1>1, <1>2, <1>5, <2>1 DEF ResumeCompressed, ClockInv, ClockTypeOK, Modes
  <2>3. mode' = "compressed" /\ simAnchor' = Now /\ real' - realAnchor' = 0
        BY <1>2, <1>5 DEF ResumeCompressed
  <2>4. Now' = simAnchor' + (real' - realAnchor') * speed'
        BY <2>3 DEF Now
  <2>5. (real' - realAnchor') * speed' = 0
        BY <2>1, <2>3
  <2> QED BY <1>1, <2>2, <2>3, <2>4, <2>5
<1>6. ASSUME NEW delta \in Deltas, Step(delta) PROVE ClockInv' /\ Now' >= Now
  <2>1. delta \in Nat
        BY SimClockAssumption
  <2>2. ClockInv'
        BY <1>1, <1>2, <1>6, <2>1 DEF Step, ClockInv, ClockTypeOK, Modes
  <2>3. Now' = Now + delta
        BY <1>6 DEF Step, Now
  <2> QED BY <1>1, <2>1, <2>2, <2>3
<1>7. Now' >= Now \/ ResumeWall
      BY <1>1, <1>3, <1>5, <1>6 DEF ClockCall
<1> QED BY <1>3, <1>4, <1>5, <1>6, <1>7 DEF ClockCall

LEMMA TimePassesKeeps ==
    ASSUME ClockInv, TimePasses
    PROVE  ClockInv' /\ Now' >= Now /\ Now' \in Nat
<1>1. /\ real \in 0..MaxReal /\ MaxReal \in Nat /\ real < MaxReal /\ real' = real + 1
      /\ realAnchor \in Nat /\ realAnchor <= real
      /\ speed \in Nat /\ simAnchor \in Nat /\ pausedAt \in Nat /\ mode \in Modes
      /\ UNCHANGED <<mode, speed, realAnchor, simAnchor, pausedAt>>
      BY SimClockAssumption DEF TimePasses, ClockInv, ClockTypeOK
<1>2. ClockInv'
      BY <1>1 DEF ClockInv, ClockTypeOK
<1>3. CASE mode = "compressed"
  <2> DEFINE gone == real - realAnchor
  <2>1. gone \in Nat /\ real' - realAnchor' = gone + 1
        BY <1>1
  <2> HIDE DEF gone
  <2>2. (gone + 1) * speed = gone * speed + speed /\ gone * speed \in Nat
        BY <1>1, <2>1, ProductType
  <2>3. Now' = simAnchor + (gone + 1) * speed
        BY <1>1, <1>3, <2>1 DEF Now
  <2>4. Now = simAnchor + gone * speed
        BY <1>3 DEF Now, gone
  <2>5. simAnchor + gone * speed \in Nat /\ Now' = (simAnchor + gone * speed) + speed
        BY <1>1, <2>2, <2>3
  <2> QED BY <1>1, <1>2, <2>4, <2>5
<1>4. CASE mode # "compressed"
      BY <1>1, <1>2, <1>4 DEF Now, Modes
<1> QED BY <1>3, <1>4

\* The clock under every step of the system.
LEMMA ClockSteps ==
    ASSUME ClockInv, [Next]_vars
    PROVE  \/ UNCHANGED clock
           \/ \E t \in Threads : SetClock(t)
           \/ TimePasses /\ UNCHANGED <<session, calls>>
BY DEF Next, vars, Check, Settle, Tickle, TickleWrites, TickleChecks, Logout, Compare

LEMMA ClockNext ==
    ASSUME ClockInv, [Next]_vars
    PROVE  ClockInv'
<1>1. CASE UNCHANGED clock
      BY <1>1 DEF clock, ClockInv, ClockTypeOK
<1>2. CASE \E t \in Threads : SetClock(t)
      BY <1>2, ClockCallKeeps DEF SetClock
<1>3. CASE TimePasses
      BY <1>3, TimePassesKeeps
<1> QED BY <1>1, <1>2, <1>3, ClockSteps

\* A step that does not touch the clock keeps the time, whatever it is called.
LEMMA NowUnchanged ==
    ASSUME UNCHANGED clock
    PROVE  Now' = Now
BY DEF clock, Now

LEMMA ContinuousNext ==
    ASSUME ClockInv, [Next]_vars
    PROVE  /\ Pause \/ (\E s \in Speeds : ResumeCompressed(s)) => Now' = Now
           /\ Now' >= Now \/ ResumeWall
<1>1. Now \in Nat
      BY NowType
<1>2. CASE UNCHANGED clock
      BY <1>1, <1>2, NowUnchanged
<1>3. CASE \E t \in Threads : SetClock(t)
      BY <1>3, ClockCallKeeps DEF SetClock
<1>4. CASE TimePasses
  <2>1. real' # real
        BY <1>4, SimClockAssumption DEF TimePasses, ClockInv, ClockTypeOK
  <2>2. ~Pause /\ ~(\E s \in Speeds : ResumeCompressed(s))
        BY <2>1 DEF Pause, ResumeCompressed
  <2> QED BY <1>4, <2>2, TimePassesKeeps
<1> QED BY <1>2, <1>3, <1>4, ClockSteps

-------------------------------------------------------------------------------
(* The session                                                               *)

\* The expiry counts from the last tickle; a logout takes the authentication.
SessionInv ==
    /\ TypeOK /\ ClockInv
    /\ expiresAt = lastTickleAt + Timeout
    /\ loggedOut => ~authenticated

LEMMA CallFields ==
    ASSUME TypeOK, NEW t \in Threads
    PROVE  /\ calls[t] \in Calls /\ calls[t].at \in Nat /\ calls[t].expired \in BOOLEAN
           /\ calls[t].kind \in {"status", "require", "tickle"}
BY DEF TypeOK, Calls

LEMMA SessionInit == Init => SessionInv
<1> SUFFICES ASSUME Init PROVE SessionInv
    OBVIOUS
<1>1. ClockInv
      BY InitClock DEF Init
<1>2. Now \in Nat /\ Timeout \in Nat
      BY <1>1, NowType, SessionsAssumption
<1>3. lastTickleAt \in Nat /\ expiresAt \in Nat /\ expiresAt = lastTickleAt + Timeout
      BY <1>2 DEF Init
<1>4. Idle \in Calls
      BY DEF Idle, Calls
<1>5. calls \in [Threads -> Calls]
      BY <1>4 DEF Init
<1>6. /\ authenticated \in BOOLEAN /\ connected \in BOOLEAN /\ brokerage \in BOOLEAN
      /\ loggedOut \in BOOLEAN /\ ~loggedOut
      BY DEF Init
<1> QED BY <1>1, <1>3, <1>5, <1>6 DEF SessionInv, TypeOK, ClockInv

LEMMA CompareKeeps ==
    ASSUME SessionInv, NEW t \in Threads, NEW kind \in {"status", "require", "tickle"},
           Compare(t, kind)
    PROVE  TypeOK' /\ UNCHANGED session
<1>1. Now \in Nat
      BY NowType DEF SessionInv
<1> DEFINE call == [step |-> "settle", kind |-> kind, at |-> Now,
                    expired |-> Now > expiresAt]
<1>2. call \in Calls
      BY <1>1 DEF Calls
<1>3. calls' = [calls EXCEPT ![t] = call]
      BY DEF Compare, Goto
<1>4. calls' \in [Threads -> Calls]
      BY <1>2, <1>3 DEF SessionInv, TypeOK
<1>5. UNCHANGED clock /\ UNCHANGED session
      BY DEF Compare
<1> QED BY <1>4, <1>5 DEF SessionInv, TypeOK, ClockTypeOK, clock, session

LEMMA SessionNext ==
    ASSUME SessionInv, [Next]_vars
    PROVE  SessionInv'
<1> USE DEF SessionInv
<1>1. ClockInv'
      BY ClockNext
<1>2. ClockTypeOK'
      BY <1>1 DEF ClockInv
<1>3. Now \in Nat /\ Timeout \in Nat
      BY NowType, SessionsAssumption
<1>4. ASSUME NEW t \in Threads, Check(t) \/ TickleChecks(t) PROVE SessionInv'
  <2>1. PICK kind \in {"status", "require", "tickle"} : Compare(t, kind)
        BY <1>4 DEF Check, TickleChecks
  <2>2. TypeOK' /\ UNCHANGED session
        BY <2>1, CompareKeeps
  <2> QED BY <1>1, <2>2 DEF session
<1>5. ASSUME NEW t \in Threads, Settle(t) PROVE SessionInv'
  <2>1. Idle \in Calls
        BY DEF Idle, Calls
  <2>2. calls' \in [Threads -> Calls]
        BY <1>5, <2>1 DEF Settle, Goto, TypeOK
  <2>3. connected' \in BOOLEAN /\ brokerage' \in BOOLEAN
        BY <1>5 DEF Settle
  <2> QED BY <1>1, <1>2, <1>5, <2>2, <2>3 DEF Settle, TypeOK
<1>6. ASSUME NEW t \in Threads, Tickle(t) PROVE SessionInv'
  <2> DEFINE call == [step |-> "write", kind |-> "tickle", at |-> Now, expired |-> FALSE]
  <2>1. call \in Calls
        BY <1>3 DEF Calls
  <2>2. calls' \in [Threads -> Calls]
        BY <1>6, <2>1 DEF Tickle, Goto, TypeOK
  <2>3. UNCHANGED session
        BY <1>6 DEF Tickle
  <2> QED BY <1>1, <1>2, <2>2, <2>3 DEF TypeOK, session
<1>7. ASSUME NEW t \in Threads, TickleWrites(t) PROVE SessionInv'
  <2>1. calls[t] \in Calls /\ calls[t].at \in Nat
        BY CallFields
  <2>2. [calls[t] EXCEPT !.step = "check"] \in Calls
        BY <2>1 DEF Calls
  <2>3. calls' \in [Threads -> Calls]
        BY <1>7, <2>2 DEF TickleWrites, Goto, TypeOK
  <2>4. /\ lastTickleAt' = calls[t].at /\ expiresAt' = calls[t].at + Timeout
        /\ authenticated' = TRUE /\ connected' = TRUE /\ brokerage' = TRUE
        /\ loggedOut' = FALSE
        BY <1>7 DEF TickleWrites, NewExpiry, AuthenticatedByTickle
  <2>5. lastTickleAt' \in Nat /\ expiresAt' \in Nat
        BY <1>3, <2>1, <2>4
  <2> QED BY <1>1, <1>2, <2>3, <2>4, <2>5 DEF TypeOK
<1>8. ASSUME NEW t \in Threads, Logout(t) PROVE SessionInv'
      BY <1>1, <1>2, <1>8 DEF Logout, TypeOK
<1>9. ASSUME NEW t \in Threads, SetClock(t) PROVE SessionInv'
      BY <1>1, <1>2, <1>9 DEF SetClock, TypeOK, session
<1>10. CASE TimePasses /\ UNCHANGED <<session, calls>>
      BY <1>1, <1>2, <1>10 DEF TypeOK, session
<1>11. CASE UNCHANGED vars
      BY <1>1, <1>2, <1>11 DEF TypeOK, session, vars
<1> QED BY <1>4, <1>5, <1>6, <1>7, <1>8, <1>9, <1>10, <1>11 DEF Next

LEMMA SessionInvariant == Spec => []SessionInv
<1>1. SessionInv /\ [Next]_vars => SessionInv'
      BY SessionNext
<1> QED BY SessionInit, <1>1, PTL DEF Spec

-------------------------------------------------------------------------------
(* Any number of threads                                                     *)

\* The state of clock and session is well typed; in particular no sequence of
\* pauses, steps, speeds and returns to wall time makes the simulated time
\* negative (clock.py, sessions.py).
THEOREM SessionTypeCorrect == Spec => []TypeOK
<1>1. SessionInv => TypeOK
      BY DEF SessionInv
<1> QED BY <1>1, SessionInvariant, PTL

\* Simulated time moves only with real time, by a step, or back to wall time
\* (clock.py 28-56).
THEOREM TimeIsAlwaysContinuous == Spec => TimeIsContinuous
<1> DEFINE A == /\ Pause \/ (\E s \in Speeds : ResumeCompressed(s)) => Now' = Now
                /\ Now' >= Now \/ ResumeWall
<1>1. SessionInv /\ [Next]_vars => [A]_vars
      BY ContinuousNext DEF SessionInv
<1> QED BY <1>1, SessionInvariant, PTL DEF Spec, TimeIsContinuous

\* Only the end of a check lets a request through.
LEMMA GrantSettles ==
    ASSUME SessionInv, [Next]_vars, NEW t \in Threads,
           calls[t].step = "settle", calls'[t].step = "idle"
    PROVE  Settle(t)
<1>1. calls \in [Threads -> Calls]
      BY DEF SessionInv, TypeOK
<1>2. calls' # calls
      OBVIOUS
<1>3. ASSUME NEW u \in Threads, NEW call, Goto(u, call) PROVE u = t
      BY <1>1, <1>3 DEF Goto
<1>4. ASSUME NEW u \in Threads, Check(u) \/ Tickle(u) \/ TickleWrites(u) \/ TickleChecks(u)
      PROVE  FALSE
  <2>1. PICK call : Goto(u, call)
        BY <1>4 DEF Check, Tickle, TickleWrites, TickleChecks, Compare
  <2>2. u = t
        BY <1>3, <2>1
  <2> QED BY <1>4, <2>2 DEF Check, Tickle, TickleWrites, TickleChecks, IsIdle
<1>5. ASSUME NEW u \in Threads, Settle(u) PROVE u = t
      BY <1>3, <1>5 DEF Settle
<1> QED BY <1>2, <1>4, <1>5 DEF Next, vars, Logout, SetClock

\* After a logout nobody passes the gate before a tickle, whatever the other
\* threads have compared and not yet assigned (sessions.py 41-46, 51-58).
THEOREM NothingGrantedAfterLogout ==
    Spec => [][\A t \in Threads : Granted(t) => ~loggedOut]_vars
<1> DEFINE A == \A t \in Threads : Granted(t) => ~loggedOut
<1>1. SessionInv /\ [Next]_vars => A
  <2> SUFFICES ASSUME SessionInv, [Next]_vars, NEW t \in Threads, Granted(t), loggedOut
               PROVE  FALSE
      OBVIOUS
  <2>1. Settle(t)
        BY GrantSettles DEF Granted
  <2>2. authenticated' /\ authenticated' = authenticated
        BY <2>1 DEF Granted, Usable, Settle
  <2> QED BY <2>2 DEF SessionInv
<1> QED BY <1>1, SessionInvariant, PTL DEF Spec

-------------------------------------------------------------------------------
(* One thread                                                                *)

\* What a thread has compared still holds when nobody else moves the expiry.
Undisturbed(call) ==
    /\ call.step # "idle" => call.at <= Now
    /\ call.step = "settle" => (call.expired <=> call.at > expiresAt)
    /\ call.step \in {"write", "check"} => call.kind = "tickle"
    /\ call.step \in {"check", "settle"} /\ call.kind = "tickle" => authenticated /\ brokerage

SoloInv == SessionInv /\ \A t \in Threads : Undisturbed(calls[t])

LEMMA SoloInit == Init => SoloInv
<1> SUFFICES ASSUME Init PROVE SoloInv
    OBVIOUS
<1>1. SessionInv
      BY SessionInit
<1>2. ASSUME NEW t \in Threads PROVE Undisturbed(calls[t])
      BY DEF Init, Idle, Undisturbed
<1> QED BY <1>1, <1>2 DEF SoloInv

LEMMA SoloCompare ==
    ASSUME SoloInv, NEW t \in Threads, NEW kind \in {"status", "require", "tickle"},
           Compare(t, kind), kind = "tickle" => authenticated /\ brokerage
    PROVE  Undisturbed(calls[t])'
<1>1. calls \in [Threads -> Calls] /\ Now \in Nat
      BY NowType DEF SoloInv, SessionInv, TypeOK
<1>2. calls'[t] = [step |-> "settle", kind |-> kind, at |-> Now, expired |-> Now > expiresAt]
      BY <1>1 DEF Compare, Goto
<1>3. Now' = Now /\ expiresAt' = expiresAt
      /\ authenticated' = authenticated /\ brokerage' = brokerage
      BY NowUnchanged DEF Compare, session
<1>4. /\ calls'[t].step = "settle" /\ calls'[t].kind = kind /\ calls'[t].at = Now
      /\ calls'[t].expired = (Now > expiresAt)
      BY <1>2
<1>5. calls'[t].expired <=> calls'[t].at > expiresAt'
      BY <1>3, <1>4, Zenon
<1>6. calls'[t].at <= Now'
      BY <1>1, <1>3, <1>4
<1> QED BY <1>3, <1>4, <1>5, <1>6 DEF Undisturbed

LEMMA SoloNext ==
    ASSUME \A s, t \in Threads : s = t, SoloInv, [Next]_vars
    PROVE  SoloInv'
<1>1. SessionInv'
      BY SessionNext DEF SoloInv
<1> SUFFICES ASSUME NEW t \in Threads PROVE Undisturbed(calls[t])'
    BY <1>1 DEF SoloInv, Undisturbed, Now
<1>2. calls \in [Threads -> Calls] /\ Undisturbed(calls[t])
      BY DEF SoloInv, SessionInv, TypeOK
<1>3. Now \in Nat
      BY NowType DEF SoloInv, SessionInv
<1>4. CASE Check(t)
      BY <1>4, SoloCompare DEF Check
<1>5. CASE Settle(t)
      BY <1>2, <1>5 DEF Settle, Goto, Idle, Undisturbed
<1>6. CASE Tickle(t)
  <2>1. calls'[t] = [step |-> "write", kind |-> "tickle", at |-> Now, expired |-> FALSE]
        BY <1>2, <1>6 DEF Tickle, Goto
  <2>2. Now' = Now
        BY <1>6, NowUnchanged DEF Tickle
  <2> QED BY <1>3, <2>1, <2>2 DEF Undisturbed
<1>7. CASE TickleWrites(t)
  <2>1. calls'[t] = [calls[t] EXCEPT !.step = "check"] /\ calls[t].step = "write"
        BY <1>2, <1>7 DEF TickleWrites, Goto
  <2>2. calls[t] \in Calls
        BY <1>2
  <2>3. calls'[t].step = "check" /\ calls'[t].at = calls[t].at
        BY <2>1, <2>2 DEF Calls
  <2>4. Now' = Now /\ authenticated' /\ brokerage'
        BY <1>7, NowUnchanged DEF TickleWrites, AuthenticatedByTickle
  <2> QED BY <1>2, <1>3, <2>1, <2>3, <2>4 DEF Undisturbed
<1>8. CASE TickleChecks(t)
      BY <1>2, <1>8, SoloCompare DEF TickleChecks, Undisturbed
<1>9. CASE Logout(t) \/ SetClock(t)
  <2>1. IsIdle(t) /\ calls'[t] = calls[t]
        BY <1>9 DEF Logout, SetClock
  <2> QED BY <2>1 DEF IsIdle, Undisturbed
<1>10. CASE TimePasses /\ UNCHANGED <<session, calls>>
  <2>1. Now' >= Now /\ Now' \in Nat
        BY <1>10, TimePassesKeeps DEF SoloInv, SessionInv
  <2>2. calls[t].at \in Nat
        BY CallFields DEF SoloInv, SessionInv
  <2> QED BY <1>2, <1>3, <1>10, <2>1, <2>2 DEF Undisturbed, session
<1>11. CASE UNCHANGED vars
  <2>1. Now' = Now
        BY <1>11, NowUnchanged DEF vars
  <2> QED BY <1>2, <1>11, <2>1 DEF Undisturbed, session, vars
<1> QED BY <1>4, <1>5, <1>6, <1>7, <1>8, <1>9, <1>10, <1>11 DEF Next

LEMMA SoloInvariant ==
    ASSUME \A s, t \in Threads : s = t
    PROVE  Spec => []SoloInv
<1>1. SoloInv /\ [Next]_vars => SoloInv'
      BY SoloNext
<1> QED BY SoloInit, <1>1, PTL DEF Spec

\* With one thread a request passes the gate only on a session that was tickled
\* since the last logout and no longer than the timeout before (sessions.py 30-58).
THEOREM OnlyLiveSessionsGranted ==
    ASSUME \A s, t \in Threads : s = t
    PROVE  Spec => GrantedOnlyWhileAlive
<1> DEFINE A == \A t \in Threads :
                   Granted(t) => ~loggedOut /\ calls[t].at <= lastTickleAt + Timeout
<1>1. SoloInv /\ [Next]_vars => A
  <2> SUFFICES ASSUME SoloInv, [Next]_vars, NEW t \in Threads, Granted(t)
               PROVE  ~loggedOut /\ calls[t].at <= lastTickleAt + Timeout
      OBVIOUS
  <2>1. Settle(t) /\ Undisturbed(calls[t]) /\ calls[t].at \in Nat /\ expiresAt \in Nat
        BY GrantSettles, CallFields DEF Granted, SoloInv, SessionInv, TypeOK
  <2>2. authenticated /\ ~calls[t].expired
        BY <2>1 DEF Granted, Usable, Settle
  <2>3. calls[t].at <= expiresAt
        BY <2>1, <2>2 DEF Undisturbed, Granted
  <2> QED BY <2>2, <2>3 DEF SoloInv, SessionInv
<1>2. SoloInv /\ [Next]_vars => [A]_vars
      BY <1>1
<1> QED BY <1>2, SoloInvariant, PTL DEF Spec, GrantedOnlyWhileAlive

\* With one thread the session is lost by a logout or by a check that found it
\* past the expiry it still has (sessions.py 30-36, 41-46).
THEOREM SessionLostForAReason ==
    ASSUME \A s, t \in Threads : s = t
    PROVE  Spec => LostOnlyByExpiryOrLogout
<1> DEFINE A == brokerage /\ ~brokerage' =>
                   loggedOut' \/ \E t \in Threads : calls[t].expired /\ calls[t].at > expiresAt
<1>1. SoloInv /\ [Next]_vars => A
  <2> SUFFICES ASSUME SoloInv, [Next]_vars, brokerage, ~brokerage', ~loggedOut'
               PROVE  \E t \in Threads : calls[t].expired /\ calls[t].at > expiresAt
      OBVIOUS
  <2>1. PICK t \in Threads : Settle(t)
        BY DEF Next, vars, session, Check, Compare, Tickle, TickleWrites, TickleChecks,
               Logout, SetClock
  <2>2. calls[t].expired
        BY <2>1 DEF Settle
  <2>3. calls[t].at > expiresAt
        BY <2>1, <2>2 DEF SoloInv, Undisturbed, Settle
  <2> QED BY <2>2, <2>3
<1>2. SoloInv /\ [Next]_vars => [A]_vars
      BY <1>1
<1> QED BY <1>2, SoloInvariant, PTL DEF Spec, LostOnlyByExpiryOrLogout

\* With one thread the session can be used when a tickle returns, or has run out
\* again (sessions.py 60-70).
THEOREM TickleAlwaysReestablishes ==
    ASSUME \A s, t \in Threads : s = t
    PROVE  Spec => TickleReestablishes
<1> DEFINE A == \A t \in Threads :
                   /\ calls[t].step = "settle" /\ calls[t].kind = "tickle"
                   /\ calls'[t].step = "idle"
                   => Usable' \/ Now > expiresAt
<1>1. SoloInv /\ [Next]_vars => A
  <2> SUFFICES ASSUME SoloInv, [Next]_vars, NEW t \in Threads,
                      calls[t].step = "settle", calls[t].kind = "tickle",
                      calls'[t].step = "idle", ~(Now > expiresAt)
               PROVE  Usable'
      OBVIOUS
  <2>1. Settle(t) /\ Undisturbed(calls[t]) /\ calls[t].at \in Nat /\ expiresAt \in Nat
        /\ Now \in Nat
        BY GrantSettles, CallFields, NowType DEF SoloInv, SessionInv, TypeOK
  <2>2. ~calls[t].expired /\ authenticated /\ brokerage
        BY <2>1 DEF Undisturbed
  <2> QED BY <2>1, <2>2 DEF Settle, Usable
<1>2. SoloInv /\ [Next]_vars => [A]_vars
      BY <1>1
<1> QED BY <1>2, SoloInvariant, PTL DEF Spec, TickleReestablishes

===============================================================================
