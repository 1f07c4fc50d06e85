------------------------------- MODULE SimClock -------------------------------
(***************************************************************************)
(* SimClock (clock.py): wall, paused and compressed time.                  *)
(***************************************************************************)
EXTENDS Integers

CONSTANTS
    Speeds,         \* the speeds a caller passes; one below zero counts as zero
    Deltas,         \* the amounts a paused clock is stepped by
    Starts,         \* the start times a clock is created with
    MaxReal         \* bound on the real time

ASSUME SimClockAssumption ==
    /\ Speeds \subseteq Int /\ Deltas \subseteq Nat /\ Starts \subseteq Nat /\ Starts # {}
    /\ MaxReal \in Nat

VARIABLES
    real,           \* datetime.now(): the time of the machine
    mode, speed, realAnchor, simAnchor, pausedAt

clock == <<real, mode, speed, realAnchor, simAnchor, pausedAt>>

Modes == {"wall", "paused", "compressed"}

\* Runs backwards when told to.
ClampedMutant(s) == s

Clamped(s) == IF s > 0 THEN s ELSE 0

Now ==
    CASE mode = "paused"     -> pausedAt
      [] mode = "compressed" -> simAnchor + (real - realAnchor) * speed
      [] mode = "wall"       -> real

ClockTypeOK ==
    /\ real \in 0..MaxReal
    /\ mode \in Modes
    /\ speed \in Nat /\ realAnchor \in Nat /\ simAnchor \in Nat /\ pausedAt \in Nat

\* A clock is created now or with a start time, which wall time ignores.
ClockInit ==
    /\ real = 0
    /\ mode \in Modes
    /\ \E s \in Speeds : speed = Clamped(s)
    /\ realAnchor = real
    /\ simAnchor \in Starts \cup {real}
    /\ pausedAt = simAnchor

Pause ==
    /\ pausedAt' = Now
    /\ mode' = "paused"
    /\ UNCHANGED <<real, speed, realAnchor, simAnchor>>

ResumeWall ==
    /\ mode' = "wall"
    /\ realAnchor' = real
    /\ simAnchor' = real
    /\ UNCHANGED <<real, speed, pausedAt>>

\* Reads the time after the anchor has moved.
ResumeCompressedMutant(s) ==
    /\ realAnchor' = real
    /\ simAnchor' = CASE mode = "paused"     -> pausedAt
                      [] mode = "compressed" -> simAnchor
                      [] mode = "wall"       -> real
    /\ speed' = Clamped(s)
    /\ mode' = "compressed"
    /\ UNCHANGED <<real, pausedAt>>

ResumeCompressed(s) ==
    /\ simAnchor' = Now
    /\ realAnchor' = real
    /\ speed' = Clamped(s)
    /\ mode' = "compressed"
    /\ UNCHANGED <<real, pausedAt>>

\* Pauses first if the clock is running.
Step(delta) ==
    /\ mode' = "paused"
    /\ pausedAt' = Now + delta
    /\ UNCHANGED <<real, speed, realAnchor, simAnchor>>

ClockCall ==
    \/ Pause
    \/ ResumeWall
    \/ \E s \in Speeds : ResumeCompressed(s)
    \/ \E delta \in Deltas : Step(delta)

TimePasses ==
    /\ real < MaxReal
    /\ real' = real + 1
    /\ UNCHANGED <<mode, speed, realAnchor, simAnchor, pausedAt>>

===============================================================================
