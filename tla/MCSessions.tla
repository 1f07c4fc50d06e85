------------------------------ MODULE MCSessions ------------------------------
(***************************************************************************)
(* The instances of Sessions that TLC checks: one thread, then two, a       *)
(* session of two units, clocks that are stopped, real-time and compressed. *)
(***************************************************************************)
EXTENDS Sessions

CONSTANTS t1, t2

\* A negative speed stops the clock.
MCSpeeds == {-1, 2}

===============================================================================
