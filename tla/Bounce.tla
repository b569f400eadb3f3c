------------------------------- MODULE Bounce -------------------------------
(***************************************************************************)
(* What a core-to-core latency measurement promises: the tests of a sweep  *)
(* run one after another, and within one test a counter that starts at     *)
(* zero is handed back and forth 2 * Iter times, one increment at a time,  *)
(* before the test may finish.  Nothing else ever touches the counter.     *)
(* CoherencyLatency implements this specification (its Implements          *)
(* property) as long as every pthread_create succeeds.                     *)
(***************************************************************************)
EXTENDS Integers

CONSTANT Iter       \* handoffs each of the two CPUs performs in one test

VARIABLES phase,    \* "idle" between two tests, "bouncing" during one
          val       \* the shared counter, as the running test sees it

vars == <<phase, val>>

Init == phase = "idle" /\ val = 0

\* A test begins with a fresh counter.
Start == /\ phase = "idle"
         /\ phase' = "bouncing"
         /\ UNCHANGED val

\* One of the two CPUs hands the line to the other.
Handoff == /\ phase = "bouncing"
           /\ val < 2 * Iter
           /\ val' = val + 1
           /\ UNCHANGED phase

\* A test ends only when every handoff has happened.
Finish == /\ phase = "bouncing"
          /\ val = 2 * Iter
          /\ phase' = "idle"
          /\ val' = 0

Next == Start \/ Handoff \/ Finish

Spec == Init /\ [][Next]_vars
=============================================================================
