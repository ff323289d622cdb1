------------------------------- MODULE Engine -------------------------------
(***************************************************************************)
(* What the supervisor promises the rest of the program about the proxy    *)
(* engine: instances are started one after the other, never two at a time, *)
(* and an instance that is gone does not come back.                        *)
(***************************************************************************)
EXTENDS Integers

VARIABLES
  started, \* instances started so far
  alive    \* the instances whose process exists

Init == started = 0 /\ alive = {}

Launch ==
  /\ alive = {}
  /\ started' = started + 1
  /\ alive' = {started + 1}

Die ==
  /\ alive # {}
  /\ alive' = {}
  /\ UNCHANGED started

Next == Launch \/ Die

Spec == Init /\ [][Next]_<<started, alive>>
=============================================================================
