----------------------------- MODULE MCTraffic -----------------------------
(***************************************************************************)
(* Small instances of two parts that keep their state to themselves and    *)
(* must go on: the traffic's accounting, and the sessions.  One of them    *)
(* moves while the other rests: the sessions where they begin, the         *)
(* accounting after a Stop.  Nothing fair is enabled in either place, so   *)
(* that the fairness of both asks of each what it asks of it alone.        *)
(***************************************************************************)
EXTENDS Traffic

CONSTANTS Tokens, Requests, Ttl, SweepEvery, MaxClock, MaxBoots \* Sessions

VARIABLES
  part,
  clock, boots, configured, redis, mem, gets, req, born, ours, leaving, ended \* Sessions

A == INSTANCE Sessions

adminVars == <<clock, boots, configured, redis, mem, gets, req, born, ours, leaving, ended>>
allVars == <<part, vars, adminVars>>

\* The accounting when nothing was counted and the child was stopped: its ticker no
\* longer ticks and its watchdog sees to nothing.
Over ==
  /\ gen = Zero /\ counter = Zero /\ usage = Zero /\ lost = Zero /\ live = Zero
  /\ held = [c \in Collectors |-> Zero] /\ seen = [c \in Collectors |-> Zero]
  /\ present = Users /\ active = Users /\ built = {}
  /\ pc = [c \in Collectors |-> "idle"]
  /\ phase = "free" /\ caller = "nobody"
  /\ up = FALSE /\ running = FALSE /\ stopped = TRUE
  /\ faults = 0 /\ crashes = 0 /\ restarts = 0 /\ deletes = 0

\* The sessions are looked at with and without Redis, the traffic once.
AllInit ==
  /\ A!Init
  /\ \/ part = "usage" /\ Init /\ configured
     \/ part = "admins" /\ Over

Usage == part = "usage" /\ Next /\ UNCHANGED <<part, adminVars>>
Admins == part = "admins" /\ A!Next /\ UNCHANGED <<part, vars>>

AllSpec == AllInit /\ [][Usage \/ Admins]_allVars /\ Fairness /\ A!Fairness

-----------------------------------------------------------------------------

\* See Sessions: sessions that are over leave the memory.
ExpiredLeave == A!ExpiredLeave
=============================================================================
