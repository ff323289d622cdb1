----------------------------- MODULE LoginWindow -----------------------------
(***************************************************************************)
(* What the login limiter (api/server.go) promises the panel, without the  *)
(* map it keeps: an address may try a login exactly while fewer than Max   *)
(* of its logins since its last success lie in the last Window.  Nothing   *)
(* is ever pruned or swept here.  This is the sliding window the code      *)
(* keeps, not the fixed one its comment names: a login counts for Window   *)
(* from its own moment on, across the edge of any fixed window, which      *)
(* would let up to twice Max through around that edge.                     *)
(***************************************************************************)
EXTENDS Integers, FiniteSets

CONSTANTS Keys, Max, Window, MaxClock, MaxLogins

VARIABLES
  clock,
  logins, \* how many logins were let through
  open,   \* those of them that are not answered yet
  since   \* the logins of each address since its last success

vars == <<clock, logins, open, since>>

Init ==
  /\ clock = 0
  /\ logins = 0
  /\ open = {}
  /\ since = [k \in Keys |-> {}]

InWindow(k) == {h \in since[k] : clock - h.at < Window}

Vacant(k) == Cardinality(InWindow(k)) < Max

Try(k) ==
  /\ Vacant(k)
  /\ logins < MaxLogins
  /\ logins' = logins + 1
  /\ since' = [since EXCEPT ![k] = @ \cup {[n |-> logins + 1, at |-> clock]}]
  /\ open' = open \cup {<<k, logins + 1>>}
  /\ UNCHANGED clock

\* The answer: only a success clears the window of its address.
Answer(k, n) ==
  /\ <<k, n>> \in open
  /\ open' = open \ {<<k, n>>}
  /\ since' \in {since, [since EXCEPT ![k] = {}]}
  /\ UNCHANGED <<clock, logins>>

Tick ==
  /\ clock < MaxClock
  /\ clock' = clock + 1
  /\ UNCHANGED <<logins, open, since>>

Next ==
  \/ Tick
  \/ \E k \in Keys : Try(k) \/ \E n \in 1..MaxLogins : Answer(k, n)

Spec == Init /\ [][Next]_vars

-----------------------------------------------------------------------------

\* An address never has more than Max logins let through in one window without
\* a success (allow).
WindowBound == \A k \in Keys : Cardinality(InWindow(k)) <= Max
=============================================================================
