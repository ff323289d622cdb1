----------------------------- MODULE LoginLimiter -----------------------------
(***************************************************************************)
(* The login limiter (api/server.go): every login takes one hit of its     *)
(* address's window or is refused; a login that succeeds clears them.  The *)
(* window is a sliding one, a hit leaves it when it is old itself; the     *)
(* comment of the type calls it "fixed-window" (FixedWindow).              *)
(*                                                                         *)
(*  - A hit is a time; it carries a number here so that two hits of one    *)
(*    moment are two.  The lists are sets: nothing looks at their order.   *)
(*  - The mutex makes allow and reset one step each.  Between an allow and *)
(*    the reset of the same login other logins of the address may run.     *)
(*  - MaxClock and MaxLogins bound the time and the logins.                *)
(***************************************************************************)
EXTENDS Integers, FiniteSets, Functions

CONSTANTS
  Keys,     \* client addresses
  Max,      \* 8 in the code
  Window,   \* 10 minutes
  Large,    \* 4096
  MaxClock, MaxLogins \* bounds

VARIABLES
  clock,
  logins, \* how many logins were let through
  hits,   \* l.hits
  open,   \* the logins that were let through and are not answered yet
  since   \* every hit of an address since its last reset, never pruned: the history

vars == <<clock, logins, hits, open, since>>

Hits == [n: 1..MaxLogins, at: 0..MaxClock]

TypeOK ==
  /\ clock \in 0..MaxClock
  /\ logins \in 0..MaxLogins
  /\ DOMAIN hits \subseteq Keys
  /\ \A k \in DOMAIN hits : hits[k] \subseteq Hits /\ Cardinality(hits[k]) <= Max
  /\ open \subseteq Keys \X (1..MaxLogins)
  /\ since \in [Keys -> SUBSET Hits]

Init ==
  /\ clock = 0
  /\ logins = 0
  /\ hits = [k \in {} |-> {}]
  /\ open = {}
  /\ since = [k \in Keys |-> {}]

HitsOf(k) == IF k \in DOMAIN hits THEN hits[k] ELSE {}

Keep(k) == {h \in HitsOf(k) : clock - h.at < Window}

\* Mutant of HasRoom: len(keep) > l.max refuses, not >=.
HasRoomForOneMore(keep) == Cardinality(keep) <= Max

HasRoom(keep) == Cardinality(keep) < Max

Put(k, keep) == [j \in DOMAIN hits \cup {k} |-> IF j = k THEN keep ELSE hits[j]]

\* Mutant of Swept: it forgets the addresses that have hits.
SweptRecent(h) == IF Cardinality(DOMAIN h) > Large
                  THEN Restrict(h, {k \in DOMAIN h : h[k] = {}})
                  ELSE h

\* Once there are more than Large addresses, those with an empty list leave.
Swept(h) == IF Cardinality(DOMAIN h) > Large
            THEN Restrict(h, {k \in DOMAIN h : h[k] # {}})
            ELSE h

\* allow(k) returns true.
Admit(k) ==
  /\ HasRoom(Keep(k))
  /\ logins < MaxLogins
  /\ logins' = logins + 1
  /\ LET hit == [n |-> logins + 1, at |-> clock]
     IN /\ hits' = Swept(Put(k, Keep(k) \cup {hit}))
        /\ since' = [since EXCEPT ![k] = @ \cup {hit}]
  /\ open' = open \cup {<<k, logins + 1>>}
  /\ UNCHANGED clock

\* allow(k) returns false: 429.
Refuse(k) ==
  /\ ~HasRoom(Keep(k))
  /\ hits' = Put(k, Keep(k))
  /\ UNCHANGED <<clock, logins, open, since>>

\* The name or the password is wrong, or the query fails.
Fail(k, n) ==
  /\ <<k, n>> \in open
  /\ open' = open \ {<<k, n>>}
  /\ UNCHANGED <<clock, logins, hits, since>>

\* The password is right: reset(k).
Succeed(k, n) ==
  /\ <<k, n>> \in open
  /\ open' = open \ {<<k, n>>}
  /\ hits' = Restrict(hits, DOMAIN hits \ {k})
  /\ since' = [since EXCEPT ![k] = {}]
  /\ UNCHANGED <<clock, logins>>

Tick ==
  /\ clock < MaxClock
  /\ clock' = clock + 1
  /\ UNCHANGED <<logins, hits, open, since>>

Next ==
  \/ Tick
  \/ \E k \in Keys : \/ Admit(k) \/ Refuse(k)
                     \/ \E n \in 1..MaxLogins : Fail(k, n) \/ Succeed(k, n)

Spec == Init /\ [][Next]_vars

-----------------------------------------------------------------------------

\* "drop keys with no recent hits once the map grows large": a login that is let
\* through with more than Large addresses on the map leaves only recent ones.
OnlyRecentWhenLarge ==
  [][(logins' > logins /\ Cardinality(DOMAIN hits') > Large)
       => \A k \in DOMAIN hits' : \E h \in hits'[k] : clock - h.at < Window]_vars

\* "fixed-window, per-IP": such a window ends for all of its logins at once, so that
\* allow forgets all hits of an address or none.  The code forgets each when it is
\* old itself.
FixedWindow ==
  [][\A k \in DOMAIN hits \cap DOMAIN hits' : hits[k] \cap hits'[k] \in {{}, hits[k]}]_vars

=============================================================================
