-------------------------------- MODULE Sessions --------------------------------
(***************************************************************************)
(* Admin sessions (auth/auth.go): Redis when it was reachable at boot, and *)
(* always a mirror in memory.  Requests create a session (startSession),   *)
(* look one up (authed) and end one (logout); each call of Redis and each  *)
(* critical section of the mutex is a step.                                *)
(*                                                                         *)
(*  - Any call of Redis may fail, with or without its effect: that is what *)
(*    a blip is.  Redis may lose its data.  The process may restart.       *)
(*  - An entry is its deadline, 0 is no entry.  Redis drops an entry when  *)
(*    its time is up, memory counts it as expired one moment later.        *)
(*  - The admin's id goes along with the token and is left out.            *)
(*  - MaxClock and MaxBoots bound the time and the restarts.               *)
(***************************************************************************)
EXTENDS Integers

CONSTANTS
  Tokens,
  Requests,
  Ttl,
  SweepEvery, \* 512 in the code
  MaxClock, MaxBoots \* bounds

ASSUME SessionsAssumption ==
  /\ Ttl \in Nat \ {0} /\ SweepEvery \in Nat \ {0}
  /\ MaxClock \in Nat /\ MaxBoots \in Nat
  /\ Tokens # {}

VARIABLES
  clock,
  boots,
  configured, \* rdb # nil
  redis,      \* the deadline of each token there
  mem,        \* m.mem
  gets,       \* m.gets modulo SweepEvery
  req,        \* where each request is
  \* history
  born,       \* when a token's Create returned, -1 before
  ours,       \* tokens whose Create returned in this run of the process
  leaving,    \* tokens whose logout has begun
  ended       \* tokens whose logout is complete and met no failure

hist == <<born, ours, leaving, ended>>
vars == <<clock, boots, configured, redis, mem, gets, req, born, ours, leaving, ended>>

Deadlines == 0..(MaxClock + Ttl)

Steps == {"idle", "set", "mirror", "sweep", "get", "lookup", "del", "forget",
          "accepted", "rejected"}

TypeOK ==
  /\ clock \in 0..MaxClock
  /\ boots \in 0..MaxBoots
  /\ configured \in BOOLEAN
  /\ redis \in [Tokens -> Deadlines] /\ mem \in [Tokens -> Deadlines]
  /\ gets \in 0..(SweepEvery - 1)
  /\ req \in [Requests -> [pc: Steps, token: Tokens, flag: BOOLEAN]]
  /\ born \in [Tokens -> -1..MaxClock]
  /\ ours \subseteq Tokens /\ leaving \subseteq Tokens /\ ended \subseteq Tokens

\* Where a request goes, with the flag it had.
To(r, pc) == req' = [req EXCEPT ![r].pc = pc]

At(r, pc) == req[r].pc = pc

\* Every request is about one token; those that are being created are no cookie yet.
Token(r) == req[r].token

Idle == [pc |-> "idle", token |-> CHOOSE t \in Tokens : TRUE, flag |-> FALSE]

Done(r) == req' = [req EXCEPT ![r] = Idle]

Init ==
  /\ clock = 0
  /\ boots = 0
  /\ configured \in BOOLEAN
  /\ redis = [t \in Tokens |-> 0]
  /\ mem = [t \in Tokens |-> 0]
  /\ gets = 0
  /\ req = [r \in Requests |-> Idle]
  /\ born = [t \in Tokens |-> -1]
  /\ ours = {} /\ leaving = {} /\ ended = {}

-----------------------------------------------------------------------------
(* Create *)

\* Mutant of Deadline: the lifetime is added twice.
DeadlineTwice == clock + 2 * Ttl

Deadline == clock + Ttl

\* A token nobody was ever given.
CreateStart(r, t) ==
  /\ At(r, "idle")
  /\ born[t] = -1 /\ redis[t] = 0
  /\ \A q \in Requests : Token(q) = t => At(q, "idle")
  /\ req' = [req EXCEPT ![r] = [pc |-> IF configured THEN "set" ELSE "mirror",
                                token |-> t, flag |-> FALSE]]
  /\ UNCHANGED <<clock, boots, configured, redis, mem, gets, hist>>

\* SET with an expiry; an error is only logged.
RedisSet(r) ==
  /\ At(r, "set")
  /\ redis' \in {redis, [redis EXCEPT ![Token(r)] = Deadline]}
  /\ To(r, "mirror")
  /\ UNCHANGED <<clock, boots, configured, mem, gets, hist>>

\* Mutant of Mirrored: memory only when there is no Redis.
MirroredWithoutRedis(t) == IF configured THEN mem ELSE [mem EXCEPT ![t] = Deadline]

Mirrored(t) == [mem EXCEPT ![t] = Deadline]

\* The mirror is written whatever Redis said; the cookie goes out.
Mirror(r) ==
  /\ At(r, "mirror")
  /\ mem' = Mirrored(Token(r))
  /\ born' = [born EXCEPT ![Token(r)] = clock]
  /\ ours' = ours \cup {Token(r)}
  /\ Done(r)
  /\ UNCHANGED <<clock, boots, configured, redis, gets, leaving, ended>>

-----------------------------------------------------------------------------
(* Get *)

\* time.Now().After(exp)
Expired(t) == mem[t] # 0 /\ clock > mem[t]

\* Mutant of SweepDue: the remainder is compared with 512.
SweepDueAtEnd(n) == n = SweepEvery

\* gets % 512 == 0
SweepDue(n) == n = 0

\* Where the lookup itself begins.
AskFirst == IF configured THEN "get" ELSE "lookup"

\* A request with a cookie it was given once; the browser may hold it after a
\* logout.  The flag says that a complete logout came first.
GetStart(r, t) ==
  /\ At(r, "idle")
  /\ born[t] # -1
  /\ gets' = (gets + 1) % SweepEvery
  /\ req' = [req EXCEPT ![r] = [pc |-> IF SweepDue(gets') THEN "sweep" ELSE AskFirst,
                                token |-> t, flag |-> t \in ended]]
  /\ UNCHANGED <<clock, boots, configured, redis, mem, hist>>

\* sweepExpired
Sweep(r) ==
  /\ At(r, "sweep")
  /\ mem' = [t \in Tokens |-> IF Expired(t) THEN 0 ELSE mem[t]]
  /\ To(r, AskFirst)
  /\ UNCHANGED <<clock, boots, configured, redis, gets, hist>>

\* GET: Redis knows the token, or it does not or fails.
RedisGet(r) ==
  /\ At(r, "get")
  /\ \/ clock < redis[Token(r)] /\ To(r, "accepted")
     \/ To(r, "lookup")
  /\ UNCHANGED <<clock, boots, configured, redis, mem, gets, hist>>

\* The mirror; an expired entry is evicted.
Lookup(r) ==
  /\ At(r, "lookup")
  /\ LET t == Token(r)
     IN \/ /\ mem[t] # 0 /\ ~Expired(t)
           /\ To(r, "accepted")
           /\ UNCHANGED mem
        \/ /\ mem[t] = 0 \/ Expired(t)
           /\ To(r, "rejected")
           /\ mem' = [mem EXCEPT ![t] = 0]
  /\ UNCHANGED <<clock, boots, configured, redis, gets, hist>>

-----------------------------------------------------------------------------
(* Delete *)

\* The logout route is behind the lookup.  From here on the flag says that nothing
\* of the token can be left in Redis: it was never there, or DEL was answered.
DeleteStart(r) ==
  /\ At(r, "accepted")
  /\ leaving' = leaving \cup {Token(r)}
  /\ req' = [req EXCEPT ![r] = [pc |-> IF configured THEN "del" ELSE "forget",
                                token |-> Token(r), flag |-> ~configured /\ Token(r) \in ours]]
  /\ UNCHANGED <<clock, boots, configured, redis, mem, gets, born, ours, ended>>

\* DEL; its error is dropped.
RedisDel(r) ==
  /\ At(r, "del")
  /\ \/ /\ redis' = [redis EXCEPT ![Token(r)] = 0]
        /\ req' = [req EXCEPT ![r] = [pc |-> "forget", token |-> Token(r), flag |-> TRUE]]
     \/ /\ redis' \in {redis, [redis EXCEPT ![Token(r)] = 0]}
        /\ To(r, "forget")
  /\ UNCHANGED <<clock, boots, configured, mem, gets, hist>>

\* Mutant of Forgotten: memory is left alone when there is a Redis.
ForgottenInRedis(t) == IF configured THEN mem ELSE [mem EXCEPT ![t] = 0]

Forgotten(t) == [mem EXCEPT ![t] = 0]

Forget(r) ==
  /\ At(r, "forget")
  /\ mem' = Forgotten(Token(r))
  /\ ended' = IF req[r].flag THEN ended \cup {Token(r)} ELSE ended
  /\ Done(r)
  /\ UNCHANGED <<clock, boots, configured, redis, gets, born, ours, leaving>>

-----------------------------------------------------------------------------

\* The handler behind the lookup is done, or 401.
Answer(r) ==
  /\ At(r, "accepted") \/ At(r, "rejected")
  /\ Done(r)
  /\ UNCHANGED <<clock, boots, configured, redis, mem, gets, hist>>

Tick ==
  /\ clock < MaxClock
  /\ clock' = clock + 1
  /\ UNCHANGED <<boots, configured, redis, mem, gets, req, hist>>

\* A redeploy or a crash: memory is gone, main pings Redis once.
Reboot ==
  /\ boots < MaxBoots
  /\ boots' = boots + 1
  /\ configured' \in BOOLEAN
  /\ mem' = [t \in Tokens |-> 0]
  /\ gets' = 0
  /\ req' = [r \in Requests |-> Idle]
  /\ ours' = {}
  /\ UNCHANGED <<clock, redis, born, leaving, ended>>

\* Redis comes back without its data.
RedisLoses ==
  /\ redis' = [t \in Tokens |-> 0]
  /\ UNCHANGED <<clock, boots, configured, mem, gets, req, hist>>

Serve(r) ==
  RedisSet(r) \/ Mirror(r) \/ Sweep(r) \/ RedisGet(r) \/ Lookup(r)
  \/ RedisDel(r) \/ Forget(r) \/ Answer(r)

Next ==
  \/ Tick \/ Reboot \/ RedisLoses
  \/ \E r \in Requests :
       \/ Serve(r)
       \/ DeleteStart(r)
       \/ \E t \in Tokens : CreateStart(r, t) \/ GetStart(r, t)

Spec == Init /\ [][Next]_vars

\* A goroutine runs on until its request is answered; the panel is open, so
\* requests keep coming.
Fairness ==
  /\ \A r \in Requests : WF_vars(Serve(r))
  /\ WF_vars(\E r \in Requests, t \in Tokens : GetStart(r, t))

LiveSpec == Spec /\ Fairness

-----------------------------------------------------------------------------

\* A step that decides on a request.
Decides(r, pc) == req[r].pc \in {"get", "lookup"} /\ req'[r].pc = pc

\* "the panel keeps working if Redis blips": whatever Redis does, a session of
\* this run that nobody ended and that is not over is never turned away (Get).
BlipHarmless ==
  [][\A r \in Requests : Decides(r, "rejected") =>
       LET t == Token(r)
       IN t \notin ours \/ t \in leaving \/ clock > born[t] + Ttl]_vars

\* Nobody gets in with a session whose logout was complete before the request
\* came, nor after its lifetime, across restarts and whatever store answers
\* (Get, Delete).
EndedStaysOut ==
  [][\A r \in Requests : Decides(r, "accepted") =>
       ~req[r].flag /\ clock <= born[Token(r)] + Ttl]_vars

\* "sweep expired entries so abandoned sessions don't leak": while requests come,
\* an expired entry leaves the memory, though nobody ever asks for it (Get).
ExpiredLeave == \A t \in Tokens : (mem[t] # 0 /\ clock > mem[t]) ~> mem[t] = 0
=============================================================================
