------------------------------- MODULE Live_proofs -------------------------------
(***************************************************************************)
(* Sessions: what the two stores know of a token, against its history.  A  *)
(* token is written by its one Create and erased by expiry, a logout, a    *)
(* restart or a loss of Redis; from that both promises of the manager      *)
(* follow for any tokens, requests, lifetime and sweep period.             *)
(*                                                                         *)
(* Hub: writes exclude each other, and what a Broadcast has not handed     *)
(* over is still before it, in its hands, or closed and off (Tracked).     *)
(* Each of its steps brings its return closer (CastCloser).                *)
(***************************************************************************)
EXTENDS MCPanel, TLAPS

Creating(r) == req[r].pc \in {"set", "mirror"}
Using(r) == req[r].pc \in {"sweep", "get", "lookup", "accepted", "rejected", "del", "forget"}
Asking(r) == req[r].pc \in {"sweep", "get", "lookup"}

\* A token has one Create at most, and nobody else knows it before that is done.
Unique ==
  /\ \A r \in Requests : Creating(r) => born[Token(r)] = -1
  /\ \A r, q \in Requests : Creating(r) /\ Creating(q) /\ Token(r) = Token(q) => r = q
  /\ \A r \in Requests : Using(r) => born[Token(r)] # -1
  /\ \A t \in Tokens : born[t] = -1 => mem[t] = 0 /\ t \notin ours \cup leaving \cup ended

\* A deadline is never later than the lifetime allows, and that of memory is exact.
Timely ==
  /\ \A t \in Tokens : born[t] <= clock
  /\ \A t \in Tokens : born[t] # -1 =>
        redis[t] <= born[t] + Ttl /\ mem[t] \in {0, born[t] + Ttl}
  /\ \A r \in Requests : Creating(r) => redis[Token(r)] <= clock + Ttl

\* A session of this run that nobody ended is in memory until its time is over.
Held ==
  /\ \A t \in ours \ leaving : mem[t] = born[t] + Ttl \/ clock > born[t] + Ttl
  /\ \A r \in Requests : req[r].pc \in {"del", "forget"} => Token(r) \in leaving

\* Without Redis in this run, no token of this run is in Redis.
Unconfigured ==
  ~configured =>
    /\ \A t \in ours : redis[t] = 0
    /\ \A r \in Requests : req[r].pc # "set" /\ (req[r].pc = "mirror" => redis[Token(r)] = 0)

\* A complete logout leaves the token in neither store; the flags mean what they say.
Gone ==
  /\ \A t \in ended : redis[t] = 0 /\ mem[t] = 0
  /\ \A r \in Requests : req[r].pc = "del" => ~req[r].flag
  /\ \A r \in Requests : req[r].pc = "forget" /\ req[r].flag => redis[Token(r)] = 0
  /\ \A r \in Requests : Asking(r) /\ req[r].flag => Token(r) \in ended

IInv == TypeOK /\ Unique /\ Timely /\ Held /\ Unconfigured /\ Gone

-----------------------------------------------------------------------------

\* Create, up to its first write.
LEMMA CreateStartStep ==
  ASSUME IInv, NEW r \in Requests, NEW t \in Tokens, CreateStart(r, t)
  PROVE  IInv'
<1> USE SessionsAssumption DEF IInv, TypeOK, Steps, Deadlines
<1>1. TypeOK'
  BY DEF CreateStart, Token, At, hist
<1>2. Unique'
  BY DEF CreateStart, Token, At, hist, Unique, Creating, Using
<1>3. Timely'
  BY DEF CreateStart, Token, At, hist, Unique, Timely, Creating, Using
<1>4. Held'
  BY DEF CreateStart, Token, At, hist, Unique, Timely, Held, Creating, Using
<1>5. Unconfigured'
  BY DEF CreateStart, Token, At, hist, Unique, Unconfigured, Creating, Using
<1>6. Gone'
  BY DEF CreateStart, Token, At, hist, Unique, Unconfigured, Gone, Creating, Using, Asking
<1>7. QED
  BY <1>1, <1>2, <1>3, <1>4, <1>5, <1>6

\* Create: SET, or its error.
LEMMA RedisSetStep ==
  ASSUME IInv, NEW r \in Requests, RedisSet(r)
  PROVE  IInv'
<1> USE SessionsAssumption DEF IInv, TypeOK, Steps, Deadlines
<1>1. TypeOK'
  BY DEF RedisSet, To, At, Token, Deadline, hist
<1>2. Unique'
  BY DEF RedisSet, To, At, Token, Deadline, hist, Unique, Creating, Using
<1>3. Timely'
  BY DEF RedisSet, To, At, Token, Deadline, hist, Unique, Timely, Creating, Using
<1>4. Held'
  BY DEF RedisSet, To, At, Token, Deadline, hist, Unique, Timely, Held, Creating, Using
<1>5. Unconfigured'
  BY DEF RedisSet, To, At, Token, Deadline, hist, Unique, Unconfigured, Creating, Using
<1>6. Gone'
  BY DEF RedisSet, To, At, Token, Deadline, hist, Unique, Unconfigured, Gone, Creating, Using, Asking
<1>7. QED
  BY <1>1, <1>2, <1>3, <1>4, <1>5, <1>6

\* Create: the entry of the memory.
LEMMA MirrorStep ==
  ASSUME IInv, NEW r \in Requests, Mirror(r)
  PROVE  IInv'
<1> USE SessionsAssumption DEF IInv, TypeOK, Steps, Deadlines
<1>1. TypeOK'
  BY DEF Mirror, Mirrored, Deadline, Done, Idle, Token, At, hist
<1>2. Unique'
  BY DEF Mirror, Mirrored, Deadline, Done, Idle, Token, At, hist, Unique, Creating, Using
<1>3. Timely'
  BY DEF Mirror, Mirrored, Deadline, Done, Idle, Token, At, hist, Unique, Timely, Creating, Using
<1>4. Held'
  BY DEF Mirror, Mirrored, Deadline, Done, Idle, Token, At, hist, Unique, Timely, Held, Creating, Using
<1>5. Unconfigured'
  BY DEF Mirror, Mirrored, Deadline, Done, Idle, Token, At, hist, Unique, Unconfigured, Creating, Using
<1>6. Gone'
  BY DEF Mirror, Mirrored, Deadline, Done, Idle, Token, At, hist, Unique, Unconfigured, Gone, Creating, Using, Asking
<1>7. QED
  BY <1>1, <1>2, <1>3, <1>4, <1>5, <1>6

\* Get: is a sweep due?
LEMMA GetStartStep ==
  ASSUME IInv, NEW r \in Requests, NEW t \in Tokens, GetStart(r, t)
  PROVE  IInv'
<1> USE SessionsAssumption DEF IInv, TypeOK, Steps, Deadlines
<1>1. TypeOK'
  BY DEF GetStart, SweepDue, AskFirst, Token, At, hist
<1>2. Unique'
  BY DEF GetStart, SweepDue, AskFirst, Token, At, hist, Unique, Creating, Using
<1>3. Timely'
  BY DEF GetStart, SweepDue, AskFirst, Token, At, hist, Unique, Timely, Creating, Using
<1>4. Held'
  BY DEF GetStart, SweepDue, AskFirst, Token, At, hist, Unique, Timely, Held, Creating, Using
<1>5. Unconfigured'
  BY DEF GetStart, SweepDue, AskFirst, Token, At, hist, Unique, Unconfigured, Creating, Using
<1>6. Gone'
  BY DEF GetStart, SweepDue, AskFirst, Token, At, hist, Unique, Unconfigured, Gone, Creating, Using, Asking
<1>7. QED
  BY <1>1, <1>2, <1>3, <1>4, <1>5, <1>6

\* Get: the sweep.
LEMMA SweepStep ==
  ASSUME IInv, NEW r \in Requests, Sweep(r)
  PROVE  IInv'
<1> USE SessionsAssumption DEF IInv, TypeOK, Steps, Deadlines
<1>1. TypeOK'
  BY DEF Sweep, Expired, AskFirst, To, Token, At, hist
<1>2. Unique'
  BY DEF Sweep, Expired, AskFirst, To, Token, At, hist, Unique, Creating, Using
<1>3. Timely'
  BY DEF Sweep, Expired, AskFirst, To, Token, At, hist, Unique, Timely, Creating, Using
<1>4. Held'
  BY DEF Sweep, Expired, AskFirst, To, Token, At, hist, Unique, Timely, Held, Creating, Using
<1>5. Unconfigured'
  BY DEF Sweep, Expired, AskFirst, To, Token, At, hist, Unique, Unconfigured, Creating, Using
<1>6. Gone'
  BY DEF Sweep, Expired, AskFirst, To, Token, At, hist, Unique, Unconfigured, Gone, Creating, Using, Asking
<1>7. QED
  BY <1>1, <1>2, <1>3, <1>4, <1>5, <1>6

\* Get: the answer of Redis.
LEMMA RedisGetStep ==
  ASSUME IInv, NEW r \in Requests, RedisGet(r)
  PROVE  IInv'
<1> USE SessionsAssumption DEF IInv, TypeOK, Steps, Deadlines
<1>1. TypeOK'
  BY DEF RedisGet, To, Token, At, hist
<1>2. Unique'
  BY DEF RedisGet, To, Token, At, hist, Unique, Creating, Using
<1>3. Timely'
  BY DEF RedisGet, To, Token, At, hist, Unique, Timely, Creating, Using
<1>4. Held'
  BY DEF RedisGet, To, Token, At, hist, Unique, Timely, Held, Creating, Using
<1>5. Unconfigured'
  BY DEF RedisGet, To, Token, At, hist, Unique, Unconfigured, Creating, Using
<1>6. Gone'
  <2>1. \A q \in Requests :
          /\ req'[q].token = req[q].token /\ req'[q].flag = req[q].flag
          /\ req'[q].pc = "forget" => req[q].pc = "forget"
          /\ req'[q].pc = "del" => req[q].pc = "del"
          /\ req'[q].pc \in {"sweep", "get", "lookup"} => req[q].pc \in {"sweep", "get", "lookup"}
    BY DEF RedisGet, To, At
  <2>2. UNCHANGED <<redis, mem, ended>>
    BY DEF RedisGet, hist
  <2>3. QED
    BY <2>1, <2>2 DEF Gone, Asking, Token
<1>7. QED
  BY <1>1, <1>2, <1>3, <1>4, <1>5, <1>6

\* Get: the memory.
LEMMA LookupStep ==
  ASSUME IInv, NEW r \in Requests, Lookup(r)
  PROVE  IInv'
<1> USE SessionsAssumption DEF IInv, TypeOK, Steps, Deadlines
<1>1. TypeOK'
  BY DEF Lookup, Expired, To, Token, At, hist
<1>2. Unique'
  BY DEF Lookup, Expired, To, Token, At, hist, Unique, Creating, Using
<1>3. Timely'
  BY DEF Lookup, Expired, To, Token, At, hist, Unique, Timely, Creating, Using
<1>4. Held'
  BY DEF Lookup, Expired, To, Token, At, hist, Unique, Timely, Held, Creating, Using
<1>5. Unconfigured'
  BY DEF Lookup, Expired, To, Token, At, hist, Unique, Unconfigured, Creating, Using
<1>6. Gone'
  <2>1. \A q \in Requests :
          /\ req'[q].token = req[q].token /\ req'[q].flag = req[q].flag
          /\ req'[q].pc = "forget" => req[q].pc = "forget"
          /\ req'[q].pc = "del" => req[q].pc = "del"
          /\ req'[q].pc \in {"sweep", "get", "lookup"} => req[q].pc \in {"sweep", "get", "lookup"}
    BY DEF Lookup, To, At
  <2>2. UNCHANGED <<redis, ended>> /\ \A t \in Tokens : mem'[t] \in {0, mem[t]}
    BY DEF Lookup, Token, hist
  <2>3. QED
    BY <2>1, <2>2 DEF Gone, Asking, Token
<1>7. QED
  BY <1>1, <1>2, <1>3, <1>4, <1>5, <1>6

\* Delete, up to its first erasure.
LEMMA DeleteStartStep ==
  ASSUME IInv, NEW r \in Requests, DeleteStart(r)
  PROVE  IInv'
<1> USE SessionsAssumption DEF IInv, TypeOK, Steps, Deadlines
<1>1. TypeOK'
  <2>1. req' \in [Requests -> [pc: Steps, token: Tokens, flag: BOOLEAN]]
    <3>1. PICK p \in {"del", "forget"}, f \in BOOLEAN :
            req' = [req EXCEPT ![r] = [pc |-> p, token |-> Token(r), flag |-> f]]
      BY DEF DeleteStart
    <3>2. Token(r) \in Tokens
      BY DEF Token
    <3>3. QED
      BY <3>1, <3>2
  <2>2. QED
    BY <2>1 DEF DeleteStart, Token
<1>2. Unique'
  BY DEF DeleteStart, Token, At, hist, Unique, Creating, Using
<1>3. Timely'
  BY DEF DeleteStart, Token, At, hist, Unique, Timely, Creating, Using
<1>4. Held'
  BY DEF DeleteStart, Token, At, hist, Unique, Timely, Held, Creating, Using
<1>5. Unconfigured'
  BY DEF DeleteStart, Token, At, hist, Unique, Unconfigured, Creating, Using
<1>6. Gone'
  BY DEF DeleteStart, Token, At, hist, Unique, Unconfigured, Gone, Creating, Using, Asking
<1>7. QED
  BY <1>1, <1>2, <1>3, <1>4, <1>5, <1>6

\* Delete: DEL, or its error.
LEMMA RedisDelStep ==
  ASSUME IInv, NEW r \in Requests, RedisDel(r)
  PROVE  IInv'
<1> USE SessionsAssumption DEF IInv, TypeOK, Steps, Deadlines
<1>1. TypeOK'
  <2>1. req' \in [Requests -> [pc: Steps, token: Tokens, flag: BOOLEAN]]
    <3>1. Token(r) \in Tokens
      BY DEF Token
    <3>2. CASE req' = [req EXCEPT ![r] = [pc |-> "forget", token |-> Token(r), flag |-> TRUE]]
      BY <3>1, <3>2
    <3>3. CASE To(r, "forget")
      BY <3>3 DEF To
    <3>4. QED
      BY <3>2, <3>3 DEF RedisDel
  <2>2. redis' \in [Tokens -> Deadlines]
    BY DEF RedisDel, Token
  <2>3. UNCHANGED <<clock, boots, configured, mem, gets, born, ours, leaving, ended>>
    BY DEF RedisDel, hist
  <2>4. QED
    BY <2>1, <2>2, <2>3
<1>2. Unique'
  BY DEF RedisDel, To, Token, At, hist, Unique, Creating, Using
<1>3. Timely'
  BY DEF RedisDel, To, Token, At, hist, Unique, Timely, Creating, Using
<1>4. Held'
  BY DEF RedisDel, To, Token, At, hist, Unique, Timely, Held, Creating, Using
<1>5. Unconfigured'
  BY DEF RedisDel, To, Token, At, hist, Unique, Unconfigured, Creating, Using
<1>6. Gone'
  <2>1. \A q \in Requests : q # r => req'[q] = req[q]
    BY DEF RedisDel, To
  <2>2. /\ req'[r].token = req[r].token /\ req'[r].pc = "forget"
        /\ req'[r].flag => redis'[Token(r)] = 0 \/ req[r].flag
    BY DEF RedisDel, To, At, Token
  <2>3. \A t \in Tokens : redis'[t] = redis[t] \/ redis'[t] = 0
    BY DEF RedisDel, Token
  <2>4. req[r].pc = "del" /\ ~req[r].flag
    BY DEF RedisDel, At, Gone
  <2>5. UNCHANGED <<mem, ended>>
    BY DEF RedisDel, hist
  <2>6. QED
    BY <2>1, <2>2, <2>3, <2>4, <2>5 DEF Gone, Asking, Token
<1>7. QED
  BY <1>1, <1>2, <1>3, <1>4, <1>5, <1>6

\* Delete: the entry of the memory.
LEMMA ForgetStep ==
  ASSUME IInv, NEW r \in Requests, Forget(r)
  PROVE  IInv'
<1> USE SessionsAssumption DEF IInv, TypeOK, Steps, Deadlines
<1>1. TypeOK'
  BY DEF Forget, Forgotten, Done, Idle, Token, At, hist
<1>2. Unique'
  BY DEF Forget, Forgotten, Done, Idle, Token, At, hist, Unique, Creating, Using
<1>3. Timely'
  BY DEF Forget, Forgotten, Done, Idle, Token, At, hist, Unique, Timely, Creating, Using
<1>4. Held'
  BY DEF Forget, Forgotten, Done, Idle, Token, At, hist, Unique, Timely, Held, Creating, Using
<1>5. Unconfigured'
  BY DEF Forget, Forgotten, Done, Idle, Token, At, hist, Unique, Unconfigured, Creating, Using
<1>6. Gone'
  BY DEF Forget, Forgotten, Done, Idle, Token, At, hist, Unique, Unconfigured, Gone, Creating, Using, Asking
<1>7. QED
  BY <1>1, <1>2, <1>3, <1>4, <1>5, <1>6

\* The request is answered.
LEMMA AnswerStep ==
  ASSUME IInv, NEW r \in Requests, Answer(r)
  PROVE  IInv'
<1> USE SessionsAssumption DEF IInv, TypeOK, Steps, Deadlines
<1>1. TypeOK'
  BY DEF Answer, Done, Idle, Token, At, hist
<1>2. Unique'
  BY DEF Answer, Done, Idle, Token, At, hist, Unique, Creating, Using
<1>3. Timely'
  BY DEF Answer, Done, Idle, Token, At, hist, Unique, Timely, Creating, Using
<1>4. Held'
  BY DEF Answer, Done, Idle, Token, At, hist, Unique, Timely, Held, Creating, Using
<1>5. Unconfigured'
  BY DEF Answer, Done, Idle, Token, At, hist, Unique, Unconfigured, Creating, Using
<1>6. Gone'
  BY DEF Answer, Done, Idle, Token, At, hist, Unique, Unconfigured, Gone, Creating, Using, Asking
<1>7. QED
  BY <1>1, <1>2, <1>3, <1>4, <1>5, <1>6

\* A second passes.
LEMMA TickStep ==
  ASSUME IInv, Tick
  PROVE  IInv'
<1> USE SessionsAssumption DEF IInv, TypeOK, Steps, Deadlines
<1>1. TypeOK'
  BY DEF Tick, Token, At, hist
<1>2. Unique'
  BY DEF Tick, Token, At, hist, Unique, Creating, Using
<1>3. Timely'
  BY DEF Tick, Token, At, hist, Unique, Timely, Creating, Using
<1>4. Held'
  BY DEF Tick, Token, At, hist, Unique, Timely, Held, Creating, Using
<1>5. Unconfigured'
  BY DEF Tick, Token, At, hist, Unique, Unconfigured, Creating, Using
<1>6. Gone'
  BY DEF Tick, Token, At, hist, Unique, Unconfigured, Gone, Creating, Using, Asking
<1>7. QED
  BY <1>1, <1>2, <1>3, <1>4, <1>5, <1>6

\* The process restarts; Redis keeps what it has.
LEMMA RebootStep ==
  ASSUME IInv, Reboot
  PROVE  IInv'
<1> USE SessionsAssumption DEF IInv, TypeOK, Steps, Deadlines
<1>1. TypeOK'
  BY DEF Reboot, Idle, Token, At, hist
<1>2. Unique'
  BY DEF Reboot, Idle, Token, At, hist, Unique, Creating, Using
<1>3. Timely'
  BY DEF Reboot, Idle, Token, At, hist, Unique, Timely, Creating, Using
<1>4. Held'
  BY DEF Reboot, Idle, Token, At, hist, Unique, Timely, Held, Creating, Using
<1>5. Unconfigured'
  BY DEF Reboot, Idle, Token, At, hist, Unique, Unconfigured, Creating, Using
<1>6. Gone'
  BY DEF Reboot, Idle, Token, At, hist, Unique, Unconfigured, Gone, Creating, Using, Asking
<1>7. QED
  BY <1>1, <1>2, <1>3, <1>4, <1>5, <1>6

\* Redis loses what it has.
LEMMA RedisLosesStep ==
  ASSUME IInv, RedisLoses
  PROVE  IInv'
<1> USE SessionsAssumption DEF IInv, TypeOK, Steps, Deadlines
<1>1. TypeOK'
  BY DEF RedisLoses, Token, At, hist
<1>2. Unique'
  BY DEF RedisLoses, Token, At, hist, Unique, Creating, Using
<1>3. Timely'
  BY DEF RedisLoses, Token, At, hist, Unique, Timely, Creating, Using
<1>4. Held'
  BY DEF RedisLoses, Token, At, hist, Unique, Timely, Held, Creating, Using
<1>5. Unconfigured'
  BY DEF RedisLoses, Token, At, hist, Unique, Unconfigured, Creating, Using
<1>6. Gone'
  BY DEF RedisLoses, Token, At, hist, Unique, Unconfigured, Gone, Creating, Using, Asking
<1>7. QED
  BY <1>1, <1>2, <1>3, <1>4, <1>5, <1>6

\* Nothing happens.
LEMMA StutterStep ==
  ASSUME IInv, UNCHANGED vars
  PROVE  IInv'
<1> USE SessionsAssumption DEF IInv, TypeOK, Steps, Deadlines
<1>1. TypeOK'
  BY DEF vars, Token, At, hist
<1>2. Unique'
  BY DEF vars, Token, At, hist, Unique, Creating, Using
<1>3. Timely'
  BY DEF vars, Token, At, hist, Unique, Timely, Creating, Using
<1>4. Held'
  BY DEF vars, Token, At, hist, Unique, Timely, Held, Creating, Using
<1>5. Unconfigured'
  BY DEF vars, Token, At, hist, Unique, Unconfigured, Creating, Using
<1>6. Gone'
  BY DEF vars, Token, At, hist, Unique, Unconfigured, Gone, Creating, Using, Asking
<1>7. QED
  BY <1>1, <1>2, <1>3, <1>4, <1>5, <1>6

\* No session exists in the beginning.
LEMMA InitInv == Init => IInv
<1> SUFFICES ASSUME Init PROVE IInv
  OBVIOUS
<1>1. (CHOOSE t \in Tokens : TRUE) \in Tokens
  BY SessionsAssumption
<1>2. Idle \in [pc: Steps, token: Tokens, flag: BOOLEAN] /\ Idle.pc = "idle"
  BY <1>1 DEF Idle, Steps
<1>3. 0 \in Deadlines /\ 0 \in 0..MaxClock /\ 0 \in 0..MaxBoots /\ 0 \in 0..(SweepEvery - 1)
      /\ -1 \in -1..MaxClock
  BY SessionsAssumption DEF Deadlines
<1>4. TypeOK
  BY <1>2, <1>3 DEF Init, TypeOK
<1>5. Unique /\ Timely /\ Held /\ Unconfigured /\ Gone
  <2>1. \A r \in Requests : req[r].pc = "idle"
    BY <1>2 DEF Init
  <2>2. \A t \in Tokens : redis[t] = 0 /\ mem[t] = 0 /\ born[t] = -1
    BY DEF Init
  <2>3. clock = 0 /\ ours = {} /\ leaving = {} /\ ended = {}
    BY DEF Init
  <2>4. QED
    BY <2>1, <2>2, <2>3 DEF Unique, Timely, Held, Unconfigured, Gone, Creating, Using, Asking
<1>6. QED
  BY <1>4, <1>5 DEF IInv

\* The conjunction is inductive.
LEMMA Inductive == IInv /\ [Next]_vars => IInv'
<1> SUFFICES ASSUME IInv, [Next]_vars PROVE IInv'
  OBVIOUS
<1>1. CASE Tick \/ Reboot \/ RedisLoses \/ UNCHANGED vars
  BY <1>1, TickStep, RebootStep, RedisLosesStep, StutterStep
<1>2. CASE \E r \in Requests, t \in Tokens : CreateStart(r, t) \/ GetStart(r, t)
  BY <1>2, CreateStartStep, GetStartStep
<1>3. CASE \E r \in Requests : Serve(r) \/ DeleteStart(r)
  BY <1>3, RedisSetStep, MirrorStep, SweepStep, RedisGetStep, LookupStep, DeleteStartStep,
     RedisDelStep, ForgetStep, AnswerStep DEF Serve
<1>4. QED
  BY <1>1, <1>2, <1>3 DEF Next

\* The conjunction holds throughout.
LEMMA Invariant == Spec => []IInv
  BY InitInv, Inductive, PTL DEF Spec

\* Only the two lookups decide on a request.
LEMMA WhoDecides ==
  ASSUME TypeOK, [Next]_vars, NEW r \in Requests,
         Decides(r, "accepted") \/ Decides(r, "rejected")
  PROVE  \/ Decides(r, "accepted") /\ RedisGet(r) /\ clock < redis[Token(r)]
         \/ Lookup(r)
<1> USE DEF TypeOK, Decides, At, To, Token
<1>1. CASE \E q \in Requests, t \in Tokens : CreateStart(q, t) \/ GetStart(q, t)
  BY <1>1 DEF CreateStart, GetStart, AskFirst
<1>2. CASE \E q \in Requests : \/ RedisSet(q) \/ Mirror(q) \/ Sweep(q) \/ DeleteStart(q)
                              \/ RedisDel(q) \/ Forget(q) \/ Answer(q)
  BY <1>2 DEF RedisSet, Mirror, Sweep, AskFirst, DeleteStart, RedisDel, Forget, Answer, Done, Idle
<1>3. CASE \E q \in Requests : RedisGet(q) \/ Lookup(q)
  <2>1. PICK q \in Requests : RedisGet(q) \/ Lookup(q)
    BY <1>3
  <2>2. q = r
    BY <2>1 DEF RedisGet, Lookup
  <2>3. QED
    BY <2>1, <2>2 DEF RedisGet
<1>4. CASE Tick \/ Reboot \/ RedisLoses \/ UNCHANGED vars
  BY <1>4 DEF Tick, Reboot, Idle, RedisLoses, vars
<1>5. QED
  BY <1>1, <1>2, <1>3, <1>4 DEF Next, Serve

-----------------------------------------------------------------------------

\* Every variable keeps its type, for any tokens, requests and periods.
THEOREM TypeCorrect == Spec => []TypeOK
<1>1. IInv => TypeOK
  BY DEF IInv
<1>2. QED
  BY <1>1, Invariant, PTL

\* However Redis fails, forgets or comes back, a live session of this run of the
\* process is not turned away (Get).
THEOREM BlipsHarmless == Spec => BlipHarmless
<1>1. IInv /\ [Next]_vars =>
        [\A r \in Requests : Decides(r, "rejected") =>
           LET t == Token(r)
           IN t \notin ours \/ t \in leaving \/ clock > born[t] + Ttl]_vars
  <2> SUFFICES ASSUME IInv, [Next]_vars, NEW r \in Requests, Decides(r, "rejected"),
                      Token(r) \in ours, Token(r) \notin leaving
               PROVE  clock > born[Token(r)] + Ttl
    OBVIOUS
  <2> USE SessionsAssumption DEF IInv, TypeOK, Deadlines
  <2>1. Lookup(r)
    BY WhoDecides DEF Decides
  <2>2. Token(r) \in Tokens /\ born[Token(r)] # -1 /\ Using(r)
    BY <2>1 DEF Lookup, At, Token, Using, Unique
  <2>3. mem[Token(r)] = 0 \/ Expired(Token(r))
    BY <2>1 DEF Lookup, Decides, To, At
  <2>4. CASE clock > born[Token(r)] + Ttl
    BY <2>4
  <2>5. CASE mem[Token(r)] = born[Token(r)] + Ttl
    BY <2>2, <2>3, <2>5 DEF Expired
  <2>6. QED
    BY <2>4, <2>5 DEF Held
<1>2. QED
  BY <1>1, Invariant, PTL DEF Spec, BlipHarmless

\* No session works after a complete logout or beyond its lifetime, over any number
\* of restarts and whichever store answers (Get, Delete).
THEOREM EndedStaysEnded == Spec => EndedStaysOut
<1>1. IInv /\ [Next]_vars =>
        [\A r \in Requests : Decides(r, "accepted") =>
           ~req[r].flag /\ clock <= born[Token(r)] + Ttl]_vars
  <2> SUFFICES ASSUME IInv, [Next]_vars, NEW r \in Requests, Decides(r, "accepted")
               PROVE  ~req[r].flag /\ clock <= born[Token(r)] + Ttl
    OBVIOUS
  <2> USE SessionsAssumption DEF IInv, TypeOK, Deadlines
  <2>1. Token(r) \in Tokens /\ born[Token(r)] # -1 /\ Asking(r)
    BY DEF Decides, Token, Unique, Using, Asking
  <2>2. redis[Token(r)] # 0 \/ mem[Token(r)] # 0 => ~req[r].flag
    BY <2>1 DEF Gone
  <2>3. CASE RedisGet(r) /\ clock < redis[Token(r)]
    BY <2>1, <2>2, <2>3 DEF Timely
  <2>4. CASE Lookup(r)
    <3>1. mem[Token(r)] # 0 /\ ~Expired(Token(r))
      BY <2>4 DEF Lookup, Decides, To, At
    <3>2. QED
      BY <2>1, <2>2, <3>1 DEF Timely, Expired
  <2>5. QED
    BY <2>3, <2>4, WhoDecides DEF IInv
<1>2. QED
  BY <1>1, Invariant, PTL DEF Spec, EndedStaysOut

-----------------------------------------------------------------------------
(* Hub *)

\* A socket that was seen by the hub or by a Broadcast has had its Connect, which
\* happens once: nothing registers or opens it a second time.
Connected ==
  /\ \A c \in conns : serve[c] # "none"
  /\ \A b \in Casters : \A c \in to[b] : serve[c] # "none"

\* Where socket c is in the loop of Broadcast b.
Ahead(b, c) == c \in todo[b]
InHand(b, c) == cast[b] \in {"lock", "write", "close"} /\ cur[b] = c
Closed(b, c) == cast[b] = "remove" /\ cur[b] = c /\ c \notin unclosed
Off(c) == c \notin unclosed /\ c \notin conns

Tracked ==
  \A b \in Casters : \A c \in to[b] \ got[b] :
    Ahead(b, c) \/ InHand(b, c) \/ Closed(b, c) \/ Off(c)

IdleEmpty == \A b \in Casters : cast[b] = "idle" => todo[b] = {}

SocketInv == H!TypeOK /\ H!OneWriter /\ Connected /\ Tracked /\ IdleEmpty

-----------------------------------------------------------------------------

\* No socket exists in the beginning.
LEMMA SocketInit == H!Init => SocketInv
<1> SUFFICES ASSUME H!Init PROVE SocketInv
  OBVIOUS
<1>1. H!TypeOK
  BY DEF H!Init, H!TypeOK
<1>2. H!OneWriter /\ Connected /\ Tracked /\ IdleEmpty
  BY DEF H!Init, H!OneWriter, H!Writers, Connected, Tracked, IdleEmpty
<1>3. QED
  BY <1>1, <1>2 DEF SocketInv

\* No step leaves the types.
LEMMA SocketTypeStep == H!TypeOK /\ [H!Next]_H!vars => H!TypeOK'
<1> SUFFICES ASSUME H!TypeOK, [H!Next]_H!vars PROVE H!TypeOK'
  OBVIOUS
<1> USE DEF H!TypeOK
<1>1. CASE \E c \in Conns : H!Connect(c) \/ H!Serve(c) \/ H!PeerLeaves(c)
  BY <1>1 DEF H!Connect, H!Serve, H!StartPinger, H!ReadFails, H!Deregister, H!Without, H!CloseServed,
              H!Close, H!PeerLeaves
<1>2. CASE \E c \in Conns : H!Ping(c) \/ H!PingEnds(c) \/ H!ClosePinged(c) \/ H!PingerReturns(c)
  BY <1>2 DEF H!Ping, H!PingEnds, H!ClosePinged, H!Close, H!PingerReturns
<1>3. CASE \E b \in Casters : H!Snapshot(b) \/ H!Turn(b) \/ H!Lock(b) \/ H!WriteEnds(b)
  BY <1>3 DEF H!Snapshot, H!Turn, H!Lock, H!WriteEnds, H!AfterError
<1>4. CASE \E b \in Casters : H!CloseFailed(b) \/ H!RemoveFailed(b)
  BY <1>4 DEF H!CloseFailed, H!Close, H!RemoveFailed, H!Without
<1>5. CASE UNCHANGED H!vars
  BY <1>5 DEF H!vars
<1>6. QED
  BY <1>1, <1>2, <1>3, <1>4, <1>5 DEF H!Next

\* A write begins only while nobody writes to the socket.
LEMMA WriterStep == H!TypeOK /\ H!OneWriter /\ [H!Next]_H!vars => H!OneWriter'
<1> SUFFICES ASSUME H!TypeOK, H!OneWriter, [H!Next]_H!vars, NEW c \in Conns
             PROVE  \A v, w \in H!Writers(c)' : v = w
  BY DEF H!OneWriter
<1>0. \A v, w \in H!Writers(c) : v = w
  BY DEF H!OneWriter
<1>1. CASE \E d \in Conns : H!Ping(d)
  <2> PICK d \in Conns : H!Ping(d)
    BY <1>1
  <2>1. CASE d = c
    BY <2>1 DEF H!Ping, H!Writers, H!Free, H!TypeOK
  <2>2. CASE d # c
    BY <1>0, <2>2 DEF H!Ping, H!Writers, H!TypeOK
  <2>3. QED
    BY <2>1, <2>2
<1>2. CASE \E b \in Casters : H!Lock(b)
  <2> PICK b \in Casters : H!Lock(b)
    BY <1>2
  <2>1. CASE cur[b] = c
    BY <2>1 DEF H!Lock, H!Writers, H!Free, H!TypeOK
  <2>2. CASE cur[b] # c
    BY <1>0, <2>2 DEF H!Lock, H!Writers, H!TypeOK
  <2>3. QED
    BY <2>1, <2>2
<1>3. CASE \E d \in Conns : H!Connect(d) \/ H!Serve(d) \/ H!PeerLeaves(d)
                            \/ H!PingEnds(d) \/ H!ClosePinged(d) \/ H!PingerReturns(d)
  <2>1. H!Writers(c)' \subseteq H!Writers(c)
    BY <1>3 DEF H!Connect, H!Serve, H!StartPinger, H!ReadFails, H!Deregister, H!CloseServed, H!Close,
                H!PeerLeaves, H!PingEnds, H!ClosePinged, H!PingerReturns, H!Writers, H!TypeOK
  <2>2. QED
    BY <1>0, <2>1
<1>4. CASE \E b \in Casters : H!Snapshot(b) \/ H!Turn(b) \/ H!WriteEnds(b)
                              \/ H!CloseFailed(b) \/ H!RemoveFailed(b)
  <2>1. H!Writers(c)' \subseteq H!Writers(c)
    BY <1>4 DEF H!Snapshot, H!Turn, H!WriteEnds, H!AfterError, H!CloseFailed, H!Close, H!RemoveFailed,
                H!Writers, H!TypeOK
  <2>2. QED
    BY <1>0, <2>1
<1>5. CASE UNCHANGED H!vars
  BY <1>0, <1>5 DEF H!vars, H!Writers
<1>6. QED
  BY <1>1, <1>2, <1>3, <1>4, <1>5 DEF H!Next

\* Nobody registers or sends to a socket that was not connected.
LEMMA ConnectedStep == H!TypeOK /\ Connected /\ [H!Next]_H!vars => Connected'
<1> SUFFICES ASSUME H!TypeOK, Connected, [H!Next]_H!vars PROVE Connected'
  OBVIOUS
<1> USE DEF H!TypeOK, Connected
<1>1. CASE \E c \in Conns : H!Connect(c) \/ H!Serve(c) \/ H!PeerLeaves(c)
  BY <1>1 DEF H!Connect, H!Serve, H!StartPinger, H!ReadFails, H!Deregister, H!Without, H!CloseServed,
              H!Close, H!PeerLeaves
<1>2. CASE \E c \in Conns : H!Ping(c) \/ H!PingEnds(c) \/ H!ClosePinged(c) \/ H!PingerReturns(c)
  BY <1>2 DEF H!Ping, H!PingEnds, H!ClosePinged, H!Close, H!PingerReturns
<1>3. CASE \E b \in Casters : H!Snapshot(b) \/ H!Turn(b) \/ H!Lock(b) \/ H!WriteEnds(b)
  BY <1>3 DEF H!Snapshot, H!Turn, H!Lock, H!WriteEnds
<1>4. CASE \E b \in Casters : H!CloseFailed(b) \/ H!RemoveFailed(b)
  BY <1>4 DEF H!CloseFailed, H!Close, H!RemoveFailed, H!Without
<1>5. CASE UNCHANGED H!vars
  BY <1>5 DEF H!vars
<1>6. QED
  BY <1>1, <1>2, <1>3, <1>4, <1>5 DEF H!Next

\* A Broadcast returns when nothing is before it.
LEMMA IdleStep == H!TypeOK /\ IdleEmpty /\ [H!Next]_H!vars => IdleEmpty'
<1> SUFFICES ASSUME H!TypeOK, IdleEmpty, [H!Next]_H!vars PROVE IdleEmpty'
  OBVIOUS
<1> USE DEF H!TypeOK, IdleEmpty
<1>1. CASE \E c \in Conns : H!Connect(c) \/ H!Serve(c) \/ H!PeerLeaves(c)
                            \/ H!Ping(c) \/ H!PingEnds(c) \/ H!ClosePinged(c) \/ H!PingerReturns(c)
  BY <1>1 DEF H!Connect, H!Serve, H!StartPinger, H!ReadFails, H!Deregister, H!CloseServed,
              H!PeerLeaves, H!Ping, H!PingEnds, H!ClosePinged, H!PingerReturns
<1>2. CASE \E b \in Casters : H!Snapshot(b) \/ H!Turn(b) \/ H!Lock(b) \/ H!WriteEnds(b)
                              \/ H!CloseFailed(b) \/ H!RemoveFailed(b)
  BY <1>2 DEF H!Snapshot, H!Turn, H!Lock, H!WriteEnds, H!AfterError, H!CloseFailed, H!RemoveFailed
<1>3. CASE UNCHANGED H!vars
  BY <1>3 DEF H!vars
<1>4. QED
  BY <1>1, <1>2, <1>3 DEF H!Next

\* Socket c is tracked by Broadcast b after every step.
LEMMA TrackedStep == SocketInv /\ [H!Next]_H!vars => Tracked'
<1> SUFFICES ASSUME SocketInv, [H!Next]_H!vars, NEW b \in Casters, NEW c \in to'[b] \ got'[b]
             PROVE  Ahead(b, c)' \/ InHand(b, c)' \/ Closed(b, c)' \/ Off(c)'
  BY DEF Tracked
<1> USE DEF SocketInv, H!TypeOK
<1>1. CASE H!Snapshot(b)
  BY <1>1 DEF H!Snapshot, Ahead
<1>2. CASE ~H!Snapshot(b)
  <2>0. to'[b] = to[b] /\ got[b] \subseteq got'[b]
    <3>1. CASE \E d \in Conns : H!Connect(d) \/ H!Serve(d) \/ H!PeerLeaves(d)
                                \/ H!Ping(d) \/ H!PingEnds(d) \/ H!ClosePinged(d) \/ H!PingerReturns(d)
      BY <3>1 DEF H!Connect, H!Serve, H!StartPinger, H!ReadFails, H!Deregister, H!CloseServed,
                  H!PeerLeaves, H!Ping, H!PingEnds, H!ClosePinged, H!PingerReturns
    <3>2. CASE \E a \in Casters : H!Snapshot(a)
      BY <1>2, <3>2 DEF H!Snapshot
    <3>3. CASE \E a \in Casters : H!Turn(a) \/ H!Lock(a) \/ H!WriteEnds(a)
                                  \/ H!CloseFailed(a) \/ H!RemoveFailed(a)
      BY <3>3 DEF H!Turn, H!Lock, H!WriteEnds, H!CloseFailed, H!RemoveFailed
    <3>4. CASE UNCHANGED H!vars
      BY <3>4 DEF H!vars
    <3>5. QED
      BY <3>1, <3>2, <3>3, <3>4 DEF H!Next
  <2>1. /\ c \in Conns /\ serve[c] # "none"
        /\ Ahead(b, c) \/ InHand(b, c) \/ Closed(b, c) \/ Off(c)
    BY <2>0 DEF Connected, Tracked
  <2>2. \* Sockets are opened and registered by their Connect only.
        (c \in unclosed' => c \in unclosed) /\ (c \in conns' => c \in conns)
    <3>1. CASE \E d \in Conns : H!Connect(d)
      BY <2>1, <3>1 DEF H!Connect
    <3>2. CASE \E d \in Conns : H!Serve(d) \/ H!PeerLeaves(d)
                                \/ H!Ping(d) \/ H!PingEnds(d) \/ H!ClosePinged(d) \/ H!PingerReturns(d)
      BY <3>2 DEF H!Serve, H!StartPinger, H!ReadFails, H!Deregister, H!Without, H!CloseServed, H!Close,
                  H!PeerLeaves, H!Ping, H!PingEnds, H!ClosePinged, H!PingerReturns
    <3>3. CASE \E a \in Casters : H!Snapshot(a) \/ H!Turn(a) \/ H!Lock(a) \/ H!WriteEnds(a)
                                  \/ H!CloseFailed(a) \/ H!RemoveFailed(a)
      BY <3>3 DEF H!Snapshot, H!Turn, H!Lock, H!WriteEnds, H!CloseFailed, H!Close, H!RemoveFailed, H!Without
    <3>4. CASE UNCHANGED H!vars
      BY <3>4 DEF H!vars
    <3>5. QED
      BY <3>1, <3>2, <3>3, <3>4 DEF H!Next
  <2>3. CASE Off(c)
    BY <2>2, <2>3 DEF Off
  <2>4. CASE cast'[b] = cast[b] /\ cur'[b] = cur[b] /\ todo'[b] = todo[b]
    BY <2>1, <2>2, <2>4 DEF Ahead, InHand, Closed, Off
  <2>5. CASE H!Turn(b)
    BY <2>1, <2>2, <2>5 DEF H!Turn, Ahead, InHand, Closed, Off
  <2>6. CASE H!Lock(b)
    BY <2>1, <2>2, <2>6 DEF H!Lock, Ahead, InHand, Closed, Off
  <2>7. CASE H!WriteEnds(b)
    BY <2>1, <2>2, <2>7 DEF H!WriteEnds, H!AfterError, Ahead, InHand, Closed, Off
  <2>8. CASE H!CloseFailed(b)
    BY <2>1, <2>2, <2>8 DEF H!CloseFailed, H!Close, Ahead, InHand, Closed, Off
  <2>9. CASE H!RemoveFailed(b)
    BY <2>1, <2>2, <2>9 DEF H!RemoveFailed, H!Without, Ahead, InHand, Closed, Off
  <2>10. QED
    <3>1. CASE \E d \in Conns : H!Connect(d) \/ H!Serve(d) \/ H!PeerLeaves(d)
                                \/ H!Ping(d) \/ H!PingEnds(d) \/ H!ClosePinged(d) \/ H!PingerReturns(d)
      <4>1. UNCHANGED <<cast, cur, todo>>
        BY <3>1 DEF H!Connect, H!Serve, H!StartPinger, H!ReadFails, H!Deregister, H!CloseServed,
                    H!PeerLeaves, H!Ping, H!PingEnds, H!ClosePinged, H!PingerReturns
      <4>2. QED
        BY <2>4, <4>1
    <3>2. CASE \E a \in Casters : a # b /\ (H!Snapshot(a) \/ H!Turn(a) \/ H!Lock(a) \/ H!WriteEnds(a)
                                            \/ H!CloseFailed(a) \/ H!RemoveFailed(a))
      <4>1. cast'[b] = cast[b] /\ cur'[b] = cur[b] /\ todo'[b] = todo[b]
        BY <3>2 DEF H!Snapshot, H!Turn, H!Lock, H!WriteEnds, H!CloseFailed, H!RemoveFailed
      <4>2. QED
        BY <2>4, <4>1
    <3>3. CASE UNCHANGED H!vars
      BY <2>4, <3>3 DEF H!vars
    <3>4. QED
      BY <1>2, <2>5, <2>6, <2>7, <2>8, <2>9, <3>1, <3>2, <3>3 DEF H!Next
<1>3. QED
  BY <1>1, <1>2

\* The conjunction is inductive.
LEMMA SocketInductive == SocketInv /\ [H!Next]_H!vars => SocketInv'
  BY SocketTypeStep, WriterStep, ConnectedStep, IdleStep, TrackedStep DEF SocketInv

\* The conjunction holds throughout.
LEMMA SocketInvariant == H!Spec => []SocketInv
  BY SocketInit, SocketInductive, PTL DEF H!Spec

-----------------------------------------------------------------------------

\* Every variable keeps its type, and a socket whose request is over is off the
\* hub, for any number of sockets and broadcasters.
THEOREM SocketsTyped == H!Spec => []H!TypeOK
<1>1. SocketInv => H!TypeOK
  BY DEF SocketInv
<1>2. QED
  BY <1>1, SocketInvariant, PTL

\* No two goroutines are ever in the write of one socket (wsConn.write).
THEOREM AlwaysOneWriter == H!Spec => []OneWriter
<1>1. SocketInv => OneWriter
  BY DEF SocketInv, OneWriter
<1>2. QED
  BY <1>1, SocketInvariant, PTL

\* A Broadcast that has returned has served every socket it began with, or that
\* socket is closed and off the hub (Broadcast).
THEOREM EveryAdminServed == H!Spec => []EveryAdmin
<1>1. SocketInv => EveryAdmin
  BY DEF SocketInv, Tracked, IdleEmpty, EveryAdmin, H!EveryAdmin, Ahead, InHand, Closed, Off
<1>2. QED
  BY <1>1, SocketInvariant, PTL
-----------------------------------------------------------------------------
(* What a Broadcast and a socket leave behind them *)

\* How far a Broadcast is from its next turn.
TurnOf == [idle |-> 0, loop |-> 1, remove |-> 2, close |-> 3, write |-> 4, lock |-> 5]

\* A Broadcast under way is left alone by all others and comes closer to its return
\* with each step of its own: fewer sockets before it, or closer to its next turn.
CastCloser ==
  \A b \in Casters : cast[b] # "idle" =>
    /\ todo'[b] \subseteq todo[b]
    /\ \/ todo'[b] # todo[b]
       \/ TurnOf[cast'[b]] < TurnOf[cast[b]]
       \/ cast'[b] = cast[b] /\ cur'[b] = cur[b]

\* Nothing of the socket is left.
Over(c) == serve[c] = "done" /\ c \notin conns /\ c \notin unclosed /\ ping[c] = "off"

\* What is left of a socket, from its deferred remove on: a Broadcast may still close
\* it or remove it again, nobody may register, open or ping it again.
StaysOver == \A c \in Conns : Over(c) => Over(c)'

\* The distances of the places.
LEMMA TurnOrder ==
  /\ TurnOf["idle"] = 0 /\ TurnOf["loop"] = 1 /\ TurnOf["remove"] = 2
  /\ TurnOf["close"] = 3 /\ TurnOf["write"] = 4 /\ TurnOf["lock"] = 5
  BY DEF TurnOf

\* The safety half of CastReturns: a Broadcast never begins again with a socket it is
\* through with, and no socket that joins meanwhile makes its loop longer, however
\* its writes end and whatever other goroutines do (Broadcast).
THEOREM BroadcastGoesForward == H!Spec => [][CastCloser]_H!vars
<1>1. SocketInv /\ [H!Next]_H!vars => [CastCloser]_H!vars
  <2> SUFFICES ASSUME SocketInv, H!Next, NEW b \in Casters, cast[b] # "idle"
               PROVE  /\ todo'[b] \subseteq todo[b]
                      /\ \/ todo'[b] # todo[b]
                         \/ TurnOf[cast'[b]] < TurnOf[cast[b]]
                         \/ cast'[b] = cast[b] /\ cur'[b] = cur[b]
    BY DEF CastCloser
  <2> USE TurnOrder DEF SocketInv, H!TypeOK
  <2>1. CASE \E c \in Conns : H!Connect(c) \/ H!Serve(c) \/ H!PeerLeaves(c) \/ H!Ping(c)
                              \/ H!PingEnds(c) \/ H!ClosePinged(c) \/ H!PingerReturns(c)
    BY <2>1 DEF H!Connect, H!Serve, H!StartPinger, H!ReadFails, H!Deregister, H!CloseServed,
                H!PeerLeaves, H!Ping, H!PingEnds, H!ClosePinged, H!PingerReturns
  <2>2. ASSUME NEW a \in Casters \ {b},
               H!Snapshot(a) \/ H!Turn(a) \/ H!Lock(a) \/ H!WriteEnds(a) \/ H!CloseFailed(a)
               \/ H!RemoveFailed(a)
        PROVE  todo'[b] = todo[b] /\ cast'[b] = cast[b] /\ cur'[b] = cur[b]
    BY <2>2 DEF H!Snapshot, H!Turn, H!Lock, H!WriteEnds, H!CloseFailed, H!RemoveFailed
  <2>3. CASE H!Turn(b)
    BY <2>3 DEF H!Turn
  <2>4. CASE H!Lock(b)
    BY <2>4 DEF H!Lock
  <2>5. CASE H!WriteEnds(b)
    BY <2>5 DEF H!WriteEnds, H!AfterError
  <2>6. CASE H!CloseFailed(b) \/ H!RemoveFailed(b)
    BY <2>6 DEF H!CloseFailed, H!RemoveFailed
  <2>7. ~H!Snapshot(b)
    BY DEF H!Snapshot
  <2>8. QED
    BY <2>1, <2>2, <2>3, <2>4, <2>5, <2>6, <2>7 DEF H!Next
<1>2. H!Spec => []SocketInv
  BY SocketInvariant
<1>3. QED
  BY <1>1, <1>2, PTL DEF H!Spec

\* The "for good" of NothingLeft: a socket of which nothing is left does not come back
\* as an entry of the hub, an open socket or a pinger, though a Broadcast that was
\* begun before may still have it in its hands (Serve, Broadcast).
THEOREM NothingComesBack == H!Spec => [][StaysOver]_H!vars
<1>1. SocketInv /\ [H!Next]_H!vars => [StaysOver]_H!vars
  <2> SUFFICES ASSUME SocketInv, H!Next, NEW c \in Conns, Over(c)
               PROVE  Over(c)'
    BY DEF StaysOver
  <2> USE DEF SocketInv, H!TypeOK, Over
  <2>1. CASE \E d \in Conns : H!Connect(d) \/ H!Serve(d) \/ H!PeerLeaves(d)
    BY <2>1 DEF H!Connect, H!Serve, H!StartPinger, H!ReadFails, H!Deregister, H!Without,
                H!CloseServed, H!Close, H!PeerLeaves
  <2>2. CASE \E d \in Conns : H!Ping(d) \/ H!PingEnds(d) \/ H!ClosePinged(d) \/ H!PingerReturns(d)
    BY <2>2 DEF H!Ping, H!PingEnds, H!ClosePinged, H!Close, H!PingerReturns
  <2>3. CASE \E b \in Casters : H!Snapshot(b) \/ H!Turn(b) \/ H!Lock(b) \/ H!WriteEnds(b)
    BY <2>3 DEF H!Snapshot, H!Turn, H!Lock, H!WriteEnds
  <2>4. CASE \E b \in Casters : H!CloseFailed(b) \/ H!RemoveFailed(b)
    BY <2>4 DEF H!CloseFailed, H!Close, H!RemoveFailed, H!Without
  <2>5. QED
    BY <2>1, <2>2, <2>3, <2>4 DEF H!Next
<1>2. H!Spec => []SocketInv
  BY SocketInvariant
<1>3. QED
  BY <1>1, <1>2, PTL DEF H!Spec
=============================================================================
