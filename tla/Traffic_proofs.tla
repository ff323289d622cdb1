--------------------------- MODULE Traffic_proofs ---------------------------
(***************************************************************************)
(* Proofs about module Traffic: no interleaving of the two collectors,     *)
(* restarts, crashes and deletions loses track of a byte or counts it      *)
(* twice, and all of them together do no more than module Billing allows,  *)
(* for any number of users and any bounds.                                 *)
(***************************************************************************)
EXTENDS Traffic, TLAPS

\* A collector's batch stays well typed when one delta is done.
LEMMA WrittenType ==
  ASSUME NEW c \in Collectors, NEW u \in Users, held \in [Collectors -> Bytes]
  PROVE  /\ Written(c, u) \in [Collectors -> Bytes]
         /\ \A d \in Collectors, v \in Users :
              Written(c, u)[d][v] = IF d = c /\ v = u THEN 0 ELSE held[d][v]
<1>1. [held[c] EXCEPT ![u] = 0] \in Bytes
  BY DEF Bytes
<1> QED
  BY <1>1 DEF Written, Bytes

\* What the accounting ranges over.
Books == /\ gen \in Bytes /\ counter \in Bytes /\ usage \in Bytes /\ lost \in Bytes
          /\ held \in [Collectors -> Bytes]

\* The ledger stays well typed.
LEMMA BooksStep == Books /\ [Next]_vars => Books'
<1> SUFFICES ASSUME Books, [Next]_vars PROVE Books'
  OBVIOUS
<1>z. Zero \in Bytes
  BY DEF Zero, Bytes
<1>1. ASSUME NEW u \in Users, Transfer(u) PROVE Books'
  BY <1>1 DEF Transfer, Books, Bytes
<1>2. ASSUME NEW u \in Users, DeleteClient(u) PROVE Books'
  BY <1>2 DEF DeleteClient, Books, Bytes
<1>3. CASE Crash
  BY <1>3, <1>z DEF Crash, CountersDie, Books, Bytes
<1>4. CASE Reap \/ Tick \/ Sync \/ HookReturns \/ Restart \/ Stop
  BY <1>4 DEF Reap, Tick, Sync, HookReturns, Restart, Stop, Books
<1>5. ASSUME NEW c \in Collectors, QueryStats(c) PROVE Books'
  BY <1>5, <1>z DEF QueryStats, CountersAfterRead, Books
<1>6. ASSUME NEW c \in Collectors, AnswerLost(c) PROVE Books'
  BY <1>6, <1>z DEF AnswerLost, Books, Bytes
<1>7. ASSUME NEW c \in Collectors, NEW u \in Users, Persist(c, u) PROVE Books'
  BY <1>7, WrittenType DEF Persist, Books, Bytes
<1>8. ASSUME NEW c \in Collectors, NEW u \in Users, PersistFails(c, u) PROVE Books'
  BY <1>8, WrittenType DEF PersistFails, Books, Bytes
<1>9. ASSUME NEW c \in Collectors, QueryFails(c) \/ ReadTotals(c) \/ StoreTotals(c) PROVE Books'
  BY <1>9 DEF QueryFails, ReadTotals, StoreTotals, Books
<1>10. CASE Build \/ HookDone
  BY <1>10 DEF Build, HookDone, Books
<1>11. CASE StopChild
  BY <1>11, <1>z DEF StopChild, CountersDie, Books, Bytes
<1>12. CASE Spawn
  BY <1>12 DEF Spawn, Books
<1>13. CASE UNCHANGED vars
  BY <1>13 DEF vars, Books
<1> QED
  BY <1>1, <1>2, <1>3, <1>4, <1>5, <1>6, <1>7, <1>8, <1>9, <1>10, <1>11, <1>12, <1>13
  DEF Next, Collect, Locked

\* What is kept besides the bytes.
Keeping ==
  /\ seen \in [Collectors -> Bytes] /\ live \in Bytes
  /\ present \in SUBSET Users /\ built \in SUBSET Users /\ active \in SUBSET Users
  /\ pc \in [Collectors -> {"idle", "query", "persist", "sum", "store", "sync", "wait"}]
  /\ phase \in {"free", "build", "hook", "stop", "spawn"}
  /\ caller \in {"nobody", "handler", "watchdog", "ticker", "main"}
  /\ up \in BOOLEAN /\ running \in BOOLEAN /\ stopped \in BOOLEAN

Spent ==
  /\ faults \in 0..MaxFaults /\ crashes \in 0..MaxCrashes
  /\ restarts \in 0..MaxRestarts /\ deletes \in 0..MaxDeletes

\* The bounds are never overrun.
LEMMA SpentStep == Spent /\ [Next]_vars => Spent'
<1> SUFFICES ASSUME Spent, [Next]_vars PROVE Spent'
  OBVIOUS
<1>1. CASE UNCHANGED <<faults, crashes, restarts, deletes>>
  BY <1>1 DEF Spent
<1>2. ASSUME NEW u \in Users, DeleteClient(u) PROVE Spent'
  BY <1>2, TrafficBounds DEF DeleteClient, Spent
<1>3. CASE Crash
  BY <1>3, TrafficBounds DEF Crash, Spent
<1>4. ASSUME NEW c \in Collectors, QueryFails(c) \/ AnswerLost(c) PROVE Spent'
  BY <1>4, TrafficBounds DEF QueryFails, AnswerLost, Spent
<1>5. ASSUME NEW c \in Collectors, NEW u \in Users, PersistFails(c, u) PROVE Spent'
  BY <1>5, TrafficBounds DEF PersistFails, Spent
<1>6. CASE Restart
  BY <1>6, TrafficBounds DEF Restart, Spent
<1>7. ASSUME NEW u \in Users, Transfer(u) PROVE Spent'
  BY <1>1, <1>7 DEF Transfer
<1>8. CASE Reap \/ Tick \/ Sync \/ HookReturns \/ Stop
  BY <1>1, <1>8 DEF Reap, Tick, Sync, HookReturns, Stop
<1>9. ASSUME NEW c \in Collectors, QueryStats(c) \/ ReadTotals(c) \/ StoreTotals(c)
      PROVE  Spent'
  BY <1>1, <1>9 DEF QueryStats, ReadTotals, StoreTotals
<1>10. ASSUME NEW c \in Collectors, NEW u \in Users, Persist(c, u) PROVE Spent'
  BY <1>1, <1>10 DEF Persist
<1>11. CASE Build \/ HookDone \/ StopChild \/ Spawn
  BY <1>1, <1>11 DEF Build, HookDone, StopChild, Spawn
<1>12. CASE UNCHANGED vars
  BY <1>1, <1>12 DEF vars
<1> QED
  BY <1>2, <1>3, <1>4, <1>5, <1>6, <1>7, <1>8, <1>9, <1>10, <1>11, <1>12
  DEF Next, Collect, Locked

\* The rest of the state stays well typed.
LEMMA KeepingStep == Books /\ Keeping /\ [Next]_vars => Keeping'
<1> SUFFICES ASSUME Books, Keeping, [Next]_vars PROVE Keeping'
  OBVIOUS
<1>c. Collectors = {"ticker", "hook"}
  BY DEF Collectors
<1>a. Allowed \in SUBSET Users
  BY DEF Allowed, Keeping
<1>1. ASSUME NEW u \in Users, Transfer(u) \/ DeleteClient(u) PROVE Keeping'
  BY <1>1 DEF Transfer, DeleteClient, Keeping
<1>2. CASE Crash \/ Reap
  BY <1>2 DEF Crash, CountersDie, Reap, Keeping
<1>3. CASE Tick \/ HookReturns
  BY <1>3, <1>c DEF Tick, HookReturns, Idle, Keeping
<1>4. CASE Sync
  BY <1>4, <1>c DEF Sync, Idle, Keeping
<1>5. ASSUME NEW c \in Collectors, QueryStats(c) \/ QueryFails(c) \/ AnswerLost(c)
      PROVE  Keeping'
  BY <1>5 DEF QueryStats, AfterQuery, QueryFails, AnswerLost, Idle, Keeping
<1>6. ASSUME NEW c \in Collectors, NEW u \in Users, Persist(c, u) \/ PersistFails(c, u)
      PROVE  Keeping'
  BY <1>6 DEF Persist, PersistFails, Keeping
<1>7. ASSUME NEW c \in Collectors, ReadTotals(c) PROVE Keeping'
  BY <1>7 DEF ReadTotals, Books, Keeping
<1>8. ASSUME NEW c \in Collectors, StoreTotals(c) PROVE Keeping'
  BY <1>8 DEF StoreTotals, Keeping
<1>9. CASE Restart
  BY <1>9 DEF Restart, Keeping
<1>10. CASE Stop
  BY <1>10, <1>c DEF Stop, StartHook, Keeping
<1>11. CASE Build
  BY <1>11, <1>c, <1>a DEF Build, StartHook, Unlock, Idle, Keeping
<1>12. CASE HookDone
  BY <1>12 DEF HookDone, Keeping
<1>13. CASE StopChild
  BY <1>13, <1>c DEF StopChild, CountersDie, Unlock, Idle, Keeping
<1>14. CASE Spawn
  BY <1>14, <1>c DEF Spawn, Unlock, Idle, Keeping
<1>15. CASE UNCHANGED vars
  BY <1>15 DEF vars, Keeping
<1> QED
  BY <1>1, <1>2, <1>3, <1>4, <1>5, <1>6, <1>7, <1>8, <1>9, <1>10, <1>11, <1>12, <1>13, <1>14,
     <1>15 DEF Next, Collect, Locked

\* Every variable keeps its type, and no bound is overrun.
THEOREM TypeCorrect == Spec => []TypeOK
<1>1. TypeOK <=> Books /\ Keeping /\ Spent
  BY DEF TypeOK, Books, Keeping, Spent
<1>2. Init => Books /\ Keeping /\ Spent
  <2> SUFFICES ASSUME Init PROVE Books /\ Keeping /\ Spent
    OBVIOUS
  <2>1. Zero \in Bytes
    BY DEF Zero, Bytes
  <2>2. Books
    BY <2>1 DEF Init, Books
  <2>3. Keeping
    BY <2>1 DEF Init, Keeping
  <2>4. Spent
    BY TrafficBounds DEF Init, Spent
  <2> QED
    BY <2>2, <2>3, <2>4
<1> QED
  BY <1>1, <1>2, BooksStep, KeepingStep, SpentStep, PTL DEF Spec

\* The control that the accounting rests on: the hook only runs in its phase of
\* Restart or Stop, and a ticker that restarts waits.
Control ==
  /\ pc \in [Collectors -> {"idle", "query", "persist", "sum", "store", "sync", "wait"}]
  /\ phase # "hook" => pc["hook"] = "idle"
  /\ caller = "ticker" => pc["ticker"] = "wait"

\* Every step preserves the control invariant.
LEMMA ControlStep == Control /\ [Next]_vars => Control'
<1> SUFFICES ASSUME Control, [Next]_vars PROVE Control'
  OBVIOUS
<1>c. Collectors = {"ticker", "hook"}
  BY DEF Collectors
<1>1. CASE UNCHANGED <<pc, phase, caller>>
  BY <1>1 DEF Control
<1>2. CASE Tick
  BY <1>2, <1>c DEF Tick, Control
<1>3. CASE Sync
  BY <1>3, <1>c DEF Sync, Idle, Control
<1>4. CASE HookReturns
  BY <1>4, <1>c DEF HookReturns, Idle, Control
<1>5. ASSUME NEW c \in Collectors, QueryStats(c)
      PROVE Control'
  BY <1>5, <1>c DEF QueryStats, AfterQuery, Control
<1>6. ASSUME NEW c \in Collectors, QueryFails(c) \/ AnswerLost(c) PROVE Control'
  BY <1>6, <1>c DEF QueryFails, AnswerLost, Idle, Control
<1>7. ASSUME NEW c \in Collectors, ReadTotals(c) \/ StoreTotals(c) PROVE Control'
  BY <1>7, <1>c DEF ReadTotals, StoreTotals, Control
<1>8. CASE Restart
  BY <1>8, <1>c DEF Restart, Control
<1>9. CASE Stop
  BY <1>9, <1>c DEF Stop, StartHook, Control
<1>10. CASE Build
  BY <1>10, <1>c DEF Build, StartHook, Unlock, Idle, Control
<1>11. CASE HookDone
  BY <1>11, <1>c DEF HookDone, Control
<1>12. CASE StopChild
  BY <1>12, <1>c DEF StopChild, Unlock, Idle, Control
<1>13. CASE Spawn
  BY <1>13, <1>c DEF Spawn, Unlock, Idle, Control
<1>14. ASSUME NEW u \in Users, Transfer(u) \/ DeleteClient(u) PROVE Control'
  BY <1>1, <1>14 DEF Transfer, DeleteClient
<1>15. CASE Crash \/ Reap
  BY <1>1, <1>15 DEF Crash, Reap
<1>16. ASSUME NEW c \in Collectors, NEW u \in Users, Persist(c, u) \/ PersistFails(c, u)
       PROVE Control'
  BY <1>1, <1>16 DEF Persist, PersistFails
<1>17. CASE UNCHANGED vars
  BY <1>1, <1>17 DEF vars
<1> QED
  BY <1>2, <1>3, <1>4, <1>5, <1>6, <1>7, <1>8, <1>9, <1>10, <1>11, <1>12, <1>13, <1>14, <1>15,
     <1>16, <1>17 DEF Next, Collect, Locked

\* A collector has a batch in hand only while it writes it: the read of the
\* counters never overwrites deltas that are not in Postgres yet.
Drained == \A c \in Collectors : pc[c] # "persist" => held[c] = Zero

\* Steps that leave the bytes alone and do not take a collector away from a
\* batch that is not written.
LEMMA AccountFrame ==
  ASSUME Conserved, Drained, UNCHANGED <<gen, counter, held, usage, lost>>,
         \A c \in Collectors : pc[c] = "persist" => pc'[c] = "persist" \/ held[c] = Zero
  PROVE  Conserved' /\ Drained'
  BY DEF Conserved, Drained

\* Every step moves bytes between the places without making or losing one.
LEMMA AccountStep ==
  Books /\ Control /\ Conserved /\ Drained /\ [Next]_vars => Conserved' /\ Drained'
<1> SUFFICES ASSUME Books, Control, Conserved, Drained, [Next]_vars
             PROVE  Conserved' /\ Drained'
  OBVIOUS
<1>c. Collectors = {"ticker", "hook"} /\ "ticker" \in Collectors /\ "hook" \in Collectors
  BY DEF Collectors
<1>z. \A u \in Users : Zero[u] = 0
  BY DEF Zero
<1>1. ASSUME NEW u \in Users, Transfer(u) PROVE Conserved' /\ Drained'
  BY <1>1, <1>c DEF Transfer, Conserved, Drained, Books, Bytes
<1>2. ASSUME NEW u \in Users, DeleteClient(u) PROVE Conserved' /\ Drained'
  BY <1>2, <1>c DEF DeleteClient, Conserved, Drained, Books, Bytes
<1>3. ASSUME CountersDie, UNCHANGED <<gen, held, usage>>,
             \A c \in Collectors : pc[c] = "persist" => pc'[c] = "persist"
      PROVE  Conserved' /\ Drained'
  BY <1>3, <1>c, <1>z DEF CountersDie, Conserved, Drained, Books, Bytes
<1>4. CASE Crash
  BY <1>3, <1>4 DEF Crash
<1>5. CASE StopChild
  <2>1. \A c \in Collectors : pc[c] = "persist" => pc'[c] = "persist"
    BY <1>5, <1>c DEF StopChild, Unlock, Idle, Control
  <2> QED
    BY <1>3, <1>5, <2>1 DEF StopChild
<1>6. CASE Reap \/ Tick \/ Sync \/ HookReturns \/ Restart
  BY <1>6, <1>c, AccountFrame DEF Reap, Tick, Sync, HookReturns, Restart, Idle, Control
<1>7. CASE Stop
  BY <1>7, <1>c, AccountFrame DEF Stop, StartHook, Control
<1>8. CASE Build
  BY <1>8, <1>c, AccountFrame DEF Build, StartHook, Unlock, Idle, Control
<1>9. CASE HookDone \/ Spawn
  BY <1>9, <1>c, AccountFrame DEF HookDone, Spawn, Unlock, Idle, Control
<1>10. ASSUME NEW c \in Collectors, QueryStats(c) PROVE Conserved' /\ Drained'
  <2>1. held[c] = Zero
    BY <1>10 DEF QueryStats, Drained
  <2>2. /\ held' = [held EXCEPT ![c] = counter] /\ counter' = Zero
        /\ pc' = [pc EXCEPT ![c] = "persist"] /\ UNCHANGED <<gen, usage, lost>>
    BY <1>10 DEF QueryStats, CountersAfterRead, AfterQuery
  <2>3. \A d \in Collectors : held'[d] = IF d = c THEN counter ELSE held[d]
    BY <2>2 DEF Books
  <2>4. Conserved'
    BY <1>c, <1>z, <2>1, <2>2, <2>3 DEF Conserved, Books, Bytes
  <2>5. Drained'
    BY <2>2, <2>3 DEF Drained, Control
  <2> QED
    BY <2>4, <2>5
<1>11. ASSUME NEW c \in Collectors, AnswerLost(c) PROVE Conserved' /\ Drained'
  <2>1. \A d \in Collectors : pc[d] = "persist" => pc'[d] = "persist"
    BY <1>11 DEF AnswerLost, Idle, Control
  <2> QED
    BY <1>11, <1>c, <1>z, <2>1 DEF AnswerLost, Conserved, Drained, Books, Bytes
<1>12. ASSUME NEW c \in Collectors, QueryFails(c) \/ ReadTotals(c) \/ StoreTotals(c)
       PROVE Conserved' /\ Drained'
  BY <1>12, AccountFrame DEF QueryFails, ReadTotals, StoreTotals, Idle, Control
<1>13. ASSUME NEW c \in Collectors, NEW u \in Users, Persist(c, u) \/ PersistFails(c, u)
       PROVE Conserved' /\ Drained'
  <2>1. pc[c] = "persist" /\ held' = Written(c, u) /\ UNCHANGED <<pc, gen, counter>>
    BY <1>13 DEF Persist, PersistFails
  <2>2. held \in [Collectors -> Bytes]
    BY DEF Books
  <2>3. \A d \in Collectors, v \in Users :
          held'[d][v] = IF d = c /\ v = u THEN 0 ELSE held[d][v]
    BY <2>1, <2>2, WrittenType
  <2>4. \A d \in Collectors : d # c => held'[d] = held[d]
    BY <2>1 DEF Written, Books
  <2>5. \/ usage' = [usage EXCEPT ![u] = @ + held[c][u]] /\ lost' = lost
        \/ lost' = [lost EXCEPT ![u] = @ + held[c][u]] /\ usage' = usage
    BY <1>13 DEF Persist, PersistFails
  <2>6. Conserved'
    BY <1>c, <2>1, <2>3, <2>5 DEF Conserved, Books, Bytes
  <2>7. Drained'
    BY <2>1, <2>4 DEF Drained
  <2> QED
    BY <2>6, <2>7
<1>14. CASE UNCHANGED vars
  BY <1>14, AccountFrame DEF vars
<1> QED
  BY <1>1, <1>2, <1>4, <1>5, <1>6, <1>7, <1>8, <1>9, <1>10, <1>11, <1>12, <1>13, <1>14
  DEF Next, Collect, Locked

\* No byte is lost track of or billed twice, whatever the two collectors, the
\* restarts, the crashes and the deletions do.
THEOREM EveryByteOnce == Spec => []Conserved
<1>1. Init => Books /\ Control /\ Conserved /\ Drained
  BY DEF Init, Books, Control, Conserved, Drained, Bytes, Zero, Collectors
<1> QED
  BY <1>1, BooksStep, ControlStep, AccountStep, PTL DEF Spec

-----------------------------------------------------------------------------
(* The abstract billing *)

\* The bytes on the way are a number for each user, before and after a step.
LEMMA OnTheWayType ==
  Books => /\ OnTheWay \in Bytes
           /\ \A u \in Users : OnTheWay[u] = counter[u] + held["ticker"][u] + held["hook"][u]
  BY DEF Books, OnTheWay, Bytes, Collectors

\* The same of the next state.
LEMMA OnTheWayTypeNext ==
  (Books => /\ OnTheWay \in Bytes
            /\ \A u \in Users : OnTheWay[u] = counter[u] + held["ticker"][u] + held["hook"][u])'
  BY OnTheWayType, PTL

\* Bytes on the way that a step adds to lost, and to nothing else, are given up.
LEMMA GivenUp ==
  ASSUME Books, Books', UNCHANGED <<gen, usage, present>>, lost' \in Bytes,
         \A u \in Users : /\ OnTheWay'[u] <= OnTheWay[u]
                         /\ lost'[u] = lost[u] + (OnTheWay[u] - OnTheWay'[u])
  PROVE  Abstract!GiveUp
<1>1. OnTheWay' = [u \in Users |-> OnTheWay'[u]]
  BY DEF OnTheWay
<1>2. \A u \in Users : OnTheWay'[u] \in 0..OnTheWay[u]
  BY OnTheWayType, OnTheWayTypeNext DEF Bytes
<1>3. lost' = [u \in Users |-> lost[u] + (OnTheWay[u] - OnTheWay'[u])]
  BY DEF Bytes
<1> QED
  BY <1>1, <1>2, <1>3 DEF Abstract!GiveUp

\* A step that keeps the places of the bytes is a stutter of Billing.
LEMMA NoBytesMove ==
  ASSUME UNCHANGED <<gen, counter, held, usage, lost, present>>
  PROVE  UNCHANGED Abstract!ledger
  BY DEF Abstract!ledger, OnTheWay

\* Every step of the two collectors, the child and its restarts transfers, bills or
\* gives up bytes, deletes a client, or moves no byte.
LEMMA BillingStep ==
  Books /\ Control /\ Drained /\ [Next]_vars => [Abstract!Next]_(Abstract!ledger)
<1> SUFFICES ASSUME Books, Control, Drained, [Next]_vars
             PROVE  Abstract!Next \/ UNCHANGED Abstract!ledger
  OBVIOUS
<1>b. Books'
  BY BooksStep
<1>c. Collectors = {"ticker", "hook"} /\ "ticker" \in Collectors /\ "hook" \in Collectors
  BY DEF Collectors
<1>w. OnTheWay \in Bytes /\ OnTheWay' \in Bytes
  BY <1>b, OnTheWayType, OnTheWayTypeNext
<1>x. \A u \in Users : /\ OnTheWay[u] = counter[u] + held["ticker"][u] + held["hook"][u]
                      /\ OnTheWay'[u] = counter'[u] + held'["ticker"][u] + held'["hook"][u]
  BY <1>b, OnTheWayType, OnTheWayTypeNext
<1>z. \A u \in Users : Zero[u] = 0
  BY DEF Zero
<1>1. ASSUME NEW u \in Users, Transfer(u) PROVE Abstract!Next
  <2>1. gen' = [gen EXCEPT ![u] = @ + 1] /\ counter' = [counter EXCEPT ![u] = @ + 1]
        /\ UNCHANGED <<held, usage, lost, present>>
    BY <1>1 DEF Transfer
  <2>2. \A v \in Users : OnTheWay'[v] = IF v = u THEN OnTheWay[u] + 1 ELSE OnTheWay[v]
    BY <1>c, <1>x, <2>1 DEF Books, Bytes
  <2>3. OnTheWay' = [OnTheWay EXCEPT ![u] = @ + 1]
    BY <1>w, <2>2 DEF Bytes
  <2> QED
    BY <2>1, <2>3 DEF Abstract!Next, Abstract!Transfer
<1>2. ASSUME NEW u \in Users, DeleteClient(u) PROVE Abstract!Next
  <2>1. OnTheWay' = OnTheWay
    BY <1>2 DEF DeleteClient, OnTheWay
  <2> QED
    BY <1>2, <2>1 DEF DeleteClient, Abstract!Next, Abstract!Delete
<1>3. ASSUME CountersDie, UNCHANGED <<gen, held, usage, present>> PROVE Abstract!Next
  <2>1. \A u \in Users : /\ OnTheWay'[u] <= OnTheWay[u]
                        /\ lost'[u] = lost[u] + (OnTheWay[u] - OnTheWay'[u])
    BY <1>3, <1>c, <1>x, <1>z DEF CountersDie, Books, Bytes
  <2> QED
    BY <1>3, <1>b, <2>1, GivenUp DEF Books, Abstract!Next
<1>4. CASE Crash \/ StopChild
  BY <1>3, <1>4 DEF Crash, StopChild
<1>5. CASE Reap \/ Tick \/ Sync \/ HookReturns \/ Restart \/ Stop \/ Build \/ HookDone \/ Spawn
  BY <1>5, NoBytesMove DEF Reap, Tick, Sync, HookReturns, Restart, Stop, Build, HookDone, Spawn
<1>6. ASSUME NEW c \in Collectors, QueryStats(c) PROVE UNCHANGED Abstract!ledger
  <2>1. held[c] = Zero
    BY <1>6 DEF QueryStats, Drained
  <2>2. held' = [held EXCEPT ![c] = counter] /\ counter' = Zero
        /\ UNCHANGED <<gen, usage, lost, present>>
    BY <1>6 DEF QueryStats, CountersAfterRead
  <2>3. \A d \in Collectors : held'[d] = IF d = c THEN counter ELSE held[d]
    BY <2>2 DEF Books
  <2>4. \A u \in Users : OnTheWay'[u] = OnTheWay[u]
    BY <1>c, <1>x, <1>z, <2>1, <2>2, <2>3 DEF Books, Bytes
  <2>5. OnTheWay' = OnTheWay
    BY <1>w, <2>4 DEF Bytes
  <2> QED
    BY <2>2, <2>5 DEF Abstract!ledger
<1>7. ASSUME NEW c \in Collectors, AnswerLost(c) PROVE Abstract!Next
  <2>1. \A u \in Users : /\ OnTheWay'[u] <= OnTheWay[u]
                        /\ lost'[u] = lost[u] + (OnTheWay[u] - OnTheWay'[u])
    BY <1>7, <1>c, <1>x, <1>z DEF AnswerLost, Books, Bytes
  <2>2. UNCHANGED <<gen, usage, present>>
    BY <1>7 DEF AnswerLost
  <2> QED
    BY <1>b, <2>1, <2>2, GivenUp DEF Books, Abstract!Next
<1>8. ASSUME NEW c \in Collectors, QueryFails(c) \/ ReadTotals(c) \/ StoreTotals(c)
      PROVE  UNCHANGED Abstract!ledger
  BY <1>8, NoBytesMove DEF QueryFails, ReadTotals, StoreTotals
<1>9. ASSUME NEW c \in Collectors, NEW u \in Users, Persist(c, u) \/ PersistFails(c, u)
      PROVE  Abstract!Next
  <2>1. held' = Written(c, u) /\ UNCHANGED <<gen, counter, present>> /\ held[c][u] > 0
    BY <1>9 DEF Persist, PersistFails
  <2>2. \A d \in Collectors, v \in Users :
          held'[d][v] = IF d = c /\ v = u THEN 0 ELSE held[d][v]
    BY <2>1, WrittenType DEF Books
  <2>3. held[c][u] \in Nat \ {0}
    BY <2>1 DEF Books, Bytes
  <2>4. \A v \in Users : OnTheWay'[v] = IF v = u THEN OnTheWay[v] - held[c][u] ELSE OnTheWay[v]
    BY <1>c, <1>x, <2>1, <2>2 DEF Books, Bytes
  <2>5. CASE Persist(c, u)
    <3>1. u \in present /\ lost' = lost /\ usage' = [usage EXCEPT ![u] = @ + held[c][u]]
      BY <2>5 DEF Persist
    <3>2. OnTheWay' = [OnTheWay EXCEPT ![u] = @ - held[c][u]]
      BY <1>w, <2>4 DEF Bytes
    <3>3. held[c][u] \in 1..OnTheWay[u]
      BY <1>w, <2>3, <2>4 DEF Bytes
    <3> QED
      BY <2>1, <3>1, <3>2, <3>3 DEF Abstract!Next, Abstract!Bill
  <2>6. CASE PersistFails(c, u)
    <3>1. lost' = [lost EXCEPT ![u] = @ + held[c][u]] /\ usage' = usage
      BY <2>6 DEF PersistFails
    <3>2. \A v \in Users : /\ OnTheWay'[v] <= OnTheWay[v]
                          /\ lost'[v] = lost[v] + (OnTheWay[v] - OnTheWay'[v])
      BY <1>w, <2>3, <2>4, <3>1 DEF Books, Bytes
    <3> QED
      BY <1>b, <2>1, <3>1, <3>2, GivenUp DEF Books, Abstract!Next
  <2> QED
    BY <1>9, <2>5, <2>6
<1>10. CASE UNCHANGED vars
  BY <1>10, NoBytesMove DEF vars
<1> QED
  BY <1>1, <1>2, <1>4, <1>5, <1>6, <1>7, <1>8, <1>9, <1>10 DEF Next, Collect, Locked

\* The traffic accounting implements Billing, for any users, any quota and any
\* number of faults, crashes, restarts and deletions.
THEOREM TrafficImplementsBilling == Spec => ImplementsBilling
<1>1. Init => Books /\ Control /\ Conserved /\ Drained
  BY DEF Init, Books, Control, Conserved, Drained, Bytes, Zero, Collectors
<1>2. Init => Abstract!Init
  <2> SUFFICES ASSUME Init PROVE Abstract!Init
    OBVIOUS
  <2>1. \A u \in Users : OnTheWay[u] = 0
    BY DEF Init, OnTheWay, Zero, Collectors
  <2>2. OnTheWay = Zero
    BY <2>1 DEF OnTheWay, Zero
  <2> QED
    BY <2>2 DEF Init, Abstract!Init, Abstract!Nothing, Zero
<1> QED
  BY <1>1, <1>2, BooksStep, ControlStep, AccountStep, BillingStep, PTL
  DEF Spec, ImplementsBilling, Abstract!Spec

-----------------------------------------------------------------------------
(* Cut off *)

\* No row shrinks but a deleted client's: whom LoadClients does not return it never
\* returns later, as long as the quota stays as it is.
LEMMA AllowedShrinks == Books /\ [Next]_vars => Allowed' \subseteq Allowed
<1> SUFFICES ASSUME Books, [Next]_vars PROVE Allowed' \subseteq Allowed
  OBVIOUS
<1>1. CASE UNCHANGED <<usage, present>>
  BY <1>1 DEF Allowed, WithinQuota
<1>2. ASSUME NEW u \in Users, DeleteClient(u) PROVE Allowed' \subseteq Allowed
  BY <1>2 DEF DeleteClient, Allowed, WithinQuota, Books, Bytes
<1>3. ASSUME NEW c \in Collectors, NEW u \in Users, Persist(c, u) PROVE Allowed' \subseteq Allowed
  <2>1. held[c][u] \in Nat /\ present' = present /\ usage' = [usage EXCEPT ![u] = @ + held[c][u]]
    BY <1>3 DEF Persist, Books, Bytes
  <2>2. \A v : usage'[v] = IF v = u THEN usage[u] + held[c][u] ELSE usage[v]
    BY <2>1 DEF Books, Bytes
  <2>3. \A v \in present : WithinQuota(v)' => WithinQuota(v)
    BY <2>1, <2>2, TrafficBounds DEF WithinQuota, Books, Bytes
  <2> QED
    BY <2>1, <2>3 DEF Allowed
<1>4. ASSUME NEW u \in Users, Transfer(u) PROVE UNCHANGED <<usage, present>>
  BY <1>4 DEF Transfer
<1>5. ASSUME NEW c \in Collectors, NEW u \in Users, PersistFails(c, u)
      PROVE  UNCHANGED <<usage, present>>
  BY <1>5 DEF PersistFails
<1>6. ASSUME NEW c \in Collectors,
             QueryStats(c) \/ QueryFails(c) \/ AnswerLost(c) \/ ReadTotals(c) \/ StoreTotals(c)
      PROVE  UNCHANGED <<usage, present>>
  BY <1>6 DEF QueryStats, QueryFails, AnswerLost, ReadTotals, StoreTotals
<1>7. CASE Crash \/ Reap \/ Tick \/ Sync \/ HookReturns \/ Restart \/ Stop \/ Locked
  BY <1>1, <1>7 DEF Crash, Reap, Tick, Sync, HookReturns, Restart, Stop, Locked, Build, HookDone,
                    StopChild, Spawn
<1>8. CASE UNCHANGED vars
  BY <1>1, <1>8 DEF vars
<1> QED
  BY <1>1, <1>2, <1>3, <1>4, <1>5, <1>6, <1>7, <1>8 DEF Next, Collect

\* Who is over quota or deleted and no longer served stays so: no restart, however
\* old the client set its Build read, puts such a client back into the config.
CutOff(u) == u \notin Allowed /\ u \notin active /\ u \notin built
StaysCutOff == \A u \in Users : CutOff(u) => CutOff(u)'

\* A restart serves what its own Build read, and what it read was allowed then.
LEMMA CutOffStep == Books /\ [Next]_vars => StaysCutOff
<1> SUFFICES ASSUME Books, [Next]_vars, NEW u \in Users, CutOff(u) PROVE CutOff(u)'
  BY DEF StaysCutOff
<1>1. u \notin Allowed'
  BY AllowedShrinks DEF CutOff
<1>2. CASE UNCHANGED <<active, built>>
  BY <1>1, <1>2 DEF CutOff
<1>3. CASE Build
  BY <1>1, <1>3 DEF Build, Unlock, CutOff
<1>4. CASE StopChild
  BY <1>1, <1>4 DEF StopChild, Unlock, CutOff
<1>5. CASE Spawn
  BY <1>1, <1>5 DEF Spawn, Unlock, CutOff
<1>6. ASSUME NEW v \in Users, Transfer(v) \/ DeleteClient(v) PROVE UNCHANGED <<active, built>>
  BY <1>6 DEF Transfer, DeleteClient
<1>7. ASSUME NEW c \in Collectors, NEW v \in Users, Persist(c, v) \/ PersistFails(c, v)
      PROVE  UNCHANGED <<active, built>>
  BY <1>7 DEF Persist, PersistFails
<1>8. ASSUME NEW c \in Collectors,
             QueryStats(c) \/ QueryFails(c) \/ AnswerLost(c) \/ ReadTotals(c) \/ StoreTotals(c)
      PROVE  UNCHANGED <<active, built>>
  BY <1>8 DEF QueryStats, QueryFails, AnswerLost, ReadTotals, StoreTotals
<1>9. CASE Crash \/ Reap \/ Tick \/ Sync \/ HookReturns \/ Restart \/ Stop \/ HookDone
  BY <1>2, <1>9 DEF Crash, Reap, Tick, Sync, HookReturns, Restart, Stop, HookDone
<1>10. CASE UNCHANGED vars
  BY <1>2, <1>10 DEF vars
<1> QED
  BY <1>2, <1>3, <1>4, <1>5, <1>6, <1>7, <1>8, <1>9, <1>10 DEF Next, Collect, Locked

\* The safety half of QuotaEnforced: a client that is cut off is never served again.
THEOREM CutOffForGood == Spec => [][StaysCutOff]_vars
<1>1. Init => Books
  BY DEF Init, Books, Bytes, Zero, Collectors
<1> QED
  BY <1>1, BooksStep, CutOffStep, PTL DEF Spec
=============================================================================
