-------------------------- MODULE Supervisor_proofs --------------------------
(***************************************************************************)
(* Proofs about module Supervisor, for any users, inbounds, handlers and   *)
(* bounds.  Each invariant is proved from the ones before it:              *)
(*   TypeOK -> LockInv -> ChildInv -> ConfigInv -> FreshInv                *)
(* and the properties of the runs follow from their conjunction.  What a   *)
(* waiter for the mutex and main at its end can rely on is proved from the *)
(* first three.                                                            *)
(***************************************************************************)
EXTENDS Supervisor, TLAPS

-----------------------------------------------------------------------------
(* Types *)

\* Rendering maps what Build read to a config.
LEMMA RenderType == \A b \in Builds : Render(b) \in Configs
<1> SUFFICES ASSUME NEW b \in Builds PROVE Render(b) \in Configs
  OBVIOUS
<1>1. Rendered(b) \in SUBSET Inbounds
  BY DEF Builds, Rendered, Inbounds
<1>2. \A x \in Rendered(b) : {u \in b.clients : Member(b, u, x)} \in SUBSET Users
  BY DEF Builds
<1>3. Render(b) \in [Rendered(b) -> SUBSET Users]
  BY <1>2 DEF Render
<1> QED
  BY <1>1, <1>3 DEF Configs

\* What Build renders is one of the configs for the clients it read.
LEMMA RenderingHas == \A b \in Builds : Render(b) \in Rendering[b.clients]
<1> SUFFICES ASSUME NEW b \in Builds PROVE Render(b) \in Rendering[b.clients]
  OBVIOUS
<1>1. b.clients \in SUBSET Users
  BY DEF Builds
<1>2. Rendering[b.clients] = {Render(x) : x \in {y \in Builds : y.clients = b.clients}}
  BY <1>1 DEF Rendering
<1> QED
  BY <1>2

\* A Build starts with nothing.
LEMMA NoBuildType == NoBuild \in Builds
  BY ListsAssumption DEF NoBuild, Builds

\* What the supervisor records about its children.
Children == [conf: Configs, st: ChildStates]

\* Changing the life-cycle state of one child keeps the records well typed.
LEMMA ChildUpdate ==
  ASSUME NEW n, NEW f \in [1..n -> Children], NEW j \in 1..n, NEW s \in ChildStates
  PROVE  [f EXCEPT ![j].st = s] \in [1..n -> Children]
<1>1. [f[j] EXCEPT !.st = s] \in Children
  BY DEF Children
<1> QED
  BY <1>1

\* The initial states are well typed.
LEMMA InitType == Init => TypeOK
<1> SUFFICES ASSUME Init PROVE TypeOK
  OBVIOUS
<1>1. NoBuild \in Builds
  BY NoBuildType
<1>2. Render(NoBuild) \in Configs
  BY <1>1, RenderType
<1>3. child \in [1..restarts -> [conf: Configs, st: ChildStates]]
  BY <1>2 DEF Init, ChildStates, Alive, Dead
<1>4. /\ pc \in [Goroutines -> {"idle", "saw", "load", "lock", "in", "drain", "exit"}]
      /\ job \in [Goroutines -> {"restart", "force", "stop"}]
  BY DEF Init
<1>5. restarts \in Nat /\ cur \in 0..restarts /\ step \in Steps
  BY DEF Init, Steps
<1>6. requests \in 0..MaxRequests /\ faults \in 0..MaxFaults
      /\ crashes \in 0..MaxCrashes /\ drifts \in 0..MaxDrifts
  BY BoundsAssumption DEF Init
<1> QED
  BY <1>1, <1>2, <1>3, <1>4, <1>5, <1>6 DEF Init, TypeOK

\* A committed change leaves a well-typed database.
LEMMA ChangedType == db \in Databases /\ Changed => db' \in Databases
<1> SUFFICES ASSUME db \in Databases, Changed PROVE db' \in Databases
  OBVIOUS
<1>1. \A T, S, x : S \in SUBSET T /\ x \in T => Toggle(S, x) \in SUBSET T
  BY DEF Toggle
<1>2. ASSUME NEW S \in SUBSET Builtins, db' = [db EXCEPT !.panel = S]
      PROVE db' \in Databases
  BY <1>2 DEF Databases
<1>3. ASSUME NEW u \in Users, NEW l \in Lists, NEW S \in {db.clients, Toggle(db.clients, u)},
             db' = [db EXCEPT !.clients = S, !.lists[u] = l]
      PROVE db' \in Databases
  <2>1. S \in SUBSET Users
    BY <1>1 DEF Databases
  <2>2. [db.lists EXCEPT ![u] = l] \in [Users -> Lists]
    BY DEF Databases
  <2> QED
    BY <1>3, <2>1, <2>2 DEF Databases
<1>4. ASSUME NEW t \in Tags, db' = [db EXCEPT !.customs = Toggle(@, t)]
      PROVE db' \in Databases
  <2>1. Toggle(db.customs, t) \in SUBSET Tags
    BY <1>1 DEF Databases
  <2> QED
    BY <1>4, <2>1 DEF Databases
<1> QED
  BY <1>2, <1>3, <1>4 DEF Changed, PutSettings, WriteClient, WriteInbound

\* Every step of the program keeps the state well typed.
LEMMA NextType == TypeOK /\ [Next]_vars => TypeOK'
<1> SUFFICES ASSUME TypeOK, [Next]_vars PROVE TypeOK'
  OBVIOUS
<1> USE DEF TypeOK, vars
<1>g. System \subseteq Goroutines /\ Handlers \subseteq Goroutines
  BY DEF Goroutines
<1>s. {"main", "watchdog", "collector"} \subseteq Goroutines
  BY <1>g DEF System
<1>b. NoBuild \in Builds
  BY NoBuildType
<1>r. Render(build) \in Configs
  BY RenderType
<1>u. Unlock => /\ mu' \in Goroutines \cup {"free"} /\ step' \in Steps /\ build' \in Builds
                /\ pc' \in [Goroutines -> {"idle", "saw", "load", "lock", "in", "drain", "exit"}]
                /\ job' \in [Goroutines -> {"restart", "force", "stop"}]
  BY <1>b DEF Unlock, Steps, Reading
<1>1. ASSUME NEW h \in Handlers, Commit(h) \/ CommitUnanswered(h) \/ ForceRestart(h)
      PROVE TypeOK'
  <2>1. db' \in Databases
    BY <1>1, ChangedType DEF Commit, CommitUnanswered, ForceRestart
  <2>2. h \in Goroutines
    BY <1>g
  <2>3. CASE Commit(h)
    BY <2>1, <2>2, <2>3, BoundsAssumption DEF Commit, Accepts
  <2>4. CASE CommitUnanswered(h)
    BY <2>1, <2>4, BoundsAssumption DEF CommitUnanswered, Accepts
  <2>5. CASE ForceRestart(h)
    BY <2>1, <2>2, <2>5, BoundsAssumption DEF ForceRestart, Accepts
  <2> QED
    BY <1>1, <2>3, <2>4, <2>5
<1>2. CASE Drift
  BY <1>2, BoundsAssumption DEF Drift, Databases
<1>3. ASSUME NEW g \in Goroutines, EnterRestart(g) PROVE TypeOK'
  BY <1>3 DEF EnterRestart, Steps, Reading
<1>4. CASE EnterStop
  BY <1>4, <1>s DEF EnterStop, Steps
<1>5. CASE ReadPanel \/ ReadReality \/ ReadClients \/ ReadCustoms
  <2>1. build' \in Builds
    BY <1>5 DEF ReadPanel, ReadReality, ReadClients, ReadCustoms, Builds, Databases
  <2>2. step' \in Steps
    BY <1>5 DEF ReadPanel, ReadReality, ReadClients, ReadCustoms, Steps, Reading
  <2>3. faults' \in 0..MaxFaults
    BY <1>5, BoundsAssumption DEF ReadPanel, ReadReality, ReadClients, ReadCustoms
  <2>4. CASE ReadPanel \/ ReadReality
    BY <2>1, <2>2, <2>3, <2>4 DEF ReadPanel, ReadReality
  <2>5. CASE ReadClients \/ ReadCustoms
    BY <2>1, <2>2, <2>3, <2>5 DEF ReadClients, ReadCustoms
  <2> QED
    BY <1>5, <2>4, <2>5
<1>6. CASE KeepChild
  BY <1>6, <1>u DEF KeepChild, Builds
<1>7. CASE ReplaceChild \/ PersistUsage \/ WriteConf
  BY <1>7, <1>r DEF ReplaceChild, PersistUsage, WriteConf, Steps
<1>8. CASE NothingToStop
  BY <1>8, <1>u DEF NothingToStop, Steps
<1>9. CASE SignalChild \/ KillChild
  <2>1. step' \in Steps
    BY <1>9 DEF SignalChild, KillChild, Steps
  <2>2. child' \in [1..restarts -> Children]
    <3>1. child \in [1..restarts -> Children]
      BY DEF Children
    <3>2. "dead" \in ChildStates /\ "term" \in ChildStates
      BY DEF ChildStates, Alive, Dead
    <3>3. CASE cur = 0
      BY <1>9, <3>1, <3>3 DEF SignalChild, KillChild
    <3>4. CASE cur # 0
      <4>1. cur \in 1..restarts /\ child[cur].st \in ChildStates
        BY <3>4
      <4>2. CASE SignalChild
        <5>1. PICK s \in ChildStates : child' = [child EXCEPT ![cur].st = s]
          BY <3>2, <4>1, <4>2 DEF SignalChild
        <5> QED
          BY <3>1, <4>1, <5>1, ChildUpdate
      <4>3. CASE KillChild
        BY <3>1, <3>2, <4>1, <4>3, ChildUpdate DEF KillChild
      <4> QED
        BY <1>9, <4>2, <4>3
    <3> QED
      BY <3>3, <3>4
  <2> QED
    BY <1>9, <2>1, <2>2 DEF SignalChild, KillChild, Children
<1>10. CASE ChildDone
  <2>1. cur' \in 0..restarts' /\ running' \in BOOLEAN /\ restarts' = restarts
    <3>1. cur' = 0 /\ restarts' = restarts
      BY <1>10 DEF ChildDone
    <3>2. running' \in BOOLEAN
      BY <1>10 DEF ChildDone
    <3>3. cur' \in 0..restarts'
      BY <3>1
    <3> QED
      BY <3>1, <3>2, <3>3
  <2>2. /\ mu' \in Goroutines \cup {"free"} /\ step' \in Steps /\ build' \in Builds
        /\ pc' \in [Goroutines -> {"idle", "saw", "load", "lock", "in", "drain", "exit"}]
        /\ job' \in [Goroutines -> {"restart", "force", "stop"}]
    BY <1>10, <1>u DEF ChildDone, Steps
  <2>3. UNCHANGED <<db, fingerprint, active, confFile, child, stopped, want,
                    requests, faults, crashes, drifts>>
    BY <1>10 DEF ChildDone
  <2> QED
    BY <2>1, <2>2, <2>3
<1>11. CASE Spawn
  <2>1. child' \in [1..restarts' -> [conf: Configs, st: ChildStates]]
    BY <1>11 DEF Spawn, SpawnCount, ChildStates, Alive
  <2> QED
    BY <1>11, <1>u, <1>r, <2>1 DEF Spawn, SpawnCount, SpawnBooks, Builds
<1>12. CASE BuildFails \/ WriteFails \/ SpawnFails
  BY <1>12, <1>u, BoundsAssumption DEF BuildFails, WriteFails, SpawnFails
<1>13. ASSUME NEW i \in 1..restarts, Crash(i) \/ Exit(i) \/ Reap(i) \/ Forget(i)
       PROVE TypeOK'
  <2>1. child \in [1..restarts -> Children]
    BY DEF Children
  <2>2. {"dead", "closed", "reaped"} \subseteq ChildStates
    BY DEF ChildStates, Dead
  <2>3. CASE Crash(i)
    <3>1. child' \in [1..restarts -> Children]
      BY <2>1, <2>2, <2>3, ChildUpdate DEF Crash
    <3> QED
      BY <2>3, <3>1, BoundsAssumption DEF Crash, Children
  <2>4. CASE Exit(i)
    <3>1. child' \in [1..restarts -> Children]
      BY <2>1, <2>2, <2>4, ChildUpdate DEF Exit
    <3> QED
      BY <2>4, <3>1 DEF Exit, Children
  <2>5. CASE Reap(i)
    <3>1. child' \in [1..restarts -> Children]
      BY <2>1, <2>2, <2>5, ChildUpdate DEF Reap
    <3> QED
      BY <2>5, <3>1 DEF Reap, Children
  <2>6. CASE Forget(i)
    <3>1. child' \in [1..restarts -> Children]
      BY <2>1, <2>2, <2>6, ChildUpdate DEF Forget
    <3>2. cur' \in 0..restarts
      BY <2>6 DEF Forget
    <3>3. running' \in BOOLEAN
      BY <2>6 DEF Forget
    <3> QED
      BY <2>6, <3>1, <3>2, <3>3 DEF Forget, Children
  <2> QED
    BY <1>13, <2>3, <2>4, <2>5, <2>6
<1>14. CASE WatchdogSees \/ WatchdogActs \/ CollectorLoads \/ CollectorCompares
  BY <1>14, <1>s DEF WatchdogSees, WatchdogActs, CollectorLoads, CollectorCompares, Databases
<1>15. CASE Shutdown \/ MainReturns
  BY <1>15, <1>s DEF Shutdown, MainReturns
<1>16. CASE UNCHANGED vars
  BY <1>16
<1> QED
  BY <1>1, <1>2, <1>3, <1>4, <1>5, <1>6, <1>7, <1>8, <1>9, <1>10, <1>11, <1>12, <1>13,
     <1>14, <1>15, <1>16 DEF Next, RestartOrStop

\* The state is well typed in every execution.
THEOREM TypeCorrect == Spec => []TypeOK
  BY InitType, NextType, PTL DEF Spec

-----------------------------------------------------------------------------
(* The mutex *)

\* Who holds the mutex is inside its critical section, nobody else is, and only
\* main calls Stop, which has no Build of its own.
LockInv ==
  /\ mu # "free" => pc[mu] = "in" /\ step # "off"
  /\ mu = "free" => step = "off"
  /\ \A g \in Goroutines : pc[g] = "in" => mu = g
  /\ \A g \in Goroutines : job[g] = "stop" => g = "main"
  /\ mu # "free" /\ job[mu] = "stop" => step \in {"hook", "stop", "wait"}

\* Unlocking restores the invariant of the free mutex.
LEMMA UnlockLock == TypeOK /\ LockInv /\ mu # "free" /\ Unlock => LockInv'
<1> SUFFICES ASSUME TypeOK, LockInv, mu # "free", Unlock PROVE LockInv'
  OBVIOUS
<1>1. mu' = "free" /\ step' = "off"
  BY DEF Unlock
<1>2. mu \in Goroutines
  BY DEF TypeOK
<1>3. \A g \in Goroutines : pc'[g] # "in"
  BY <1>2 DEF TypeOK, LockInv, Unlock
<1>4. \A g \in Goroutines : job'[g] = "stop" => g = "main"
  BY <1>2 DEF TypeOK, LockInv, Unlock
<1> QED
  BY <1>1, <1>3, <1>4 DEF LockInv

\* Every step preserves the invariant of the mutex.
LEMMA LockStep == TypeOK /\ LockInv /\ [Next]_vars => LockInv'
<1> SUFFICES ASSUME TypeOK, LockInv, [Next]_vars PROVE LockInv'
  OBVIOUS
<1>h. /\ Handlers \subseteq Goroutines /\ "main" \notin Handlers
      /\ "main" \in Goroutines /\ "watchdog" \in Goroutines /\ "collector" \in Goroutines
      /\ "free" \notin Goroutines
  BY HandlersAssumption DEF Goroutines, System
<1>1. ASSUME NEW h \in Handlers, Commit(h) \/ CommitUnanswered(h) \/ ForceRestart(h)
      PROVE LockInv'
  <2>1. h \in Goroutines /\ h # mu
    BY <1>1, <1>h DEF Commit, CommitUnanswered, ForceRestart, Accepts, LockInv
  <2>2. UNCHANGED <<mu, step>>
    BY <1>1 DEF Commit, CommitUnanswered, ForceRestart, Accepts
  <2>3. CASE Commit(h) \/ CommitUnanswered(h)
    BY <2>1, <2>2, <2>3 DEF Commit, CommitUnanswered, LockInv, TypeOK
  <2>4. CASE ForceRestart(h)
    BY <2>1, <2>2, <2>4 DEF ForceRestart, LockInv, TypeOK
  <2> QED
    BY <1>1, <2>3, <2>4
<1>2. CASE Drift
  BY <1>2 DEF Drift, LockInv
<1>3. ASSUME NEW g \in Goroutines, EnterRestart(g) PROVE LockInv'
  BY <1>3, <1>h DEF EnterRestart, LockInv, TypeOK
<1>4. CASE EnterStop
  BY <1>4, <1>h DEF EnterStop, LockInv, TypeOK
<1>5. CASE ReadPanel \/ ReadReality \/ ReadClients \/ ReadCustoms
  BY <1>5 DEF ReadPanel, ReadReality, ReadClients, ReadCustoms, Locked, LockInv
<1>6. CASE KeepChild
  BY <1>6, UnlockLock DEF KeepChild, Locked
<1>7. CASE ReplaceChild \/ PersistUsage \/ WriteConf
  BY <1>7 DEF ReplaceChild, PersistUsage, WriteConf, Locked, LockInv
<1>8. CASE NothingToStop
  <2>1. CASE job[mu] = "stop"
    BY <1>8, <2>1, UnlockLock DEF NothingToStop, Locked
  <2>2. CASE job[mu] # "stop"
    BY <1>8, <2>2 DEF NothingToStop, Locked, LockInv
  <2> QED
    BY <2>1, <2>2
<1>9. CASE SignalChild \/ KillChild
  BY <1>9 DEF SignalChild, KillChild, Locked, LockInv
<1>10. CASE ChildDone
  <2>1. CASE job[mu] = "stop"
    BY <1>10, <2>1, UnlockLock DEF ChildDone, Locked
  <2>2. CASE job[mu] # "stop"
    BY <1>10, <2>2 DEF ChildDone, Locked, LockInv
  <2> QED
    BY <2>1, <2>2
<1>11. CASE Spawn
  BY <1>11, UnlockLock DEF Spawn, Locked
<1>12. CASE BuildFails \/ WriteFails \/ SpawnFails
  BY <1>12, UnlockLock DEF BuildFails, WriteFails, SpawnFails, Locked
<1>13. ASSUME NEW i \in 1..restarts, Crash(i) \/ Exit(i) \/ Reap(i) \/ Forget(i)
       PROVE LockInv'
  BY <1>13 DEF Crash, Exit, Reap, Forget, LockInv
<1>14. CASE WatchdogSees \/ WatchdogActs
  BY <1>14, <1>h DEF WatchdogSees, WatchdogActs, LockInv, TypeOK
<1>15. CASE CollectorLoads \/ CollectorCompares
  BY <1>15, <1>h DEF CollectorLoads, CollectorCompares, LockInv, TypeOK
<1>16. CASE Shutdown \/ MainReturns
  BY <1>16, <1>h DEF Shutdown, MainReturns, LockInv, TypeOK
<1>17. CASE UNCHANGED vars
  BY <1>17 DEF vars, LockInv
<1> QED
  BY <1>1, <1>2, <1>3, <1>4, <1>5, <1>6, <1>7, <1>8, <1>9, <1>10, <1>11, <1>12, <1>13,
     <1>14, <1>15, <1>16, <1>17 DEF Next, RestartOrStop

\* The mutex protects the critical section in every execution.
THEOREM LockCorrect == Spec => []LockInv
<1>1. Init => LockInv
  BY HandlersAssumption DEF Init, LockInv, Goroutines, System
<1> QED
  BY <1>1, TypeCorrect, LockStep, PTL DEF Spec

-----------------------------------------------------------------------------
(* The children *)

\* running says whether there is a current child, which its reaper has not
\* forgotten; Restart has one while it waits and none when it spawns; and no
\* other child is alive.
ChildInv ==
  /\ running <=> cur # 0
  /\ cur # 0 => child[cur].st # "reaped"
  /\ step = "wait" => cur # 0
  /\ step = "spawn" => cur = 0
  /\ OneEngine

\* Steps that leave the children and cur alone, and do not move into stopLocked
\* or spawnLocked.
LEMMA ChildFrame ==
  ASSUME ChildInv, UNCHANGED <<cur, running, restarts, child>>,
         step' \notin {"wait", "spawn"} \/ step' = step
  PROVE  ChildInv'
  BY DEF ChildInv, OneEngine

\* Every step preserves the invariant of the children.
LEMMA ChildStep == TypeOK /\ LockInv /\ ChildInv /\ [Next]_vars => ChildInv'
<1> SUFFICES ASSUME TypeOK, LockInv, ChildInv, [Next]_vars PROVE ChildInv'
  OBVIOUS
<1>a. "reaped" \notin Alive /\ "closed" \notin Alive /\ "dead" \notin Alive
      /\ "live" \in Alive /\ "term" \in Alive
  BY DEF Alive
<1>u. Unlock => step' = "off"
  BY DEF Unlock
<1>1. ASSUME NEW h \in Handlers, Commit(h) \/ CommitUnanswered(h) \/ ForceRestart(h)
      PROVE ChildInv'
  BY <1>1, ChildFrame DEF Commit, CommitUnanswered, ForceRestart, Accepts
<1>2. CASE Drift
  BY <1>2, ChildFrame DEF Drift
<1>3. ASSUME NEW g \in Goroutines, EnterRestart(g) PROVE ChildInv'
  BY <1>3, ChildFrame DEF EnterRestart
<1>4. CASE EnterStop
  BY <1>4, ChildFrame DEF EnterStop
<1>5. CASE ReadPanel \/ ReadReality \/ ReadClients \/ ReadCustoms
  BY <1>5, ChildFrame DEF ReadPanel, ReadReality, ReadClients, ReadCustoms
<1>6. CASE KeepChild
  BY <1>6, <1>u, ChildFrame DEF KeepChild
<1>7. CASE ReplaceChild \/ PersistUsage \/ WriteConf
  BY <1>7, ChildFrame DEF ReplaceChild, PersistUsage, WriteConf
<1>8. CASE NothingToStop
  BY <1>8, <1>u DEF NothingToStop, ChildInv, OneEngine
<1>9. CASE SignalChild
  <2>1. cur \in 1..restarts
    BY <1>9 DEF SignalChild, TypeOK
  <2>2. child' = [child EXCEPT ![cur].st = IF child[cur].st = "live" THEN "term" ELSE child[cur].st]
        /\ step' = "wait" /\ UNCHANGED <<cur, running, restarts>>
    BY <1>9 DEF SignalChild
  <2>3. \A i \in 1..restarts : i # cur => child'[i] = child[i]
    BY <2>2 DEF TypeOK
  <2>4. child'[cur].st # "reaped"
    BY <2>1, <2>2 DEF TypeOK, ChildInv
  <2> QED
    BY <2>1, <2>2, <2>3, <2>4 DEF ChildInv, OneEngine
<1>10. CASE KillChild
  <2>1. step = "wait" /\ cur # 0 /\ child[cur].st = "term"
    BY <1>10 DEF KillChild, Locked, ChildInv
  <2>2. cur \in 1..restarts
    BY <2>1 DEF TypeOK
  <2>3. child' = [child EXCEPT ![cur].st = "dead"] /\ UNCHANGED <<step, cur, running, restarts>>
    BY <1>10 DEF KillChild
  <2> QED
    BY <2>1, <2>2, <2>3, <1>a DEF ChildInv, OneEngine, TypeOK
<1>11. CASE ChildDone
  <2>1. cur' = 0 /\ ~running' /\ UNCHANGED <<restarts, child>> /\ step' # "wait"
    BY <1>11, <1>u DEF ChildDone
  <2>2. child[cur].st = "closed"
    BY <1>11 DEF ChildDone, ChildGone
  <2>3. \A i \in 1..restarts : child[i].st \notin Alive
    BY <2>2, <1>a DEF ChildInv, OneEngine
  <2> QED
    BY <2>1, <2>3 DEF ChildInv, OneEngine
<1>12. CASE Spawn
  <2>1. cur = 0 /\ \A i \in 1..restarts : child[i].st \notin Alive
    BY <1>12 DEF Spawn, Locked, ChildInv, OneEngine
  <2>2. restarts' = restarts + 1 /\ cur' = restarts + 1 /\ running' /\ step' = "off"
    BY <1>12, <1>u DEF Spawn, SpawnCount
  <2>3. child' = [i \in 1..(restarts + 1) |->
                    IF i \in 1..restarts THEN child[i] ELSE [conf |-> confFile, st |-> "live"]]
    BY <1>12 DEF Spawn
  <2>4. child'[restarts + 1].st = "live"
    BY <2>3 DEF TypeOK
  <2>5. \A i \in 1..restarts' : child'[i].st \in Alive => i = cur'
    BY <2>1, <2>2, <2>3 DEF TypeOK
  <2> QED
    BY <2>2, <2>4, <2>5 DEF ChildInv, OneEngine, TypeOK
<1>13. CASE BuildFails \/ WriteFails \/ SpawnFails
  BY <1>13, <1>u, ChildFrame DEF BuildFails, WriteFails, SpawnFails
<1>14. ASSUME NEW i \in 1..restarts, Crash(i) \/ Exit(i) \/ Reap(i)
       PROVE ChildInv'
  <2>1. PICK s \in {"dead", "closed"} : child' = [child EXCEPT ![i].st = s]
    BY <1>14 DEF Crash, Exit, Reap
  <2>2. UNCHANGED <<step, cur, running, restarts>>
    BY <1>14 DEF Crash, Exit, Reap
  <2>3. \A j \in 1..restarts : child'[j].st = IF j = i THEN s ELSE child[j].st
    BY <2>1 DEF TypeOK
  <2>4. cur # 0 => cur \in 1..restarts
    BY DEF TypeOK
  <2> QED
    BY <2>2, <2>3, <2>4, <1>a DEF ChildInv, OneEngine
<1>15. ASSUME NEW i \in 1..restarts, Forget(i) PROVE ChildInv'
  <2>1. child' = [child EXCEPT ![i].st = "reaped"] /\ child[i].st = "closed" /\ step = "off"
    BY <1>15 DEF Forget, LockInv
  <2>2. UNCHANGED <<step, restarts>>
    BY <1>15 DEF Forget
  <2>3. \A j \in 1..restarts : child'[j].st = IF j = i THEN "reaped" ELSE child[j].st
    BY <2>1 DEF TypeOK
  <2>4. CASE cur = i
    <3>1. cur' = 0 /\ ~running'
      BY <1>15, <2>4 DEF Forget, IsCurrent
    <3> QED
      BY <2>1, <2>2, <2>3, <2>4, <3>1, <1>a DEF ChildInv, OneEngine
  <2>5. CASE cur # i
    <3>1. UNCHANGED <<cur, running>>
      BY <1>15, <2>5 DEF Forget, IsCurrent
    <3>2. cur # 0 => cur \in 1..restarts
      BY DEF TypeOK
    <3> QED
      BY <2>1, <2>2, <2>3, <2>5, <3>1, <3>2, <1>a DEF ChildInv, OneEngine
  <2> QED
    BY <2>4, <2>5
<1>16. CASE WatchdogSees \/ WatchdogActs \/ CollectorLoads \/ CollectorCompares
  BY <1>16, ChildFrame DEF WatchdogSees, WatchdogActs, CollectorLoads, CollectorCompares
<1>17. CASE Shutdown \/ MainReturns
  BY <1>17, ChildFrame DEF Shutdown, MainReturns
<1>18. CASE UNCHANGED vars
  BY <1>18, ChildFrame DEF vars
<1> QED
  BY <1>1, <1>2, <1>3, <1>4, <1>5, <1>6, <1>7, <1>8, <1>9, <1>10, <1>11, <1>12, <1>13,
     <1>14, <1>15, <1>16, <1>17, <1>18 DEF Next, RestartOrStop

\* The initial states satisfy the invariant of the children.
LEMMA ChildInit == Init => ChildInv
  BY DEF Init, ChildInv, OneEngine

\* At most one Xray is alive, and it is the one the supervisor knows.
THEOREM OneEngineAlways == Spec => []OneEngine
<1>1. ChildInv => OneEngine
  BY DEF ChildInv
<1> QED
  BY <1>1, ChildInit, TypeCorrect, LockCorrect, ChildStep, PTL DEF Spec

\* The invariant of the children holds in every execution.
THEOREM ChildCorrect == Spec => []ChildInv
  BY ChildInit, TypeCorrect, LockCorrect, ChildStep, PTL DEF Spec

-----------------------------------------------------------------------------
(* The configuration of the child *)

\* fingerprint and active describe the running child; xray.json holds the new
\* config when the child is replaced; and a child is only replaced without
\* force when the rendered config differs from its own.
ConfigInv ==
  /\ FingerprintHonest
  /\ ActiveHonest
  /\ step \in {"stop", "wait", "spawn"} /\ job[mu] # "stop" => confFile = Render(build)
  /\ step \in {"hook", "write", "stop"} /\ job[mu] = "restart" /\ running =>
       Render(build) # fingerprint

\* The running child and what is known about it stay the same.
SameChild ==
  /\ UNCHANGED <<cur, running, fingerprint, active>>
  /\ running => child'[cur].conf = child[cur].conf

\* Steps that keep the child and the bookkeeping, inside or outside the
\* critical section.
LEMMA ConfigFrame ==
  ASSUME ConfigInv, SameChild,
         \/ step' \notin {"hook", "write", "stop", "wait", "spawn"}
         \/ UNCHANGED <<mu, step, build, confFile>> /\ job'[mu] = job[mu]
  PROVE  ConfigInv'
<1>1. FingerprintHonest' /\ ActiveHonest'
  BY DEF ConfigInv, SameChild, FingerprintHonest, ActiveHonest
<1>2. CASE step' \notin {"hook", "write", "stop", "wait", "spawn"}
  BY <1>1, <1>2 DEF ConfigInv
<1>3. CASE /\ UNCHANGED <<mu, step, build, confFile>>
           /\ step # "off" => job'[mu] = job[mu]
  BY <1>1, <1>3 DEF ConfigInv, SameChild, Render
<1> QED
  BY <1>2, <1>3

\* Every step preserves the invariant of the configuration.
LEMMA ConfigStep ==
  TypeOK /\ LockInv /\ ChildInv /\ ConfigInv /\ [Next]_vars => ConfigInv'
<1> SUFFICES ASSUME TypeOK, LockInv, ChildInv, ConfigInv, [Next]_vars PROVE ConfigInv'
  OBVIOUS
<1>u. Unlock => step' = "off"
  BY DEF Unlock
<1>c. running => cur \in 1..restarts
  BY DEF ChildInv, TypeOK
<1>s. UNCHANGED <<cur, running, restarts, child, fingerprint, active>> => SameChild
  BY DEF SameChild
<1>h. Handlers \subseteq Goroutines /\ "free" \notin Goroutines /\ "main" \in Goroutines
  BY HandlersAssumption DEF Goroutines, System
<1>1. ASSUME NEW h \in Handlers, Commit(h) \/ CommitUnanswered(h) \/ ForceRestart(h)
      PROVE ConfigInv'
  <2>1. h # mu
    BY <1>1, <1>h DEF Commit, CommitUnanswered, ForceRestart, Accepts, LockInv
  <2>2. UNCHANGED <<mu, step, build, confFile>>
    BY <1>1 DEF Commit, CommitUnanswered, ForceRestart, Accepts
  <2>3. UNCHANGED <<cur, running, restarts, child, fingerprint, active>>
    BY <1>1 DEF Commit, CommitUnanswered, ForceRestart, Accepts
  <2>4. step # "off" => job'[mu] = job[mu]
    BY <1>1, <2>1 DEF Commit, CommitUnanswered, ForceRestart, TypeOK, LockInv
  <2> QED
    BY <1>s, <2>2, <2>3, <2>4, ConfigFrame
<1>2. CASE Drift
  BY <1>2, <1>s, ConfigFrame DEF Drift
<1>3. ASSUME NEW g \in Goroutines, EnterRestart(g) PROVE ConfigInv'
  BY <1>3, <1>s, ConfigFrame DEF EnterRestart
<1>4. CASE EnterStop
  <2>1. job'["main"] = "stop" /\ mu' = "main" /\ step' = "hook"
    BY <1>4 DEF EnterStop
  <2>2. FingerprintHonest' /\ ActiveHonest'
    BY <1>4 DEF EnterStop, ConfigInv, FingerprintHonest, ActiveHonest
  <2> QED
    BY <2>1, <2>2 DEF ConfigInv
<1>5. CASE ReadPanel \/ ReadReality \/ ReadClients \/ ReadCustoms
  BY <1>5, <1>s, ConfigFrame DEF ReadPanel, ReadReality, ReadClients, ReadCustoms
<1>6. CASE KeepChild
  <2>1. Render(build) = fingerprint /\ active' = build.clients
        /\ UNCHANGED <<fingerprint, cur, running, child>> /\ step' = "off"
    BY <1>6, <1>u DEF KeepChild, SameConfig
  <2>2. FingerprintHonest'
    BY <2>1 DEF ConfigInv, FingerprintHonest
  <2>3. Render(build) \in Rendering[build.clients]
    BY RenderingHas DEF TypeOK
  <2>4. ActiveHonest'
    BY <2>1, <2>3 DEF ConfigInv, FingerprintHonest, ActiveHonest
  <2> QED
    BY <2>1, <2>2, <2>4 DEF ConfigInv
<1>7. CASE ReplaceChild
  <2>1. job[mu] = "restart" /\ running => Render(build) # fingerprint
    BY <1>7 DEF ReplaceChild, SameConfig
  <2>2. step' = "hook" /\ UNCHANGED <<job, mu, build, fingerprint, active, cur, running, child>>
    BY <1>7 DEF ReplaceChild
  <2> QED
    BY <2>1, <2>2 DEF ConfigInv, FingerprintHonest, ActiveHonest, Render
<1>8. CASE PersistUsage
  <2>1. step = "hook" /\ step' \in {"stop", "write"} /\ (step' = "stop" => job[mu] = "stop")
        /\ UNCHANGED <<job, mu, build, fingerprint, active, cur, running, child>>
    BY <1>8 DEF PersistUsage, Locked
  <2> QED
    BY <2>1 DEF ConfigInv, FingerprintHonest, ActiveHonest, Render
<1>9. CASE WriteConf
  <2>1. step = "write" /\ step' = "stop" /\ confFile' = Render(build)
        /\ UNCHANGED <<job, mu, build, fingerprint, active, cur, running, child>>
    BY <1>9 DEF WriteConf, Locked
  <2> QED
    BY <2>1 DEF ConfigInv, FingerprintHonest, ActiveHonest, Render
<1>10. CASE NothingToStop
  <2>1. SameChild
    BY <1>10, <1>s DEF NothingToStop
  <2>2. CASE job[mu] = "stop"
    BY <1>10, <1>u, <2>1, <2>2, ConfigFrame DEF NothingToStop
  <2>3. CASE job[mu] # "stop"
    <3>1. step = "stop" /\ step' = "spawn" /\ UNCHANGED <<job, mu, build, confFile>>
      BY <1>10, <2>3 DEF NothingToStop, Locked
    <3> QED
      BY <2>1, <3>1, <2>3 DEF ConfigInv, SameChild, FingerprintHonest, ActiveHonest, Render
  <2> QED
    BY <2>2, <2>3
<1>11. CASE SignalChild
  <2>1. SameChild
    BY <1>11 DEF SignalChild, SameChild, TypeOK
  <2>2. step = "stop" /\ step' = "wait" /\ UNCHANGED <<job, mu, build, confFile>>
    BY <1>11 DEF SignalChild, Locked
  <2> QED
    BY <2>1, <2>2 DEF ConfigInv, SameChild, FingerprintHonest, ActiveHonest, Render
<1>12. CASE KillChild
  <2>1. SameChild
    BY <1>12 DEF KillChild, SameChild, TypeOK
  <2>2. UNCHANGED <<job, mu, step, build, confFile>>
    BY <1>12 DEF KillChild
  <2> QED
    BY <2>1, <2>2, ConfigFrame
<1>13. CASE ChildDone
  <2>1. ~running' /\ step = "wait" /\ UNCHANGED confFile
    BY <1>13 DEF ChildDone, Locked
  <2>2. \/ step' = "off"
        \/ step' = "spawn" /\ job[mu] # "stop" /\ UNCHANGED <<job, mu, build>>
    BY <1>13, <1>u DEF ChildDone
  <2> QED
    BY <2>1, <2>2 DEF ConfigInv, FingerprintHonest, ActiveHonest, Render
<1>14. CASE Spawn
  <2>1. step = "spawn" /\ step' = "off" /\ cur' = restarts + 1
    BY <1>14, <1>u DEF Spawn, Locked
  <2>2. fingerprint' = Render(build) /\ active' = build.clients
    BY <1>14 DEF Spawn, SpawnBooks
  <2>3. child'[restarts + 1].conf = confFile
    BY <1>14 DEF Spawn, TypeOK
  <2>4. confFile = Render(build)
    <3>1. mu # "free" /\ job[mu] # "stop"
      BY <1>14, <2>1 DEF Spawn, Locked, LockInv
    <3> QED
      BY <2>1, <3>1 DEF ConfigInv
  <2>5. Render(build) \in Rendering[build.clients]
    BY RenderingHas DEF TypeOK
  <2> QED
    BY <2>1, <2>2, <2>3, <2>4, <2>5 DEF ConfigInv, FingerprintHonest, ActiveHonest
<1>15. CASE BuildFails \/ WriteFails \/ SpawnFails
  BY <1>15, <1>u, <1>s, ConfigFrame DEF BuildFails, WriteFails, SpawnFails
<1>16. ASSUME NEW i \in 1..restarts, Crash(i) \/ Exit(i) \/ Reap(i)
       PROVE ConfigInv'
  <2>1. PICK s \in {"dead", "closed"} : child' = [child EXCEPT ![i].st = s]
    BY <1>16 DEF Crash, Exit, Reap
  <2>2. UNCHANGED <<job, mu, step, build, confFile, cur, running, fingerprint, active>>
    BY <1>16 DEF Crash, Exit, Reap
  <2>3. SameChild
    BY <1>c, <2>1, <2>2 DEF SameChild, TypeOK
  <2> QED
    BY <2>2, <2>3, ConfigFrame
<1>17. ASSUME NEW i \in 1..restarts, Forget(i) PROVE ConfigInv'
  <2>1. child' = [child EXCEPT ![i].st = "reaped"] /\ step = "off"
        /\ UNCHANGED <<step, fingerprint, active>>
    BY <1>17 DEF Forget, LockInv
  <2>2. CASE cur = i
    BY <1>17, <2>1, <2>2 DEF Forget, IsCurrent, ConfigInv, FingerprintHonest, ActiveHonest
  <2>3. CASE cur # i
    <3>1. UNCHANGED <<cur, running>>
      BY <1>17, <2>3 DEF Forget, IsCurrent
    <3>2. SameChild
      BY <1>c, <2>1, <2>3, <3>1 DEF SameChild, TypeOK
    <3> QED
      BY <2>1, <3>2, ConfigFrame
  <2> QED
    BY <2>2, <2>3
<1>18. CASE WatchdogSees \/ WatchdogActs \/ CollectorLoads \/ CollectorCompares
  BY <1>18, <1>s, ConfigFrame DEF WatchdogSees, WatchdogActs, CollectorLoads, CollectorCompares
<1>19. CASE Shutdown \/ MainReturns
  <2>1. pc["main"] # "in"
    BY <1>19 DEF Shutdown, MainReturns
  <2>2. mu # "main"
    BY <2>1, <1>h DEF LockInv
  <2>3. step # "off" => job'[mu] = job[mu]
    BY <1>19, <2>2 DEF Shutdown, MainReturns, TypeOK, LockInv
  <2>4. UNCHANGED <<mu, step, build, confFile, cur, running, restarts, child, fingerprint, active>>
    BY <1>19 DEF Shutdown, MainReturns
  <2> QED
    BY <1>s, <2>3, <2>4, ConfigFrame
<1>20. CASE UNCHANGED vars
  BY <1>20, <1>s, ConfigFrame DEF vars
<1> QED
  BY <1>1, <1>2, <1>3, <1>4, <1>5, <1>6, <1>7, <1>8, <1>9, <1>10, <1>11, <1>12, <1>13, <1>14,
     <1>15, <1>16, <1>17, <1>18, <1>19, <1>20 DEF Next, RestartOrStop

\* The initial states satisfy the invariant of the configuration.
LEMMA ConfigInit == Init => ConfigInv
  BY DEF Init, ConfigInv, FingerprintHonest, ActiveHonest

\* The invariant of the configuration holds in every execution.
THEOREM ConfigCorrect == Spec => []ConfigInv
  BY ConfigInit, TypeCorrect, LockCorrect, ChildCorrect, ConfigStep, PTL DEF Spec

\* What Restart compares with is the config of the running child.
THEOREM FingerprintAlwaysHonest == Spec => []FingerprintHonest
<1>1. ConfigInv => FingerprintHonest
  BY DEF ConfigInv
<1> QED
  BY <1>1, ConfigCorrect, PTL

\* What the collector compares with is the set of clients that the running child's
\* config was rendered for: nobody else has credentials in it.
THEOREM ActiveAlwaysHonest == Spec => []ActiveHonest
<1>1. ConfigInv => ActiveHonest
  BY DEF ConfigInv
<1> QED
  BY <1>1, ConfigCorrect, PTL

-----------------------------------------------------------------------------
(* No lost update *)

\* Nothing failed, no client lapsed, and no handler has yet to enter Restart.
Clean == faults = 0 /\ drifts = 0 /\ ~Pending

AfterCustoms == {"render", "hook", "write", "stop", "wait", "spawn"}
AfterClients == AfterCustoms \cup {"customs"}
AfterReality == AfterClients \cup {"clients"}
AfterPanel == AfterReality \cup {"reality"}

\* What Build has read so far is what the database holds now.
BuildFresh ==
  /\ step \in AfterPanel => build.panel = db.panel
  /\ step \in AfterReality => build.reality = TRUE
  /\ step \in AfterClients => build.clients = db.clients /\ build.lists = db.lists
  /\ step \in AfterCustoms => build.customs = db.customs

\* In a clean state the running child is current when the mutex is free, and so
\* is the Build of whoever holds it (Stop has none).
FreshInv ==
  Clean =>
    /\ running /\ mu = "free" => child[cur].conf = Current
    /\ mu # "free" /\ job[mu] # "stop" => BuildFresh

\* A complete fresh Build renders the config the database calls for.
LEMMA FreshBuildCurrent ==
  TypeOK /\ BuildFresh /\ step \in AfterCustoms => Render(build) = Current
<1> SUFFICES ASSUME TypeOK, BuildFresh, step \in AfterCustoms PROVE Render(build) = Current
  OBVIOUS
<1>1. /\ build.panel = db.panel /\ build.reality = TRUE
      /\ build.clients = db.clients /\ build.lists = db.lists /\ build.customs = db.customs
  BY DEF BuildFresh, AfterPanel, AfterReality, AfterClients
<1> DEFINE w == [panel |-> db.panel, reality |-> TRUE, clients |-> db.clients,
                 lists |-> db.lists, customs |-> db.customs]
<1>2. build = w
  BY <1>1 DEF TypeOK, Builds
<1> QED
  BY <1>2 DEF Current, Wanted

\* Changes of the database are announced by a pending handler or a spent bound.
LEMMA PendingCommit ==
  ASSUME TypeOK, NEW h \in Handlers, Commit(h)
  PROVE  ~Clean'
<1>1. h \in Goroutines
  BY DEF Goroutines
<1>2. pc'[h] = "lock" /\ job'[h] = "restart"
  BY <1>1 DEF Commit, TypeOK
<1> QED
  BY <1>2 DEF Clean, Pending

\* A pending handler stays pending until it enters Restart itself.
LEMMA CleanFrame ==
  ASSUME \A h \in Handlers : pc[h] = "lock" => pc'[h] = pc[h] /\ job'[h] = job[h],
         faults' = faults, drifts' = drifts, Clean'
  PROVE  Clean
  BY DEF Clean, Pending

\* The holder that unlocks was not pending.
LEMMA CleanUnlock ==
  ASSUME TypeOK, LockInv, mu # "free", Unlock
  PROVE  \A h \in Handlers : pc[h] = "lock" => pc'[h] = pc[h] /\ job'[h] = job[h]
<1>1. pc[mu] = "in"
  BY DEF LockInv
<1>2. Handlers \subseteq Goroutines
  BY DEF Goroutines
<1> QED
  BY <1>1, <1>2 DEF Unlock, TypeOK

\* Steps that leave the database, the child's config and the Build alone.
LEMMA FreshFrame ==
  ASSUME FreshInv, Clean' => Clean, UNCHANGED <<db, mu, step, build, cur, running>>,
         running => child'[cur].conf = child[cur].conf,
         mu # "free" => job'[mu] = job[mu]
  PROVE  FreshInv'
  BY DEF FreshInv, BuildFresh, Current, Wanted

\* Every step preserves the freshness invariant.
LEMMA FreshStep ==
  TypeOK /\ LockInv /\ ChildInv /\ ConfigInv /\ FreshInv /\ [Next]_vars => FreshInv'
<1> SUFFICES ASSUME TypeOK, LockInv, ChildInv, ConfigInv, FreshInv, [Next]_vars
             PROVE  FreshInv'
  OBVIOUS
<1>n. faults \in Nat /\ drifts \in Nat
  BY BoundsAssumption DEF TypeOK
<1>h. /\ Handlers \subseteq Goroutines /\ "free" \notin Goroutines /\ "main" \in Goroutines
      /\ Handlers \cap System = {}
  BY HandlersAssumption DEF Goroutines, System
<1>k. "main" \notin Handlers /\ "watchdog" \notin Handlers /\ "collector" \notin Handlers
  BY <1>h DEF System
<1>u. Unlock => mu' = "free" /\ step' = "off"
  BY DEF Unlock
<1>c. running => cur \in 1..restarts
  BY DEF ChildInv, TypeOK
<1>f. faults' = faults + 1 \/ drifts' = drifts + 1 => ~Clean'
  BY <1>n DEF Clean
<1>q. UNCHANGED <<pc, job, faults, drifts>> /\ Clean' => Clean
  BY DEF Clean, Pending
<1>1. ASSUME NEW h \in Handlers, Commit(h) PROVE FreshInv'
  BY <1>1, PendingCommit DEF FreshInv
<1>2. ASSUME NEW h \in Handlers, CommitUnanswered(h) PROVE FreshInv'
  BY <1>2, <1>f DEF CommitUnanswered, FreshInv
<1>3. ASSUME NEW h \in Handlers, ForceRestart(h) PROVE FreshInv'
  <2>1. pc[h] = "idle" /\ UNCHANGED <<db, mu, step, build, cur, running, child, faults, drifts>>
    BY <1>3 DEF ForceRestart, Accepts
  <2>2. h # mu
    BY <1>h, <2>1 DEF LockInv
  <2>3. \A g \in Goroutines : g # h => pc'[g] = pc[g] /\ job'[g] = job[g]
    BY <1>3 DEF ForceRestart, TypeOK
  <2>4. \A g \in Handlers : pc[g] = "lock" => pc'[g] = pc[g] /\ job'[g] = job[g]
    BY <1>h, <2>1, <2>3
  <2>5. mu # "free" => job'[mu] = job[mu]
    BY <2>2, <2>3 DEF TypeOK
  <2> QED
    BY <2>1, <2>4, <2>5, CleanFrame, FreshFrame
<1>4. CASE Drift
  BY <1>4, <1>f DEF Drift, FreshInv
<1>5. ASSUME NEW g \in Goroutines, EnterRestart(g) PROVE FreshInv'
  <2>1. mu' # "free" /\ step' = "panel"
    BY <1>5, <1>h DEF EnterRestart
  <2> QED
    BY <2>1 DEF FreshInv, BuildFresh, AfterPanel, AfterReality, AfterClients, AfterCustoms
<1>6. CASE EnterStop
  <2>1. mu' # "free" /\ job'[mu'] = "stop"
    BY <1>6, <1>h DEF EnterStop
  <2> QED
    BY <2>1 DEF FreshInv
<1>7. CASE ReadPanel \/ ReadClients \/ ReadCustoms
  <2>1. UNCHANGED <<db, pc, job, mu, cur, running, child, faults, drifts>> /\ mu # "free"
    BY <1>7 DEF ReadPanel, ReadClients, ReadCustoms, Locked
  <2>2. Clean' /\ job[mu] # "stop" => BuildFresh
    BY <2>1, <1>q DEF FreshInv
  <2>3. CASE ReadPanel
    BY <2>1, <2>2, <2>3 DEF ReadPanel, Locked, FreshInv, BuildFresh, AfterPanel, AfterReality,
                            AfterClients, AfterCustoms, TypeOK, Builds
  <2>4. CASE ReadClients
    BY <2>1, <2>2, <2>4 DEF ReadClients, Locked, FreshInv, BuildFresh, AfterPanel, AfterReality,
                            AfterClients, AfterCustoms, TypeOK, Builds
  <2>5. CASE ReadCustoms
    BY <2>1, <2>2, <2>5 DEF ReadCustoms, Locked, FreshInv, BuildFresh, AfterPanel, AfterReality,
                            AfterClients, AfterCustoms, TypeOK, Builds
  <2> QED
    BY <1>7, <2>3, <2>4, <2>5
<1>8. CASE ReadReality
  <2>1. UNCHANGED <<db, pc, job, mu, cur, running, child, drifts>> /\ mu # "free"
        /\ step = "reality" /\ step' = "clients"
    BY <1>8 DEF ReadReality, Locked
  <2>2. CASE faults' = faults + 1
    BY <2>2, <1>f DEF FreshInv
  <2>3. CASE build' = [build EXCEPT !.reality = TRUE] /\ faults' = faults
    <3>1. Clean' /\ job[mu] # "stop" => BuildFresh
      BY <2>1, <2>3, <1>q DEF FreshInv
    <3> QED
      BY <2>1, <2>3, <3>1 DEF FreshInv, BuildFresh, AfterPanel, AfterReality,
                              AfterClients, AfterCustoms, TypeOK, Builds
  <2> QED
    BY <1>8, <2>2, <2>3 DEF ReadReality
<1>9. CASE KeepChild
  <2>1. UNCHANGED <<db, cur, running, child, faults, drifts>> /\ mu # "free" /\ step = "render"
        /\ Unlock /\ Render(build) = fingerprint /\ running /\ job[mu] # "stop"
    BY <1>9 DEF KeepChild, Locked, SameConfig, LockInv
  <2>2. Clean' => Clean
    BY <2>1, CleanUnlock, CleanFrame
  <2>3. Clean => BuildFresh
    BY <2>1 DEF FreshInv
  <2>4. Clean => child[cur].conf = Current
    BY <2>1, <2>3, FreshBuildCurrent DEF ConfigInv, FingerprintHonest, AfterCustoms
  <2> QED
    BY <1>u, <2>1, <2>2, <2>4 DEF FreshInv, Current, Wanted
<1>10. CASE ReplaceChild \/ PersistUsage \/ WriteConf \/ SignalChild \/ KillChild
  <2>1. UNCHANGED <<db, pc, job, mu, build, faults, drifts>> /\ mu # "free"
        /\ step \in AfterCustoms /\ step' \in AfterCustoms
    BY <1>10 DEF ReplaceChild, PersistUsage, WriteConf, SignalChild, KillChild, Locked, AfterCustoms
  <2>2. Clean' /\ job[mu] # "stop" => BuildFresh
    BY <2>1, <1>q DEF FreshInv
  <2> QED
    BY <2>1, <2>2 DEF FreshInv, BuildFresh, AfterPanel, AfterReality, AfterClients
<1>11. CASE NothingToStop \/ ChildDone
  <2>1. UNCHANGED <<db, faults, drifts>> /\ mu # "free" /\ step \in AfterCustoms /\ ~running'
    BY <1>11 DEF NothingToStop, ChildDone, Locked, AfterCustoms, ChildInv
  <2>2. CASE Unlock
    BY <1>u, <2>1, <2>2 DEF FreshInv
  <2>3. CASE step' = "spawn" /\ UNCHANGED <<pc, job, mu, build>>
    <3>1. Clean' /\ job[mu] # "stop" => BuildFresh
      BY <2>1, <2>3, <1>q DEF FreshInv
    <3> QED
      BY <2>1, <2>3, <3>1
      DEF FreshInv, BuildFresh, AfterPanel, AfterReality, AfterClients, AfterCustoms
  <2> QED
    BY <1>11, <2>2, <2>3 DEF NothingToStop, ChildDone
<1>12. CASE Spawn
  <2>1. UNCHANGED <<db, faults, drifts>> /\ mu # "free" /\ step = "spawn" /\ Unlock
        /\ cur' = restarts + 1
    BY <1>12 DEF Spawn, Locked
  <2>2. job[mu] # "stop"
    BY <2>1 DEF LockInv
  <2>3. child'[restarts + 1].conf = confFile
    BY <1>12 DEF Spawn, TypeOK
  <2>4. confFile = Render(build)
    BY <2>1, <2>2 DEF ConfigInv
  <2>5. Clean' => Clean
    BY <2>1, CleanUnlock, CleanFrame
  <2>6. Clean => Render(build) = Current
    BY <2>1, <2>2, FreshBuildCurrent DEF FreshInv, AfterCustoms
  <2>7. Clean' => child'[cur'].conf = Current'
    BY <2>1, <2>3, <2>4, <2>5, <2>6 DEF Current, Wanted
  <2> QED
    BY <1>u, <2>1, <2>7 DEF FreshInv
<1>13. CASE BuildFails \/ WriteFails \/ SpawnFails
  BY <1>13, <1>f DEF BuildFails, WriteFails, SpawnFails, FreshInv
<1>14. ASSUME NEW i \in 1..restarts, Crash(i) \/ Exit(i) \/ Reap(i)
       PROVE FreshInv'
  <2>1. PICK s \in {"dead", "closed"} : child' = [child EXCEPT ![i].st = s]
    BY <1>14 DEF Crash, Exit, Reap
  <2>2. UNCHANGED <<db, pc, job, mu, step, build, cur, running, faults, drifts>>
    BY <1>14 DEF Crash, Exit, Reap
  <2>3. running => child'[cur].conf = child[cur].conf
    BY <1>c, <2>1 DEF TypeOK
  <2> QED
    BY <1>q, <2>2, <2>3, FreshFrame
<1>15. ASSUME NEW i \in 1..restarts, Forget(i) PROVE FreshInv'
  <2>1. child' = [child EXCEPT ![i].st = "reaped"] /\ mu = "free"
        /\ UNCHANGED <<db, pc, job, mu, step, build, faults, drifts>>
    BY <1>15 DEF Forget
  <2>2. CASE cur = i
    <3>1. ~running'
      BY <1>15, <2>2 DEF Forget, IsCurrent
    <3> QED
      BY <2>1, <3>1 DEF FreshInv
  <2>3. CASE cur # i
    <3>1. UNCHANGED <<cur, running>>
      BY <1>15, <2>3 DEF Forget, IsCurrent
    <3>2. running => child'[cur].conf = child[cur].conf
      BY <1>c, <2>1, <2>3 DEF TypeOK
    <3> QED
      BY <1>q, <2>1, <3>1, <3>2, FreshFrame
  <2> QED
    BY <2>2, <2>3
<1>16. CASE WatchdogSees \/ WatchdogActs \/ CollectorLoads \/ CollectorCompares
  <2>1. UNCHANGED <<db, job, mu, step, build, cur, running, child, faults, drifts>>
    BY <1>16 DEF WatchdogSees, WatchdogActs, CollectorLoads, CollectorCompares
  <2>2. \A g \in Handlers : pc'[g] = pc[g]
    BY <1>16, <1>h, <1>k DEF WatchdogSees, WatchdogActs, CollectorLoads, CollectorCompares, TypeOK
  <2>3. Clean' => Clean
    BY <2>1, <2>2 DEF Clean, Pending
  <2> QED
    BY <2>1, <2>3, FreshFrame
<1>17. CASE Shutdown \/ MainReturns
  <2>1. UNCHANGED <<db, mu, step, build, cur, running, child, faults, drifts>>
    BY <1>17 DEF Shutdown, MainReturns
  <2>2. \A g \in Goroutines : g # "main" => pc'[g] = pc[g] /\ job'[g] = job[g]
    BY <1>17 DEF Shutdown, MainReturns, TypeOK
  <2>3. mu # "main"
    BY <1>17, <1>h DEF Shutdown, MainReturns, LockInv
  <2>4. Clean' => Clean
    BY <1>h, <1>k, <2>1, <2>2 DEF Clean, Pending
  <2>5. mu # "free" => job'[mu] = job[mu]
    BY <2>2, <2>3 DEF TypeOK
  <2> QED
    BY <2>1, <2>4, <2>5, FreshFrame
<1>18. CASE UNCHANGED vars
  <2>1. UNCHANGED <<db, pc, job, mu, step, build, cur, running, child, faults, drifts>>
    BY <1>18 DEF vars
  <2> QED
    BY <1>q, <2>1, FreshFrame
<1> QED
  BY <1>1, <1>2, <1>3, <1>4, <1>5, <1>6, <1>7, <1>8, <1>9, <1>10, <1>11, <1>12, <1>13, <1>14,
     <1>15, <1>16, <1>17, <1>18 DEF Next, RestartOrStop

\* No lost update: without failures and lapses, the running child has the config
\* the database calls for whenever nobody holds the mutex or waits to announce a
\* change.
THEOREM AlwaysFresh == Spec => []Fresh
<1>1. Init => FreshInv
  BY DEF Init, FreshInv
<1>2. FreshInv => Fresh
  BY DEF FreshInv, Fresh, Clean
<1> QED
  BY <1>1, <1>2, TypeCorrect, LockCorrect, ChildCorrect, ConfigCorrect, FreshStep, PTL DEF Spec

-----------------------------------------------------------------------------
(* Action properties and the abstract engine *)

\* Restart(false) never signals a child that runs the config it rendered.
THEOREM NeverNeedless == Spec => NoNeedlessRestart
<1>1. TypeOK /\ LockInv /\ ChildInv /\ ConfigInv /\ [Next]_vars => [InterruptsForCause]_vars
  <2> SUFFICES ASSUME TypeOK, LockInv, ChildInv, ConfigInv, Next,
                      NEW i \in 1..restarts, child[i].st = "live", child'[i].st = "term"
               PROVE  job[mu] \in {"force", "stop"} \/ Render(build) # child[i].conf
    BY DEF InterruptsForCause
  <2>1. SignalChild
    <3>1. child' # child
      OBVIOUS
    <3>2. ~Spawn
      BY DEF Spawn, TypeOK
    <3>3. ~\E j \in 1..restarts : Crash(j) \/ Exit(j) \/ Reap(j) \/ Forget(j)
      <4>1. SUFFICES ASSUME NEW j \in 1..restarts, Crash(j) \/ Exit(j) \/ Reap(j) \/ Forget(j)
                     PROVE  FALSE
        OBVIOUS
      <4>2. PICK s \in {"dead", "closed", "reaped"} : child' = [child EXCEPT ![j].st = s]
        BY <4>1 DEF Crash, Exit, Reap, Forget
      <4>3. child'[i].st = IF i = j THEN s ELSE child[i].st
        BY <4>2 DEF TypeOK
      <4> QED
        BY <4>3
    <3>4. ~KillChild
      BY DEF KillChild, TypeOK
    <3>5. CASE \E h \in Handlers : Commit(h) \/ CommitUnanswered(h) \/ ForceRestart(h)
      BY <3>1, <3>5 DEF Commit, CommitUnanswered, ForceRestart, Accepts
    <3>6. CASE Drift \/ EnterStop \/ \E g \in Goroutines : EnterRestart(g)
      BY <3>1, <3>6 DEF Drift, EnterStop, EnterRestart
    <3>7. CASE ReadPanel \/ ReadReality \/ ReadClients \/ ReadCustoms \/ KeepChild \/ ReplaceChild
               \/ PersistUsage \/ WriteConf \/ NothingToStop \/ ChildDone
      BY <3>1, <3>7 DEF ReadPanel, ReadReality, ReadClients, ReadCustoms, KeepChild, ReplaceChild,
                       PersistUsage, WriteConf, NothingToStop, ChildDone
    <3>8. CASE BuildFails \/ WriteFails \/ SpawnFails
      BY <3>1, <3>8 DEF BuildFails, WriteFails, SpawnFails
    <3>9. CASE WatchdogSees \/ WatchdogActs \/ CollectorLoads \/ CollectorCompares \/ Shutdown
               \/ MainReturns
      BY <3>1, <3>9 DEF WatchdogSees, WatchdogActs, CollectorLoads, CollectorCompares, Shutdown,
                       MainReturns
    <3> QED
      BY <3>2, <3>3, <3>4, <3>5, <3>6, <3>7, <3>8, <3>9 DEF Next, RestartOrStop
  <2>2. i = cur /\ running /\ step = "stop" /\ mu \in Goroutines
    BY <2>1 DEF SignalChild, Locked, ChildInv, OneEngine, Alive, TypeOK
  <2>3. fingerprint = child[cur].conf
    BY <2>2 DEF ConfigInv, FingerprintHonest
  <2>4. job[mu] = "restart" => Render(build) # fingerprint
    BY <2>2 DEF ConfigInv
  <2> QED
    BY <2>2, <2>3, <2>4 DEF TypeOK
<1> QED
  BY <1>1, TypeCorrect, LockCorrect, ChildCorrect, ConfigCorrect, PTL
  DEF Spec, NoNeedlessRestart

\* One step of the supervisor is a launch, a death or nothing for the engine.
LEMMA EngineStep ==
  TypeOK /\ LockInv /\ ChildInv /\ [Next]_vars =>
    [Abstract!Next]_<<restarts, AliveChildren>>
<1> SUFFICES ASSUME TypeOK, LockInv, ChildInv, [Next]_vars,
                    ~UNCHANGED <<restarts, AliveChildren>>
             PROVE  Abstract!Next
  OBVIOUS
<1>a. "reaped" \notin Alive /\ "closed" \notin Alive /\ "dead" \notin Alive
      /\ "live" \in Alive /\ "term" \in Alive
  BY DEF Alive
<1>1. ~UNCHANGED <<restarts, child>>
  BY DEF AliveChildren
<1>2. \A i, j \in 1..restarts : i \in AliveChildren /\ j \in AliveChildren => i = j
  BY DEF ChildInv, OneEngine, AliveChildren
<1>d. ASSUME NEW i \in 1..restarts, NEW s \in {"dead", "closed", "reaped"},
             child' = [child EXCEPT ![i].st = s], restarts' = restarts
      PROVE  Abstract!Next
  <2>1. \A j \in 1..restarts : child'[j].st = IF j = i THEN s ELSE child[j].st
    BY <1>d DEF TypeOK
  <2>2. AliveChildren' = AliveChildren \ {i}
    BY <1>a, <1>d, <2>1 DEF AliveChildren
  <2>3. AliveChildren = {i}
    <3>1. i \in AliveChildren
      BY <1>d, <2>2
    <3> QED
      BY <1>2, <3>1 DEF AliveChildren
  <2> QED
    BY <1>d, <2>2, <2>3 DEF Abstract!Next, Abstract!Die
<1>3. CASE SignalChild
  <2>1. cur \in 1..restarts
    BY <1>3 DEF SignalChild, TypeOK
  <2>2. child' = [child EXCEPT ![cur].st = IF child[cur].st = "live" THEN "term" ELSE child[cur].st]
        /\ restarts' = restarts
    BY <1>3 DEF SignalChild
  <2>3. \A i \in 1..restarts : child'[i].st \in Alive <=> child[i].st \in Alive
    BY <1>a, <2>1, <2>2 DEF TypeOK
  <2>4. AliveChildren' = AliveChildren
    BY <2>2, <2>3 DEF AliveChildren
  <2> QED
    BY <2>2, <2>4
<1>4. CASE KillChild
  <2>1. cur \in 1..restarts
    BY <1>4 DEF KillChild, Locked, ChildInv, TypeOK
  <2> QED
    BY <1>4, <1>d, <2>1 DEF KillChild
<1>5. CASE Spawn
  <2>1. AliveChildren = {}
    BY <1>5 DEF Spawn, Locked, ChildInv, OneEngine, AliveChildren
  <2>2. restarts' = restarts + 1
    BY <1>5 DEF Spawn, SpawnCount
  <2>3. \A i \in 1..restarts : child'[i] = child[i]
    BY <1>5 DEF Spawn, TypeOK
  <2>4. child'[restarts + 1].st = "live"
    BY <1>5 DEF Spawn, TypeOK
  <2>5. \A i \in 1..(restarts + 1) : child'[i].st \in Alive <=> i = restarts + 1
    BY <1>a, <2>1, <2>3, <2>4 DEF AliveChildren, TypeOK
  <2>6. AliveChildren' = {restarts + 1}
    BY <2>2, <2>5 DEF AliveChildren, TypeOK
  <2> QED
    BY <2>1, <2>2, <2>6 DEF Abstract!Next, Abstract!Launch
<1>6. ASSUME NEW i \in 1..restarts, Crash(i) \/ Exit(i) \/ Reap(i) \/ Forget(i)
      PROVE  Abstract!Next
  BY <1>6, <1>d DEF Crash, Exit, Reap, Forget
<1>7. CASE \E h \in Handlers : Commit(h) \/ CommitUnanswered(h) \/ ForceRestart(h)
  BY <1>1, <1>7 DEF Commit, CommitUnanswered, ForceRestart, Accepts
<1>8. CASE Drift \/ EnterStop \/ \E g \in Goroutines : EnterRestart(g)
  BY <1>1, <1>8 DEF Drift, EnterStop, EnterRestart
<1>9. CASE ReadPanel \/ ReadReality \/ ReadClients \/ ReadCustoms \/ KeepChild \/ ReplaceChild
           \/ PersistUsage \/ WriteConf \/ NothingToStop \/ ChildDone
  BY <1>1, <1>9 DEF ReadPanel, ReadReality, ReadClients, ReadCustoms, KeepChild, ReplaceChild,
                   PersistUsage, WriteConf, NothingToStop, ChildDone
<1>10. CASE BuildFails \/ WriteFails \/ SpawnFails
  BY <1>1, <1>10 DEF BuildFails, WriteFails, SpawnFails
<1>11. CASE WatchdogSees \/ WatchdogActs \/ CollectorLoads \/ CollectorCompares \/ Shutdown
            \/ MainReturns
  BY <1>1, <1>11 DEF WatchdogSees, WatchdogActs, CollectorLoads, CollectorCompares, Shutdown,
                    MainReturns
<1>12. CASE UNCHANGED vars
  BY <1>1, <1>12 DEF vars
<1> QED
  BY <1>3, <1>4, <1>5, <1>6, <1>7, <1>8, <1>9, <1>10, <1>11, <1>12 DEF Next, RestartOrStop

\* The supervisor implements the engine it promises: one instance at a time, a
\* new one only after the old one is gone, none coming back.
THEOREM SupervisorImplementsEngine == Spec => ImplementsEngine
<1>1. Init => Abstract!Init
  BY DEF Init, Abstract!Init, AliveChildren
<1> QED
  BY <1>1, EngineStep, TypeCorrect, LockCorrect, ChildCorrect, PTL
  DEF Spec, ImplementsEngine, Abstract!Spec

-----------------------------------------------------------------------------
(* The way out of the mutex *)

\* Who waits for its child has signalled it: the child is not alive unless SIGTERM
\* was sent to it, and its reaper has not got past the mutex.
WaitInv == step = "wait" => child[cur].st \in {"term", "dead", "closed"}

\* Every step preserves it: while Restart or Stop waits, no other goroutine can
\* replace the child, and the child only goes on to its end.
LEMMA WaitStep == TypeOK /\ LockInv /\ ChildInv /\ WaitInv /\ [Next]_vars => WaitInv'
<1> SUFFICES ASSUME TypeOK, LockInv, ChildInv, WaitInv, [Next]_vars, step' = "wait"
             PROVE  child'[cur'].st \in {"term", "dead", "closed"}
  BY DEF WaitInv
<1>1. CASE SignalChild
  <2>1. cur \in 1..restarts /\ child[cur].st # "reaped" /\ cur' = cur
    BY <1>1 DEF SignalChild, TypeOK, ChildInv
  <2>2. child'[cur].st = IF child[cur].st = "live" THEN "term" ELSE child[cur].st
    BY <1>1, <2>1 DEF SignalChild, TypeOK
  <2>3. child[cur].st \in ChildStates
    BY <2>1 DEF TypeOK
  <2> QED
    BY <2>1, <2>2, <2>3 DEF ChildStates, Alive, Dead
<1>2. ASSUME step = "wait", cur' = cur, UNCHANGED child PROVE child'[cur'].st \in {"term", "dead", "closed"}
  BY <1>2 DEF WaitInv
<1>3. ASSUME step = "wait", cur' = cur, NEW i \in 1..restarts, NEW s \in {"dead", "closed"},
             child' = [child EXCEPT ![i].st = s]
      PROVE  child'[cur'].st \in {"term", "dead", "closed"}
  <2>1. cur \in 1..restarts
    BY <1>3 DEF ChildInv, TypeOK
  <2>2. child'[cur].st = IF i = cur THEN s ELSE child[cur].st
    BY <1>3, <2>1 DEF TypeOK
  <2> QED
    BY <1>3, <2>2 DEF WaitInv
<1>4. CASE KillChild
  <2>1. cur \in 1..restarts /\ step = "wait" /\ cur' = cur
    BY <1>4 DEF KillChild, Locked, ChildInv, TypeOK
  <2> QED
    BY <1>3, <1>4, <2>1 DEF KillChild
<1>5. ASSUME NEW i \in 1..restarts, Crash(i) \/ Exit(i) \/ Reap(i)
      PROVE  child'[cur'].st \in {"term", "dead", "closed"}
  BY <1>3, <1>5 DEF Crash, Exit, Reap
<1>6. ASSUME NEW i \in 1..restarts, Forget(i) PROVE FALSE
  BY <1>6 DEF Forget, LockInv
<1>7. CASE \E h \in Handlers : Commit(h) \/ CommitUnanswered(h) \/ ForceRestart(h)
  BY <1>2, <1>7 DEF Commit, CommitUnanswered, ForceRestart, Accepts
<1>8. CASE Drift \/ EnterStop \/ \E g \in Goroutines : EnterRestart(g)
  BY <1>2, <1>8 DEF Drift, EnterStop, EnterRestart
<1>9. CASE ReadPanel \/ ReadReality \/ ReadClients \/ ReadCustoms \/ KeepChild \/ ReplaceChild
           \/ PersistUsage \/ WriteConf \/ NothingToStop \/ ChildDone
  BY <1>9 DEF ReadPanel, ReadReality, ReadClients, ReadCustoms, KeepChild, ReplaceChild,
              PersistUsage, WriteConf, NothingToStop, ChildDone, Unlock
<1>10. CASE BuildFails \/ WriteFails \/ SpawnFails \/ Spawn
  BY <1>10 DEF BuildFails, WriteFails, SpawnFails, Spawn, Unlock
<1>11. CASE WatchdogSees \/ WatchdogActs \/ CollectorLoads \/ CollectorCompares \/ Shutdown
            \/ MainReturns
  BY <1>2, <1>11 DEF WatchdogSees, WatchdogActs, CollectorLoads, CollectorCompares, Shutdown,
                     MainReturns
<1>12. CASE UNCHANGED vars
  BY <1>2, <1>12 DEF vars
<1> QED
  BY <1>1, <1>4, <1>5, <1>6, <1>7, <1>8, <1>9, <1>10, <1>11, <1>12 DEF Next, RestartOrStop

\* Restart and Stop wait only for a child that was told to go.
THEOREM WaitsOnlyForTheDying == Spec => []WaitInv
<1>1. Init => WaitInv
  BY DEF Init, WaitInv
<1> QED
  BY <1>1, TypeCorrect, LockCorrect, ChildCorrect, WaitStep, PTL DEF Spec

\* How far the holder of the mutex is from Unlock, counted in its own steps and,
\* while it waits, in those of the child it waits for and of that child's reaper.
Stations == [panel |-> 12, reality |-> 11, clients |-> 10, customs |-> 9, render |-> 8,
             hook |-> 7, write |-> 6, stop |-> 5, spawn |-> 1, off |-> 0]
Waits == [live |-> 4, term |-> 4, dead |-> 3, closed |-> 2, reaped |-> 2]
Ahead == IF step = "wait" THEN Waits[child[cur].st] ELSE Stations[step]

\* The steps that bring it there: its own, and p.done being closed by the reaper.
HolderMoves == RestartOrStop \/ (step = "wait" /\ Reap(cur))

\* Nobody but its holder gives the mutex away, no step of any goroutine puts the
\* holder further from Unlock, and each of the steps it waits for brings it closer.
GoesForward ==
  mu # "free" => \/ mu' = "free"
                 \/ /\ mu' = mu /\ Ahead' <= Ahead
                    /\ HolderMoves => Ahead' < Ahead

\* Where the stations are.
LEMMA StationsApart ==
  /\ Stations["panel"] = 12 /\ Stations["reality"] = 11 /\ Stations["clients"] = 10
  /\ Stations["customs"] = 9 /\ Stations["render"] = 8 /\ Stations["hook"] = 7
  /\ Stations["write"] = 6 /\ Stations["stop"] = 5 /\ Stations["spawn"] = 1
  /\ Waits["live"] = 4 /\ Waits["term"] = 4 /\ Waits["dead"] = 3 /\ Waits["closed"] = 2
  /\ Waits["reaped"] = 2
  BY DEF Stations, Waits

\* A step of the holder releases the mutex or brings it closer to Unlock.
LEMMA HolderAdvances ==
  TypeOK /\ ChildInv /\ RestartOrStop => mu' = "free" \/ (mu' = mu /\ Ahead' < Ahead)
<1> SUFFICES ASSUME TypeOK, ChildInv, RestartOrStop, mu' # "free"
             PROVE  mu' = mu /\ Ahead' < Ahead
  OBVIOUS
<1> USE StationsApart
<1>u. ~Unlock
  BY DEF Unlock
<1>1. CASE ReadPanel \/ ReadReality \/ ReadClients \/ ReadCustoms
  BY <1>1 DEF ReadPanel, ReadReality, ReadClients, ReadCustoms, Locked, Ahead
<1>2. CASE ReplaceChild \/ PersistUsage \/ WriteConf
  BY <1>2 DEF ReplaceChild, PersistUsage, WriteConf, Locked, Ahead
<1>3. CASE NothingToStop
  BY <1>u, <1>3 DEF NothingToStop, Locked, Ahead
<1>4. CASE SignalChild
  <2>1. child' \in [1..restarts -> [conf: Configs, st: ChildStates]] /\ cur \in 1..restarts
    <3>1. cur \in 1..restarts
      BY <1>4 DEF SignalChild, TypeOK
    <3>2. PICK s \in ChildStates : child' = [child EXCEPT ![cur].st = s]
      BY <1>4, <3>1 DEF SignalChild, TypeOK, ChildStates, Alive
    <3> QED
      BY <3>1, <3>2, ChildUpdate DEF TypeOK, Children
  <2>2. child'[cur].st \in ChildStates
    BY <2>1
  <2>3. step = "stop" /\ step' = "wait" /\ cur' = cur /\ mu' = mu
    BY <1>4 DEF SignalChild, Locked
  <2>4. Waits[child'[cur].st] < 5
    BY <2>2 DEF ChildStates, Alive, Dead
  <2> QED
    BY <2>3, <2>4 DEF Ahead
<1>5. CASE KillChild
  <2>1. cur \in 1..restarts /\ step = "wait" /\ step' = step /\ cur' = cur /\ mu' = mu
        /\ child[cur].st = "term"
    BY <1>5 DEF KillChild, Locked, ChildInv, TypeOK
  <2>2. child'[cur].st = "dead"
    BY <1>5, <2>1 DEF KillChild, TypeOK
  <2> QED
    BY <2>1, <2>2 DEF Ahead
<1>6. CASE ChildDone
  BY <1>u, <1>6 DEF ChildDone, ChildGone, Locked, Ahead
<1>7. CASE KeepChild \/ Spawn
  BY <1>u, <1>7 DEF KeepChild, Spawn
<1> QED
  BY <1>1, <1>2, <1>3, <1>4, <1>5, <1>6, <1>7 DEF RestartOrStop

\* A child that dies, or is reaped, never puts the one who waits for it back.
LEMMA DyingAdvances ==
  ASSUME TypeOK, ChildInv, NEW i \in 1..restarts, Crash(i) \/ Exit(i) \/ Reap(i)
  PROVE  /\ mu' = mu /\ Ahead' <= Ahead
         /\ step = "wait" /\ i = cur /\ Reap(i) => Ahead' < Ahead
<1> USE StationsApart
<1>1. UNCHANGED <<mu, step, cur, restarts>>
  BY DEF Crash, Exit, Reap
<1>2. CASE step # "wait"
  <2>1. Ahead' = Ahead /\ Ahead \in Nat
    BY <1>1, <1>2 DEF Ahead, TypeOK, Steps, Reading, Stations
  <2> QED
    BY <1>1, <1>2, <2>1
<1>3. CASE step = "wait"
  <2>1. cur \in 1..restarts /\ child[cur].st \in ChildStates
    BY <1>3 DEF ChildInv, TypeOK
  <2>2. CASE i # cur
    <3>1. child'[cur] = child[cur]
      BY <2>1, <2>2 DEF Crash, Exit, Reap, TypeOK
    <3>2. Waits[child[cur].st] \in Nat
      BY <2>1 DEF ChildStates, Alive, Dead
    <3> QED
      BY <1>1, <1>3, <2>2, <3>1, <3>2 DEF Ahead
  <2>3. CASE i = cur
    <3>1. CASE Crash(i) \/ Exit(i)
      <4>1. child[cur].st \in {"live", "term"} /\ child'[cur].st = "dead"
        BY <2>1, <2>3, <3>1 DEF Crash, Exit, TypeOK
      <4>2. ~Reap(i)
        BY <2>3, <4>1 DEF Reap
      <4> QED
        BY <1>1, <1>3, <4>1, <4>2 DEF Ahead
    <3>2. CASE Reap(i)
      <4>1. child[cur].st = "dead" /\ child'[cur].st = "closed"
        BY <2>1, <2>3, <3>2 DEF Reap, TypeOK
      <4> QED
        BY <1>1, <1>3, <4>1 DEF Ahead
    <3> QED
      BY <3>1, <3>2
  <2> QED
    BY <2>2, <2>3
<1> QED
  BY <1>2, <1>3

\* The way to Unlock is a number of steps, now and after a step.
LEMMA AheadType == TypeOK /\ ChildInv => Ahead \in Nat
<1> SUFFICES ASSUME TypeOK, ChildInv PROVE Ahead \in Nat
  OBVIOUS
<1>1. CASE step = "wait"
  <2>1. child[cur].st \in ChildStates
    BY <1>1 DEF ChildInv, TypeOK
  <2> QED
    BY <1>1, <2>1, StationsApart DEF Ahead, ChildStates, Alive, Dead
<1>2. CASE step # "wait"
  BY <1>2 DEF Ahead, Stations, TypeOK, Steps, Reading
<1> QED
  BY <1>1, <1>2

\* The same of the state after a step.
LEMMA AheadTypeNext == (TypeOK /\ ChildInv => Ahead \in Nat)'
  BY AheadType, PTL

\* The holder of the mutex goes forward in every step.
LEMMA ForwardStep == TypeOK /\ LockInv /\ ChildInv /\ Next => GoesForward
<1> SUFFICES ASSUME TypeOK, LockInv, ChildInv, Next, mu # "free", mu' # "free"
             PROVE  /\ mu' = mu /\ Ahead' <= Ahead
                    /\ HolderMoves => Ahead' < Ahead
  BY DEF GoesForward
<1>a. Ahead \in Nat /\ Ahead' \in Nat
  <2>1. TypeOK' /\ ChildInv'
    BY NextType, ChildStep
  <2> QED
    BY <2>1, AheadType, AheadTypeNext
<1>1. CASE RestartOrStop
  BY <1>1, <1>a, HolderAdvances
<1>2. CASE ~RestartOrStop
  <2>1. ASSUME NEW i \in 1..restarts, Crash(i) \/ Exit(i) \/ Reap(i)
        PROVE  /\ mu' = mu /\ Ahead' <= Ahead
               /\ HolderMoves => Ahead' < Ahead
    <3>1. step = "wait" /\ Reap(cur) => Reap(i) /\ i = cur
      <4> SUFFICES ASSUME step = "wait", Reap(cur) PROVE Reap(i) /\ i = cur
        OBVIOUS
      <4>1. cur \in 1..restarts /\ child[cur].st = "dead" /\ child'[cur].st = "closed"
        BY DEF Reap, ChildInv, TypeOK
      <4>2. i = cur
        BY <2>1, <4>1 DEF Crash, Exit, Reap, TypeOK
      <4> QED
        BY <4>2
    <3> QED
      BY <1>2, <2>1, <3>1, DyingAdvances DEF HolderMoves
  <2>2. ASSUME UNCHANGED <<mu, step, cur, child>>
        PROVE  /\ mu' = mu /\ Ahead' <= Ahead
               /\ HolderMoves => Ahead' < Ahead
    <3>1. Ahead' = Ahead
      BY <2>2 DEF Ahead
    <3>2. ~(step = "wait" /\ Reap(cur))
      BY <2>2 DEF Reap, ChildInv, TypeOK
    <3> QED
      BY <1>2, <1>a, <2>2, <3>1, <3>2 DEF HolderMoves
  <2>3. CASE \E h \in Handlers : Commit(h) \/ CommitUnanswered(h) \/ ForceRestart(h)
    BY <2>2, <2>3 DEF Commit, CommitUnanswered, ForceRestart, Accepts
  <2>4. CASE Drift
    BY <2>2, <2>4 DEF Drift
  <2>5. CASE EnterStop \/ \E g \in Goroutines : EnterRestart(g)
    BY <2>5 DEF EnterStop, EnterRestart
  <2>6. CASE BuildFails \/ WriteFails \/ SpawnFails
    BY <2>6 DEF BuildFails, WriteFails, SpawnFails, Unlock
  <2>7. CASE \E i \in 1..restarts : Forget(i)
    BY <2>7 DEF Forget
  <2>8. CASE WatchdogSees \/ WatchdogActs \/ CollectorLoads \/ CollectorCompares \/ Shutdown
             \/ MainReturns
    BY <2>2, <2>8 DEF WatchdogSees, WatchdogActs, CollectorLoads, CollectorCompares, Shutdown,
                      MainReturns
  <2> QED
    BY <1>2, <2>1, <2>3, <2>4, <2>5, <2>6, <2>7, <2>8 DEF Next
<1> QED
  BY <1>1, <1>2

\* The safety half of MuReleased: a measure of the holder's way to Unlock that no
\* goroutine can raise and that each step it waits for lowers.
THEOREM HolderGoesForward == Spec => [][GoesForward]_vars
  BY ForwardStep, TypeCorrect, LockCorrect, ChildCorrect, PTL DEF Spec

-----------------------------------------------------------------------------
(* Stop *)

\* At the moment Stop returns to main no Xray is left: what is true of "Stop
\* terminates Xray", which the run supervisor_stop shows is not true for ever.
StopClears == pc["main"] = "in" /\ pc'["main"] = "drain" => AliveChildren' = {}

\* Only the two exits of stopLocked end a Stop.
LEMMA StopStep == TypeOK /\ LockInv /\ ChildInv /\ Next => StopClears
<1> SUFFICES ASSUME TypeOK, LockInv, ChildInv, Next, pc["main"] = "in", pc'["main"] = "drain"
             PROVE  AliveChildren' = {}
  BY DEF StopClears
<1>h. "main" \in Goroutines /\ "main" \notin Handlers
  BY HandlersAssumption DEF Goroutines, System
<1>m. mu = "main"
  BY <1>h DEF LockInv
<1>p. pc' # pc
  OBVIOUS
<1>u. Unlock => job["main"] = "stop" /\ step \in {"hook", "stop", "wait"}
  BY <1>h, <1>m, HandlersAssumption DEF Unlock, LockInv, TypeOK, Goroutines
<1>1. CASE NothingToStop
  <2>1. cur = 0 /\ UNCHANGED <<child, restarts>>
    BY <1>1 DEF NothingToStop
  <2> QED
    BY <2>1 DEF ChildInv, OneEngine, AliveChildren, TypeOK
<1>2. CASE ChildDone
  <2>1. child[cur].st = "closed" /\ UNCHANGED <<child, restarts>>
    BY <1>2 DEF ChildDone, ChildGone
  <2> QED
    BY <2>1 DEF ChildInv, OneEngine, AliveChildren, Alive
<1>3. CASE \E h \in Handlers : Commit(h) \/ CommitUnanswered(h) \/ ForceRestart(h)
  BY <1>3, <1>h DEF Commit, CommitUnanswered, ForceRestart, TypeOK
<1>4. CASE Drift \/ EnterStop \/ \E g \in Goroutines : EnterRestart(g)
  BY <1>4, <1>p, <1>m, HandlersAssumption, <1>h DEF Drift, EnterStop, EnterRestart
<1>5. CASE ReadPanel \/ ReadReality \/ ReadClients \/ ReadCustoms \/ ReplaceChild
           \/ PersistUsage \/ WriteConf \/ SignalChild \/ KillChild
  BY <1>5, <1>p DEF ReadPanel, ReadReality, ReadClients, ReadCustoms, ReplaceChild,
                    PersistUsage, WriteConf, SignalChild, KillChild
<1>6. CASE KeepChild \/ Spawn
  BY <1>6, <1>u DEF KeepChild, Spawn, Locked
<1>7. CASE BuildFails \/ WriteFails \/ SpawnFails
  BY <1>7, <1>u DEF BuildFails, WriteFails, SpawnFails, Locked, Reading
<1>8. CASE \E i \in 1..restarts : Crash(i) \/ Exit(i) \/ Reap(i) \/ Forget(i)
  BY <1>8, <1>p DEF Crash, Exit, Reap, Forget
<1>9. CASE WatchdogSees \/ WatchdogActs \/ CollectorLoads \/ CollectorCompares
  BY <1>9, <1>h DEF WatchdogSees, WatchdogActs, CollectorLoads, CollectorCompares, TypeOK
<1>10. CASE Shutdown \/ MainReturns
  BY <1>10 DEF Shutdown, MainReturns
<1> QED
  BY <1>1, <1>2, <1>3, <1>4, <1>5, <1>6, <1>7, <1>8, <1>9, <1>10 DEF Next, RestartOrStop

\* Every Stop has killed and reaped the engine when it returns.
THEOREM StopReturnsClear == Spec => [][StopClears]_vars
  BY StopStep, TypeCorrect, LockCorrect, ChildCorrect, PTL DEF Spec
=============================================================================
