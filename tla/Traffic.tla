------------------------------ MODULE Traffic ------------------------------
(***************************************************************************)
(* Traffic accounting (internal/api/traffic.go and Supervisor.QueryStats): *)
(* per-user counters live in the Xray child and are reset when read; two   *)
(* collectors read them into Postgres, the ticker goroutine and the        *)
(* PersistUsage hook that Restart and Stop run under the supervisor's      *)
(* mutex.  The two are not synchronized with each other.                   *)
(*                                                                         *)
(* Simplifications.                                                        *)
(*  - up and down are one count of bytes per user.                         *)
(*  - Restart is reduced to what the counters can tell: build, hook, stop, *)
(*    spawn (module Supervisor has the rest, with its failures).           *)
(*  - SELECT SUM(up), SUM(down) is kept per user: which rows a total saw.  *)
(*  - MaxBytes, MaxFaults, MaxCrashes, MaxRestarts and MaxDeletes bound    *)
(*    what the environment does.  gen and lost are history variables.      *)
(***************************************************************************)
EXTENDS Integers, FiniteSets

CONSTANTS
  Users,       \* clients at start
  Quota,       \* quota of every client in bytes, 0 for none
  MaxBytes,    \* bound: bytes each user transfers
  MaxFaults,   \* bound: failed queries and upserts
  MaxCrashes,  \* bound: children that die on their own
  MaxRestarts, \* bound: restarts asked for by handlers
  MaxDeletes   \* bound: clients deleted

Collectors == {"ticker", "hook"}

ASSUME TrafficBounds ==
  /\ Quota \in Nat /\ MaxBytes \in Nat /\ MaxFaults \in Nat
  /\ MaxCrashes \in Nat /\ MaxRestarts \in Nat /\ MaxDeletes \in Nat

VARIABLES
  gen,      \* bytes each user transferred (history)
  counter,  \* the child's per-user counters
  held,     \* what each collector has read and not yet written
  usage,    \* client_usage rows
  lost,     \* bytes that reached no row, or a deleted one (history)
  present,  \* clients that are not deleted
  seen,     \* the rows the collector's SUM query saw
  live,     \* LiveCounters: the rows the cached totals stand for
  pc,       \* what each collector is about to do
  phase,    \* where the holder of Supervisor.mu is, or "free"
  caller,   \* why it holds it
  built,    \* the clients its Build found allowed
  active,   \* Supervisor.active, the users of the running config
  up,       \* the child is alive
  running,  \* Supervisor.running
  stopped,  \* Supervisor.stopped
  faults, crashes, restarts, deletes

vars == <<gen, counter, held, usage, lost, present, seen, live, pc, phase, caller, built,
          active, up, running, stopped, faults, crashes, restarts, deletes>>

-----------------------------------------------------------------------------
Bytes == [Users -> Nat]
Zero == [u \in Users |-> 0]

\* Mutant of WithinQuota: quota >= usage.
WithinQuotaInclusive(u) == Quota = 0 \/ Quota >= usage[u]

\* quota = 0 OR quota > up + down
WithinQuota(u) == Quota = 0 \/ Quota > usage[u]

\* The clients LoadClients returns.
Allowed == {u \in present : WithinQuota(u)}

TypeOK ==
  /\ gen \in Bytes /\ counter \in Bytes /\ usage \in Bytes /\ lost \in Bytes
  /\ held \in [Collectors -> Bytes]
  /\ seen \in [Collectors -> Bytes] /\ live \in Bytes
  /\ present \in SUBSET Users
  /\ pc \in [Collectors -> {"idle", "query", "persist", "sum", "store", "sync", "wait"}]
  /\ phase \in {"free", "build", "hook", "stop", "spawn"}
  /\ caller \in {"nobody", "handler", "watchdog", "ticker", "main"}
  /\ built \in SUBSET Users /\ active \in SUBSET Users
  /\ up \in BOOLEAN /\ running \in BOOLEAN /\ stopped \in BOOLEAN
  /\ faults \in 0..MaxFaults /\ crashes \in 0..MaxCrashes
  /\ restarts \in 0..MaxRestarts /\ deletes \in 0..MaxDeletes

\* Just after boot: the child runs with every client.
Init ==
  /\ gen = Zero /\ counter = Zero /\ usage = Zero /\ lost = Zero /\ live = Zero
  /\ held = [c \in Collectors |-> Zero] /\ seen = [c \in Collectors |-> Zero]
  /\ present = Users /\ active = Users /\ built = {}
  /\ pc = [c \in Collectors |-> "idle"]
  /\ phase = "free" /\ caller = "nobody"
  /\ up = TRUE /\ running = TRUE /\ stopped = FALSE
  /\ faults = 0 /\ crashes = 0 /\ restarts = 0 /\ deletes = 0

-----------------------------------------------------------------------------
(* The child *)

\* A user in the running config transfers a byte.
Transfer(u) ==
  /\ up /\ u \in active /\ gen[u] < MaxBytes
  /\ gen' = [gen EXCEPT ![u] = @ + 1]
  /\ counter' = [counter EXCEPT ![u] = @ + 1]
  /\ UNCHANGED <<held, usage, lost, present, seen, live, pc, phase, caller, built, active,
                 up, running, stopped, faults, crashes, restarts, deletes>>

\* The counters die with the child.
CountersDie ==
  /\ lost' = [u \in Users |-> lost[u] + counter[u]]
  /\ counter' = Zero
  /\ up' = FALSE

Crash ==
  /\ up /\ crashes < MaxCrashes /\ crashes' = crashes + 1
  /\ CountersDie
  /\ UNCHANGED <<gen, held, usage, present, seen, live, pc, phase, caller, built, active,
                 running, stopped, faults, restarts, deletes>>

\* The reaper takes the mutex and clears running.
Reap ==
  /\ ~up /\ running /\ phase = "free"
  /\ running' = FALSE
  /\ UNCHANGED <<gen, counter, held, usage, lost, present, seen, live, pc, phase, caller,
                 built, active, up, stopped, faults, crashes, restarts, deletes>>

\* deleteClient: the row goes, and its usage with it (ON DELETE CASCADE).
DeleteClient(u) ==
  /\ u \in present /\ deletes < MaxDeletes /\ deletes' = deletes + 1
  /\ present' = present \ {u}
  /\ lost' = [lost EXCEPT ![u] = @ + usage[u]]
  /\ usage' = [usage EXCEPT ![u] = 0]
  /\ UNCHANGED <<gen, counter, held, seen, live, pc, phase, caller, built, active,
                 up, running, stopped, faults, crashes, restarts>>

-----------------------------------------------------------------------------
(* collectOnce, by either collector *)

\* What a collector returns to: the ticker waits for its next tick, the hook
\* returns into Restart or Stop.
Idle(c) == [pc EXCEPT ![c] = "idle"]

\* A tick.  collectOnce returns at once when the child is down.
Tick ==
  /\ pc["ticker"] = "idle" /\ running
  /\ pc' = [pc EXCEPT !["ticker"] = "query"]
  /\ UNCHANGED <<gen, counter, held, usage, lost, present, seen, live, phase, caller, built,
                 active, up, running, stopped, faults, crashes, restarts, deletes>>

\* Mutant of CountersAfterRead: statsquery without -reset.
CountersKept == counter

\* statsquery -reset
CountersAfterRead == Zero

\* Mutant of AfterQuery: nothing to write, nothing to do.
AfterQueryIfAny == IF counter = Zero THEN "idle" ELSE "persist"

\* The totals are refreshed and the users compared whatever was read.
AfterQuery == "persist"

QueryStats(c) ==
  /\ pc[c] = "query" /\ up
  /\ held' = [held EXCEPT ![c] = counter]
  /\ counter' = CountersAfterRead
  /\ pc' = [pc EXCEPT ![c] = AfterQuery]
  /\ UNCHANGED <<gen, usage, lost, present, seen, live, phase, caller, built, active, up,
                 running, stopped, faults, crashes, restarts, deletes>>

\* statsquery fails: the child is dead, or a timeout before it was reached.
QueryFails(c) ==
  /\ pc[c] = "query"
  /\ \/ ~up /\ UNCHANGED faults
     \/ up /\ faults < MaxFaults /\ faults' = faults + 1
  /\ pc' = Idle(c)
  /\ UNCHANGED <<gen, counter, held, usage, lost, present, seen, live, phase, caller, built,
                 active, up, running, stopped, crashes, restarts, deletes>>

\* The ten seconds are over after the child has reset its counters.
AnswerLost(c) ==
  /\ pc[c] = "query" /\ up /\ faults < MaxFaults /\ faults' = faults + 1
  /\ lost' = [u \in Users |-> lost[u] + counter[u]] /\ counter' = Zero
  /\ pc' = Idle(c)
  /\ UNCHANGED <<gen, held, usage, present, seen, live, phase, caller, built, active, up,
                 running, stopped, crashes, restarts, deletes>>

\* Mutant of Written: the delta is subtracted twice.
WrittenTwice(c, u) == [held EXCEPT ![c][u] = @ - 2 * held[c][u]]

\* The loop is done with one user's delta.
Written(c, u) == [held EXCEPT ![c][u] = 0]

\* The upsert of one user's delta.
Persist(c, u) ==
  /\ pc[c] = "persist" /\ held[c][u] > 0 /\ u \in present
  /\ usage' = [usage EXCEPT ![u] = @ + held[c][u]]
  /\ held' = Written(c, u)
  /\ UNCHANGED <<gen, counter, lost, present, seen, live, pc, phase, caller, built, active,
                 up, running, stopped, faults, crashes, restarts, deletes>>

\* The upsert fails, for a deleted client on its foreign key; the error is
\* logged and the delta is gone.
PersistFails(c, u) ==
  /\ pc[c] = "persist" /\ held[c][u] > 0
  /\ \/ u \notin present /\ UNCHANGED faults
     \/ u \in present /\ faults < MaxFaults /\ faults' = faults + 1
  /\ lost' = [lost EXCEPT ![u] = @ + held[c][u]]
  /\ held' = Written(c, u)
  /\ UNCHANGED <<gen, counter, usage, present, seen, live, pc, phase, caller, built, active,
                 up, running, stopped, crashes, restarts, deletes>>

\* SELECT SUM(...) FROM client_usage
ReadTotals(c) ==
  /\ pc[c] = "persist" /\ held[c] = Zero
  /\ seen' = [seen EXCEPT ![c] = usage]
  /\ pc' = [pc EXCEPT ![c] = "store"]
  /\ UNCHANGED <<gen, counter, held, usage, lost, present, live, phase, caller, built, active,
                 up, running, stopped, faults, crashes, restarts, deletes>>

\* live.Store and the broadcast to the UI.
StoreTotals(c) ==
  /\ pc[c] = "store"
  /\ live' = seen[c]
  /\ pc' = [pc EXCEPT ![c] = "sync"]
  /\ UNCHANGED <<gen, counter, held, usage, lost, present, seen, phase, caller, built, active,
                 up, running, stopped, faults, crashes, restarts, deletes>>

\* doSync = false: the hook is done.
HookReturns ==
  /\ pc["hook"] = "sync"
  /\ pc' = Idle("hook")
  /\ UNCHANGED <<gen, counter, held, usage, lost, present, seen, live, phase, caller, built,
                 active, up, running, stopped, faults, crashes, restarts, deletes>>

\* doSync = true: LoadClients against ActiveSet; a difference is a Restart.
Sync ==
  /\ pc["ticker"] = "sync" /\ phase = "free"
  /\ IF Allowed = active
       THEN pc' = Idle("ticker") /\ UNCHANGED <<phase, caller>>
       ELSE /\ pc' = [pc EXCEPT !["ticker"] = "wait"]
            /\ phase' = "build" /\ caller' = "ticker"
  /\ UNCHANGED <<gen, counter, held, usage, lost, present, seen, live, built, active, up,
                 running, stopped, faults, crashes, restarts, deletes>>

-----------------------------------------------------------------------------
(* Restart and Stop, under Supervisor.mu *)

\* A handler changed something or forces a restart; the watchdog saw the child
\* down; SIGTERM made main call Stop, which has no Build.
Restart ==
  /\ phase = "free"
  /\ \/ /\ restarts < MaxRestarts /\ restarts' = restarts + 1
        /\ caller' = "handler"
     \/ /\ ~running /\ ~stopped
        /\ caller' = "watchdog" /\ UNCHANGED restarts
  /\ phase' = "build"
  /\ UNCHANGED <<gen, counter, held, usage, lost, present, seen, live, pc, built, active, up,
                 running, stopped, faults, crashes, deletes>>

StartHook == pc' = [pc EXCEPT !["hook"] = IF running THEN "query" ELSE "idle"]

Stop ==
  /\ phase = "free" /\ ~stopped
  /\ phase' = "hook" /\ caller' = "main"
  /\ StartHook
  /\ UNCHANGED <<gen, counter, held, usage, lost, present, seen, live, built, active, up,
                 running, stopped, faults, crashes, restarts, deletes>>

\* Unlock; a ticker that was inside Restart goes on.
Unlock ==
  /\ phase' = "free" /\ caller' = "nobody" /\ built' = {}
  /\ pc' = IF caller = "ticker" THEN Idle("ticker") ELSE pc

\* Build, and the fingerprint check: the users decide it for the ticker and the
\* watchdog, other parts of the config may have changed for a handler.
Build ==
  /\ phase = "build"
  /\ \/ /\ caller = "handler" \/ Allowed # active \/ ~running
        /\ built' = Allowed /\ phase' = "hook"
        /\ StartHook
        /\ UNCHANGED <<caller, active>>
     \/ /\ Allowed = active /\ running
        /\ Unlock
        /\ UNCHANGED active
  /\ UNCHANGED <<gen, counter, held, usage, lost, present, seen, live, up, running, stopped,
                 faults, crashes, restarts, deletes>>

HookDone ==
  /\ phase = "hook" /\ pc["hook"] = "idle"
  /\ phase' = "stop"
  /\ stopped' = (stopped \/ caller = "main")
  /\ UNCHANGED <<gen, counter, held, usage, lost, present, seen, live, pc, caller, built,
                 active, up, running, faults, crashes, restarts, deletes>>

\* stopLocked: the child is gone, with what it counted since the hook.
StopChild ==
  /\ phase = "stop"
  /\ CountersDie
  /\ running' = FALSE
  /\ IF caller = "main" THEN Unlock
     ELSE phase' = "spawn" /\ UNCHANGED <<caller, built, pc>>
  /\ UNCHANGED <<gen, held, usage, present, seen, live, active, stopped, faults, crashes,
                 restarts, deletes>>

Spawn ==
  /\ phase = "spawn"
  /\ up' = TRUE /\ running' = TRUE
  /\ active' = built
  /\ Unlock
  /\ UNCHANGED <<gen, counter, held, usage, lost, present, seen, live, stopped, faults,
                 crashes, restarts, deletes>>

Collect(c) ==
  \/ QueryStats(c) \/ QueryFails(c) \/ AnswerLost(c)
  \/ \E u \in Users : Persist(c, u) \/ PersistFails(c, u)
  \/ ReadTotals(c) \/ StoreTotals(c)

Locked == Build \/ HookDone \/ StopChild \/ Spawn

Next ==
  \/ \E u \in Users : Transfer(u) \/ DeleteClient(u)
  \/ Crash \/ Reap
  \/ Tick \/ Sync \/ HookReturns
  \/ \E c \in Collectors : Collect(c)
  \/ Restart \/ Stop \/ Locked

Spec == Init /\ [][Next]_vars

(***************************************************************************)
(* Fairness: the tickers tick, a goroutine that can run runs, and a waiter *)
(* of the mutex is granted it in the end.  Nothing is assumed of traffic,  *)
(* deletions, faults, crashes, handlers or SIGTERM.                        *)
(***************************************************************************)
Fairness ==
  /\ WF_vars(Tick) /\ SF_vars(Sync) /\ WF_vars(HookReturns)
  /\ \A c \in Collectors : WF_vars(Collect(c))
  /\ WF_vars(Locked)
  /\ SF_vars(Reap)
  /\ SF_vars(Restart /\ caller' = "watchdog")

FairSpec == Spec /\ Fairness

-----------------------------------------------------------------------------
(* Properties *)

\* Every transferred byte is in exactly one place: still in the child, read by
\* one of the two collectors, in the client's row, or lost with a child, a
\* failed query or upsert, or a deleted client.  In particular no restart, and
\* no tick that races the hook, bills a byte twice.
Conserved ==
  \A u \in Users :
    gen[u] = counter[u] + held["ticker"][u] + held["hook"][u] + usage[u] + lost[u]

\* Traffic implements Billing: whatever collectors, restarts, crashes and deletions
\* do at the same time, bytes only move from pending to billed or lost, one client's
\* row at a time, and a deleted client's row never grows again.
OnTheWay == [u \in Users |-> counter[u] + held["ticker"][u] + held["hook"][u]]

Abstract == INSTANCE Billing WITH pending <- OnTheWay, billed <- usage
ImplementsBilling == Abstract!Spec

\* A client over its quota, or deleted, is in the end no longer in the running
\* config (or the program is shutting down).
QuotaEnforced ==
  \A u \in Users :
    (u \notin present \/ (Quota # 0 /\ usage[u] >= Quota)) ~> (u \notin active \/ stopped)

\* The totals shown to the admin may go back for a moment when the ticker and
\* the hook race, but they agree with Postgres in the end.
LiveConverges == <>[](live = usage \/ stopped)

\* "Stop() persists the last traffic counters via the PersistUsage hook before
\* signalling the child - no usage is lost on redeploys".  Violated: the child
\* counts on between the hook's statsquery and its death.
NoLossOnRedeploy ==
  stopped /\ faults = 0 /\ crashes = 0 /\ deletes = 0 /\ restarts = 0 => lost = Zero
=============================================================================
