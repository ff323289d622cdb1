----------------------------- MODULE Supervisor -----------------------------
(***************************************************************************)
(* The supervisor of the Xray child process (internal/xray/supervisor.go)  *)
(* together with the goroutines that call it: the HTTP handlers that       *)
(* change Postgres and then ask for a restart, the watchdog, the traffic   *)
(* collector's sync step, the reaper of each child, and main (boot, then   *)
(* shutdown).                                                              *)
(*                                                                         *)
(* Simplifications.                                                        *)
(*  - The database is three parts that are committed one at a time: the    *)
(*    protocol toggles, the clients LoadClients would return with their    *)
(*    protocol lists, and the custom inbounds.  The Reality key pair never *)
(*    changes after boot.  Builder.Build reads them one query after the    *)
(*    other, and a commit may fall between two queries.                    *)
(*  - An entry of a list is what the code compares: the key of a built-in  *)
(*    or the tag of an inbound.  One that matches nothing (Clients) acts   *)
(*    like the tag of an inbound that is not there.                        *)
(*  - A rendered config is its inbounds and the users of each; its         *)
(*    fingerprint is the config itself (the hash is injective).            *)
(*  - The PersistUsage hook is a step that holds the mutex; what it does   *)
(*    to the counters is module Traffic.                                   *)
(*  - cmd.Start and the two assignments after it (fingerprint, active) are *)
(*    one step: nothing reads the three without the mutex.                 *)
(*  - Bounds (MaxRequests, MaxFaults, MaxCrashes, MaxDrifts) count what    *)
(*    the environment may still do; the program has no such counters.      *)
(***************************************************************************)
EXTENDS Integers, FiniteSets

CONSTANTS
  Users,       \* client ids
  Builtins,    \* keys of the built-in inbounds
  Tags,        \* tags of custom inbounds
  NeedsKeys,   \* the inbounds that use Reality: vless-reality and custom ones
  Lists,       \* the protocol lists a client may have
  Handlers,    \* HTTP handler goroutines
  MaxRequests, \* bound: requests the handlers serve
  MaxFaults,   \* bound: failed queries, writes and spawns
  MaxCrashes,  \* bound: children that die on their own
  MaxDrifts    \* bound: clients that expire or run out of quota

System == {"main", "watchdog", "collector"}
Goroutines == Handlers \cup System

ASSUME HandlersAssumption == Handlers \cap (System \cup {"free"}) = {}
Inbounds == Builtins \cup Tags

ASSUME ListsAssumption == Lists \subseteq SUBSET Inbounds /\ {} \in Lists
ASSUME BoundsAssumption ==
  MaxRequests \in Nat /\ MaxFaults \in Nat /\ MaxCrashes \in Nat /\ MaxDrifts \in Nat

VARIABLES
  db,          \* Postgres: the toggles that are on, clients, their lists, inbounds
  pc,          \* what each goroutine is about to do
  job,         \* the call it makes: Restart(false), Restart(true) or Stop
  mu,          \* the goroutine that holds Supervisor.mu, or "free"
  step,        \* where that goroutine is inside the critical section
  build,       \* what its Build has read so far
  fingerprint, \* Supervisor.fingerprint: the config of the last spawn
  active,      \* Supervisor.active
  cur,         \* Supervisor.cur: number of the current child, 0 for nil
  running,     \* Supervisor.running, read without the mutex
  stopped,     \* Supervisor.stopped, read without the mutex
  confFile,    \* the content of xray.json
  restarts,    \* Supervisor.restarts: children spawned so far
  child,       \* every child: the config it loaded and its life cycle
  want,        \* the client set the collector compares with active
  requests, faults, crashes, drifts \* how much of each bound is spent

vars == <<db, pc, job, mu, step, build, fingerprint, active, cur, running, stopped,
          confFile, restarts, child, want, requests, faults, crashes, drifts>>

-----------------------------------------------------------------------------
(* Data *)

Databases == [panel: SUBSET Builtins, clients: SUBSET Users,
              lists: [Users -> Lists], customs: SUBSET Tags]
Builds == [panel: SUBSET Builtins, reality: BOOLEAN, clients: SUBSET Users,
           lists: [Users -> Lists], customs: SUBSET Tags]

\* The inbounds of a config, each with the clients that have credentials in it.
Configs == UNION {[I -> SUBSET Users] : I \in SUBSET Inbounds}

NoBuild == [panel |-> {}, reality |-> FALSE, clients |-> {},
            lists |-> [u \in Users |-> {}], customs |-> {}]

\* The built-ins that are switched on and the custom inbounds, without those that
\* need Reality keys Build could not read.
Rendered(b) == {x \in b.panel \cup b.customs : x \in NeedsKeys => b.reality}

\* A list of one's own that is not empty must name the inbound.
Member(b, u, x) == b.lists[u] = {} \/ x \in b.lists[u]

\* The config Build renders.
Render(b) == [x \in Rendered(b) |-> {u \in b.clients : Member(b, u, x)}]

\* The config the database calls for, with and without the Reality keys.
Wanted(keys) ==
  Render([panel |-> db.panel, reality |-> keys, clients |-> db.clients,
          lists |-> db.lists, customs |-> db.customs])

\* The config a Build without errors would render from the database as it is.
Current == Wanted(TRUE)

Toggle(S, x) == IF x \in S THEN S \ {x} ELSE S \cup {x}

Alive == {"live", "term"}        \* the process exists; "term" has been sent SIGTERM
Dead == {"dead", "closed"}       \* gone, reaper still in Wait / p.done closed
ChildStates == Alive \cup Dead \cup {"reaped"}

Reading == {"panel", "reality", "clients", "customs"}
Steps == Reading \cup {"render", "hook", "write", "stop", "wait", "spawn", "off"}

TypeOK ==
  /\ db \in Databases
  /\ pc \in [Goroutines -> {"idle", "saw", "load", "lock", "in", "drain", "exit"}]
  /\ job \in [Goroutines -> {"restart", "force", "stop"}]
  /\ mu \in Goroutines \cup {"free"}
  /\ step \in Steps
  /\ build \in Builds
  /\ fingerprint \in Configs
  /\ active \in SUBSET Users
  /\ restarts \in Nat
  /\ cur \in 0..restarts
  /\ running \in BOOLEAN
  /\ stopped \in BOOLEAN
  /\ confFile \in Configs
  /\ child \in [1..restarts -> [conf: Configs, st: ChildStates]]
  /\ want \in SUBSET Users
  /\ requests \in 0..MaxRequests
  /\ faults \in 0..MaxFaults
  /\ crashes \in 0..MaxCrashes
  /\ drifts \in 0..MaxDrifts

Up == pc["main"] # "exit"                                   \* the Go process exists
Booted == job["main"] = "stop" \/ pc["main"] = "idle"       \* main is past its first Restart

Init ==
  /\ db \in Databases  \* whatever earlier runs of the program left
  /\ pc = [g \in Goroutines |-> IF g = "main" THEN "lock" ELSE "idle"]
  /\ job = [g \in Goroutines |-> IF g = "main" THEN "force" ELSE "restart"]
  /\ mu = "free" /\ step = "off" /\ build = NoBuild
  /\ fingerprint = Render(NoBuild) /\ active = {} /\ confFile = Render(NoBuild)
  /\ cur = 0 /\ running = FALSE /\ stopped = FALSE
  /\ restarts = 0 /\ child = [i \in 1..0 |-> [conf |-> Render(NoBuild), st |-> "reaped"]]
  /\ want = {}
  /\ requests = 0 /\ faults = 0 /\ crashes = 0 /\ drifts = 0

-----------------------------------------------------------------------------
(* HTTP handlers *)

\* The one committed change of each kind of handler: putSettings;
\* createClient, patchClient, deleteClient; createInbound, deleteInbound.
PutSettings == \E S \in SUBSET Builtins : db' = [db EXCEPT !.panel = S]
WriteClient ==
  \E u \in Users, l \in Lists : \E S \in {db.clients, Toggle(db.clients, u)} :
    db' = [db EXCEPT !.clients = S, !.lists[u] = l]
WriteInbound == \E t \in Tags : db' = [db EXCEPT !.customs = Toggle(@, t)]

Changed == PutSettings \/ WriteClient \/ WriteInbound

Accepts(h) ==
  /\ Booted /\ pc["main"] \notin {"drain", "exit"}
  /\ pc[h] = "idle" /\ requests < MaxRequests
  /\ requests' = requests + 1
  /\ UNCHANGED <<mu, step, build, fingerprint, active, confFile, cur, running, restarts,
                 child, stopped, want, crashes, drifts>>

\* The handler commits and then calls restartXray.
Commit(h) ==
  /\ Accepts(h)
  /\ Changed
  /\ pc' = [pc EXCEPT ![h] = "lock"]
  /\ job' = [job EXCEPT ![h] = "restart"]
  /\ UNCHANGED faults

\* The change is committed but the answer of Postgres is lost (the request was
\* cancelled): the handler returns an error and never reaches restartXray.
CommitUnanswered(h) ==
  /\ Accepts(h)
  /\ Changed
  /\ faults < MaxFaults /\ faults' = faults + 1
  /\ UNCHANGED <<pc, job>>

\* POST /api/restart
ForceRestart(h) ==
  /\ Accepts(h)
  /\ pc' = [pc EXCEPT ![h] = "lock"]
  /\ job' = [job EXCEPT ![h] = "force"]
  /\ UNCHANGED <<db, faults>>

\* A client expires or exceeds its quota: LoadClients stops returning it.
Drift ==
  /\ drifts < MaxDrifts /\ drifts' = drifts + 1
  /\ \E u \in db.clients : db' = [db EXCEPT !.clients = @ \ {u}]
  /\ UNCHANGED <<pc, job, mu, step, build, fingerprint, active, confFile, cur, running,
                 restarts, child, stopped, want, requests, faults, crashes>>

-----------------------------------------------------------------------------
(* Restart and Stop: the critical section of Supervisor.mu *)

\* Mutant of EnterRestart: TryLock, "somebody is already restarting".
EnterRestartIfFree(g) ==
  /\ Up /\ pc[g] = "lock" /\ job[g] # "stop"
  /\ IF mu = "free" THEN mu' = g /\ step' = "panel" ELSE UNCHANGED <<mu, step>>
  /\ pc' = [pc EXCEPT ![g] = IF mu = "free" THEN "in" ELSE "idle"]
  /\ UNCHANGED <<db, job, build, fingerprint, active, confFile, cur, running, restarts,
                 child, stopped, want, requests, faults, crashes, drifts>>

\* s.mu.Lock() in Restart: Go's mutex is granted to any of the waiters.
EnterRestart(g) ==
  /\ Up /\ pc[g] = "lock" /\ job[g] # "stop"
  /\ mu = "free"
  /\ mu' = g /\ step' = "panel"
  /\ pc' = [pc EXCEPT ![g] = "in"]
  /\ UNCHANGED <<db, job, build, fingerprint, active, confFile, cur, running, restarts,
                 child, stopped, want, requests, faults, crashes, drifts>>

\* s.mu.Lock() in Stop
EnterStop ==
  /\ pc["main"] = "lock" /\ job["main"] = "stop"
  /\ mu = "free"
  /\ mu' = "main" /\ step' = "hook"
  /\ pc' = [pc EXCEPT !["main"] = "in"]
  /\ UNCHANGED <<db, job, build, fingerprint, active, confFile, cur, running, restarts,
                 child, stopped, want, requests, faults, crashes, drifts>>

Locked(s) == Up /\ mu # "free" /\ step = s

\* Unlock and return to the caller.
Unlock ==
  /\ mu' = "free" /\ step' = "off" /\ build' = NoBuild
  /\ pc' = [pc EXCEPT ![mu] = IF job[mu] = "stop" THEN "drain" ELSE "idle"]
  /\ job' = [job EXCEPT ![mu] = IF mu \in Handlers THEN "restart" ELSE @]

\* The queries of Build, in its order.
ReadPanel ==
  /\ Locked("panel")
  /\ build' = [build EXCEPT !.panel = db.panel] /\ step' = "reality"
  /\ UNCHANGED <<db, pc, job, mu, fingerprint, active, confFile, cur, running, restarts,
                 child, stopped, want, requests, faults, crashes, drifts>>

\* An error here is swallowed: the config is rendered without Reality inbounds.
ReadReality ==
  /\ Locked("reality")
  /\ step' = "clients"
  /\ \/ /\ build' = [build EXCEPT !.reality = TRUE]
        /\ UNCHANGED faults
     \/ /\ faults < MaxFaults /\ faults' = faults + 1
        /\ UNCHANGED build
  /\ UNCHANGED <<db, pc, job, mu, fingerprint, active, confFile, cur, running, restarts,
                 child, stopped, want, requests, crashes, drifts>>

ReadClients ==
  /\ Locked("clients")
  /\ build' = [build EXCEPT !.clients = db.clients, !.lists = db.lists] /\ step' = "customs"
  /\ UNCHANGED <<db, pc, job, mu, fingerprint, active, confFile, cur, running, restarts,
                 child, stopped, want, requests, faults, crashes, drifts>>

ReadCustoms ==
  /\ Locked("customs")
  /\ build' = [build EXCEPT !.customs = db.customs] /\ step' = "render"
  /\ UNCHANGED <<db, pc, job, mu, fingerprint, active, confFile, cur, running, restarts,
                 child, stopped, want, requests, faults, crashes, drifts>>

\* A query fails, or the caller's deadline passed while it waited for mu or for
\* Postgres: Restart returns the error before it touched anything.
BuildFails ==
  /\ Up /\ mu # "free" /\ step \in Reading
  /\ faults < MaxFaults /\ faults' = faults + 1
  /\ Unlock
  /\ UNCHANGED <<db, fingerprint, active, confFile, cur, running, restarts, child,
                 stopped, want, requests, crashes, drifts>>

SameConfig == job[mu] # "force" /\ Render(build) = fingerprint /\ running

\* Mutant of KeepChild: the no-op path returns without s.active = res.Active.
KeepChildOnly ==
  /\ Locked("render") /\ SameConfig
  /\ Unlock
  /\ UNCHANGED <<db, fingerprint, active, confFile, cur, running, restarts, child,
                 stopped, want, requests, faults, crashes, drifts>>

\* The fingerprint check: nothing to do but to remember the client set.
KeepChild ==
  /\ Locked("render") /\ SameConfig
  /\ active' = build.clients
  /\ Unlock
  /\ UNCHANGED <<db, fingerprint, confFile, cur, running, restarts, child, stopped,
                 want, requests, faults, crashes, drifts>>

\* Mutant of ReplaceChild: the bookkeeping runs ahead of the process.
ReplaceChildEarly ==
  /\ Locked("render") /\ ~SameConfig
  /\ fingerprint' = Render(build) /\ active' = build.clients
  /\ step' = "hook"
  /\ UNCHANGED <<db, pc, job, mu, build, confFile, cur, running, restarts, child,
                 stopped, want, requests, faults, crashes, drifts>>

ReplaceChild ==
  /\ Locked("render") /\ ~SameConfig
  /\ step' = "hook"
  /\ UNCHANGED <<db, pc, job, mu, build, fingerprint, active, confFile, cur, running,
                 restarts, child, stopped, want, requests, faults, crashes, drifts>>

\* The PersistUsage hook returns (collectOnce with doSync = false never takes
\* mu); Stop then marks the supervisor stopped.
PersistUsage ==
  /\ Locked("hook")
  /\ step' = IF job[mu] = "stop" THEN "stop" ELSE "write"
  /\ stopped' = (stopped \/ job[mu] = "stop")
  /\ UNCHANGED <<db, pc, job, mu, build, fingerprint, active, confFile, cur, running,
                 restarts, child, want, requests, faults, crashes, drifts>>

\* xray.json.tmp is written and renamed over xray.json.
WriteConf ==
  /\ Locked("write")
  /\ confFile' = Render(build) /\ step' = "stop"
  /\ UNCHANGED <<db, pc, job, mu, build, fingerprint, active, cur, running, restarts,
                 child, stopped, want, requests, faults, crashes, drifts>>

WriteFails ==
  /\ Locked("write")
  /\ faults < MaxFaults /\ faults' = faults + 1
  /\ Unlock
  /\ UNCHANGED <<db, fingerprint, active, confFile, cur, running, restarts, child,
                 stopped, want, requests, crashes, drifts>>

\* stopLocked without a child: Stop is done, Restart goes on to spawn.
NothingToStop ==
  /\ Locked("stop") /\ cur = 0
  /\ IF job[mu] = "stop" THEN Unlock
     ELSE step' = "spawn" /\ UNCHANGED <<pc, job, mu, build>>
  /\ UNCHANGED <<db, fingerprint, active, confFile, cur, running, restarts, child,
                 stopped, want, requests, faults, crashes, drifts>>

\* stopLocked: SIGTERM (without effect on a child that is already dead).
SignalChild ==
  /\ Locked("stop") /\ cur # 0
  /\ child' = [child EXCEPT ![cur].st = IF @ = "live" THEN "term" ELSE @]
  /\ step' = "wait"
  /\ UNCHANGED <<db, pc, job, mu, build, fingerprint, active, confFile, cur, running,
                 restarts, stopped, want, requests, faults, crashes, drifts>>

\* Five seconds passed without p.done: SIGKILL.
KillChild ==
  /\ Locked("wait") /\ child[cur].st = "term"
  /\ child' = [child EXCEPT ![cur].st = "dead"]
  /\ UNCHANGED <<db, pc, job, mu, step, build, fingerprint, active, confFile, cur,
                 running, restarts, stopped, want, requests, faults, crashes, drifts>>

\* Mutant of ChildGone: SIGTERM without waiting.
ChildSignalled == TRUE

\* p.done is closed.
ChildGone == child[cur].st = "closed"

\* <-p.done, then the child is forgotten.
ChildDone ==
  /\ Locked("wait") /\ ChildGone
  /\ cur' = 0 /\ running' = FALSE
  /\ IF job[mu] = "stop" THEN Unlock
     ELSE step' = "spawn" /\ UNCHANGED <<pc, job, mu, build>>
  /\ UNCHANGED <<db, fingerprint, active, confFile, restarts, child, stopped, want,
                 requests, faults, crashes, drifts>>

\* restarts.Add(1)
SpawnCount == restarts + 1

\* Mutant of SpawnBooks: the fingerprint is not assigned.
SpawnBooksNoFingerprint == active' = build.clients /\ UNCHANGED fingerprint

\* What restartLocked remembers of a successful spawn.
SpawnBooks == fingerprint' = Render(build) /\ active' = build.clients

\* spawnLocked and the two assignments after it in restartLocked.
Spawn ==
  /\ Locked("spawn")
  /\ restarts' = SpawnCount
  /\ cur' = restarts + 1 /\ running' = TRUE
  /\ child' = [i \in 1..(restarts + 1) |->
                 IF i \in 1..restarts THEN child[i] ELSE [conf |-> confFile, st |-> "live"]]
  /\ SpawnBooks
  /\ Unlock
  /\ UNCHANGED <<db, confFile, stopped, want, requests, faults, crashes, drifts>>

\* The log file or the binary cannot be opened: no child, old fingerprint.
SpawnFails ==
  /\ Locked("spawn")
  /\ faults < MaxFaults /\ faults' = faults + 1
  /\ Unlock
  /\ UNCHANGED <<db, fingerprint, active, confFile, cur, running, restarts, child,
                 stopped, want, requests, crashes, drifts>>

RestartOrStop ==
  \/ ReadPanel \/ ReadReality \/ ReadClients \/ ReadCustoms
  \/ KeepChild \/ ReplaceChild \/ PersistUsage \/ WriteConf
  \/ NothingToStop \/ SignalChild \/ KillChild \/ ChildDone \/ Spawn

-----------------------------------------------------------------------------
(* The child and its reaper *)

\* The child dies on its own.
Crash(i) ==
  /\ child[i].st = "live"
  /\ crashes < MaxCrashes /\ crashes' = crashes + 1
  /\ child' = [child EXCEPT ![i].st = "dead"]
  /\ UNCHANGED <<db, pc, job, mu, step, build, fingerprint, active, confFile, cur,
                 running, restarts, stopped, want, requests, faults, drifts>>

\* The child obeys SIGTERM.
Exit(i) ==
  /\ child[i].st = "term"
  /\ child' = [child EXCEPT ![i].st = "dead"]
  /\ UNCHANGED <<db, pc, job, mu, step, build, fingerprint, active, confFile, cur,
                 running, restarts, stopped, want, requests, faults, crashes, drifts>>

\* Mutant of Reap: the reaper locks before it closes p.done.
ReapLocked(i) ==
  /\ Up /\ child[i].st = "dead" /\ mu = "free"
  /\ child' = [child EXCEPT ![i].st = "closed"]
  /\ UNCHANGED <<db, pc, job, mu, step, build, fingerprint, active, confFile, cur,
                 running, restarts, stopped, want, requests, faults, crashes, drifts>>

\* Reaper: cmd.Wait returns and p.done is closed, without the mutex.
Reap(i) ==
  /\ Up /\ child[i].st = "dead"
  /\ child' = [child EXCEPT ![i].st = "closed"]
  /\ UNCHANGED <<db, pc, job, mu, step, build, fingerprint, active, confFile, cur,
                 running, restarts, stopped, want, requests, faults, crashes, drifts>>

\* Mutant of IsCurrent: the reaper does not compare s.cur with its own child.
AnyCurrent(i) == TRUE

\* s.cur == p
IsCurrent(i) == cur = i

\* Reaper: forget the child, unless a newer one has replaced it.
Forget(i) ==
  /\ Up /\ child[i].st = "closed" /\ mu = "free"
  /\ child' = [child EXCEPT ![i].st = "reaped"]
  /\ IF IsCurrent(i) THEN cur' = 0 /\ running' = FALSE ELSE UNCHANGED <<cur, running>>
  /\ UNCHANGED <<db, pc, job, mu, step, build, fingerprint, active, confFile, restarts,
                 stopped, want, requests, faults, crashes, drifts>>

-----------------------------------------------------------------------------
(* Watchdog, collector and shutdown *)

\* Tick of the watchdog: running is read without the mutex ...
WatchdogSees ==
  /\ Booted /\ Up /\ pc["watchdog"] = "idle" /\ ~running
  /\ pc' = [pc EXCEPT !["watchdog"] = "saw"]
  /\ UNCHANGED <<db, job, mu, step, build, fingerprint, active, confFile, cur, running,
                 restarts, child, stopped, want, requests, faults, crashes, drifts>>

\* ... then stopped, and then it calls Restart.
WatchdogActs ==
  /\ Up /\ pc["watchdog"] = "saw"
  /\ pc' = [pc EXCEPT !["watchdog"] = IF stopped THEN "idle" ELSE "lock"]
  /\ UNCHANGED <<db, job, mu, step, build, fingerprint, active, confFile, cur, running,
                 restarts, child, stopped, want, requests, faults, crashes, drifts>>

\* Tick of the collector (collectOnce with doSync): it stops early when the
\* child is down, and its query may fail.
CollectorLoads ==
  /\ Booted /\ Up /\ pc["collector"] = "idle" /\ running
  /\ want' = db.clients
  /\ pc' = [pc EXCEPT !["collector"] = "load"]
  /\ UNCHANGED <<db, job, mu, step, build, fingerprint, active, confFile, cur, running,
                 restarts, child, stopped, requests, faults, crashes, drifts>>

\* ActiveSet takes and releases mu; a difference leads to Restart.
CollectorCompares ==
  /\ Up /\ pc["collector"] = "load" /\ mu = "free"
  /\ pc' = [pc EXCEPT !["collector"] = IF want = active THEN "idle" ELSE "lock"]
  /\ want' = {}
  /\ UNCHANGED <<db, job, mu, step, build, fingerprint, active, confFile, cur, running,
                 restarts, child, stopped, requests, faults, crashes, drifts>>

\* SIGTERM reaches main: it calls Stop.
Shutdown ==
  /\ Booted /\ pc["main"] = "idle"
  /\ pc' = [pc EXCEPT !["main"] = "lock"]
  /\ job' = [job EXCEPT !["main"] = "stop"]
  /\ UNCHANGED <<db, mu, step, build, fingerprint, active, confFile, cur, running,
                 restarts, child, stopped, want, requests, faults, crashes, drifts>>

\* httpServer.Shutdown returns (it waits five seconds at most) and main ends,
\* and with it every other goroutine.
MainReturns ==
  /\ pc["main"] = "drain"
  /\ pc' = [pc EXCEPT !["main"] = "exit"]
  /\ UNCHANGED <<db, job, mu, step, build, fingerprint, active, confFile, cur, running,
                 restarts, child, stopped, want, requests, faults, crashes, drifts>>

Next ==
  \/ \E h \in Handlers : Commit(h) \/ CommitUnanswered(h) \/ ForceRestart(h)
  \/ Drift
  \/ \E g \in Goroutines : EnterRestart(g)
  \/ EnterStop
  \/ RestartOrStop
  \/ BuildFails \/ WriteFails \/ SpawnFails
  \/ \E i \in 1..restarts : Crash(i) \/ Exit(i) \/ Reap(i) \/ Forget(i)
  \/ WatchdogSees \/ WatchdogActs
  \/ CollectorLoads \/ CollectorCompares
  \/ Shutdown \/ MainReturns

Spec == Init /\ [][Next]_vars

(***************************************************************************)
(* Fairness.  Every runnable goroutine is scheduled (weak fairness); the   *)
(* tickers tick; a waiter of sync.Mutex is granted it in the end (strong   *)
(* fairness: after 1 ms of waiting a Go mutex is handed over in order).    *)
(* Nothing is assumed of requests, faults, crashes, drift, SIGTERM or of a *)
(* child obeying SIGTERM.                                                  *)
(***************************************************************************)
Fairness ==
  /\ WF_vars(RestartOrStop)
  /\ \A g \in Goroutines : SF_vars(EnterRestart(g))
  /\ SF_vars(EnterStop)
  /\ WF_vars(\E i \in 1..restarts : Reap(i))
  /\ SF_vars(\E i \in 1..restarts : Forget(i))
  /\ WF_vars(WatchdogSees) /\ WF_vars(WatchdogActs)
  /\ WF_vars(CollectorLoads) /\ SF_vars(CollectorCompares)
  /\ WF_vars(MainReturns)

FairSpec == Spec /\ Fairness

-----------------------------------------------------------------------------
(* Properties *)

\* A live Xray is always the one the supervisor knows: no restart, failed
\* restart or late reaper ever leaves a second process behind on the ports.
OneEngine == \A i \in 1..restarts : child[i].st \in Alive => i = cur

\* The fingerprint Restart compares with is the config of the running child.
FingerprintHonest == running => fingerprint = child[cur].conf

\* What Build may render for each set of clients.
Rendering ==
  [S \in SUBSET Users |-> {Render(b) : b \in {x \in Builds : x.clients = S}}]

\* The set the collector compares with is the set of clients the running child's
\* config was rendered for, through failed restarts and those with nothing to do:
\* nobody else has credentials in it, so that a client that lapsed cannot hide
\* behind a stale ActiveSet.  (It is not "the client ids present in the running
\* config": a client that is in it may have credentials nowhere.)
ActiveHonest == running => child[cur].conf \in Rendering[active]

\* A change is pending while its handler has not entered Restart yet.
Pending == \E h \in Handlers : pc[h] = "lock" /\ job[h] = "restart"

\* No lost update: as long as no query, write or spawn failed and no client
\* lapsed, whenever the handlers are done and the mutex is free the running
\* child has exactly the config the database calls for, whatever the commits,
\* the restarts of other goroutines and crashes did in between.
Fresh ==
  faults = 0 /\ drifts = 0 /\ running /\ mu = "free" /\ ~Pending =>
    child[cur].conf = Current

\* Restart(false) and the watchdog never interrupt a child that already runs
\* the config they rendered ("a no-op when nothing actually changed").
InterruptsForCause ==
  \A i \in 1..restarts :
    child[i].st = "live" /\ child'[i].st = "term" =>
      job[mu] \in {"force", "stop"} \/ Render(build) # child[i].conf
NoNeedlessRestart == [][InterruptsForCause]_vars

\* The supervisor's mutex is always released again: waiting for the child
\* inside it, with a reaper that needs it, is no deadlock.
MuReleased == mu # "free" ~> (mu = "free" \/ ~Up)

\* Whatever failed, crashed or lapsed (finitely often), until shutdown there is
\* in the end a running child whose config the database calls for, client by client
\* and inbound by inbound, except that after a failed read of the Reality keys it
\* may lack the inbounds that need them, for good: nothing tries again.
UsersConverge ==
  <>[](stopped \/ /\ running
                  /\ active = db.clients
                  /\ \E keys \in BOOLEAN : child[cur].conf = Wanted(keys))

\* "Stop terminates Xray (called on shutdown)": after Stop has returned no Xray
\* is alive.  Violated: nothing in Restart looks at stopped.
StopIsFinal ==
  pc["main"] \in {"drain", "exit"} => \A i \in 1..restarts : child[i].st \notin Alive

\* Supervisor implements Engine: one engine at a time, a new one only after the
\* old one is gone.
AliveChildren == {i \in 1..restarts : child[i].st \in Alive}

Abstract == INSTANCE Engine WITH started <- restarts, alive <- AliveChildren
ImplementsEngine == Abstract!Spec
=============================================================================
