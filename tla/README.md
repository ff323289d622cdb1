# Nullgate in TLA+

Nullgate is a panel for an Xray proxy: one Go process (`src/cmd/api`,
`src/internal/*`) that keeps its state in Postgres, supervises an Xray child
process, accounts its traffic and serves an admin UI (`src/web`). This directory
models that process: what its goroutines do to Postgres, to the child and to
each other.

## The system

| Part | Source | State | Operations |
|---|---|---|---|
| Supervisor | `internal/xray/supervisor.go` | under `mu`: `cur`, `fingerprint`, `active`; atomics `running`, `stopped`, `restarts`; the file `xray.json`; the child | `Restart`, `Stop`, reaper goroutine per child, `Watchdog`, `QueryStats`, `ActiveSet`, `Info`, `TailLog`, `EnsureBinary` |
| Config builder | `internal/xray/config.go` | none (reads Postgres) | `Build`, `LoadClients`, `LoadCustoms` |
| Traffic accounting | `internal/api/traffic.go` | `LiveCounters`; rows of `client_usage`; counters inside the child | `collectOnce` from a ticker and from the `PersistUsage` hook |
| API: clients, settings | `internal/api/server.go` | rows of `clients`, `settings` | create/patch/delete client, get/put settings, each followed by `restartXray` |
| API: inbounds, routing | `internal/api/handlers.go`, `proxy.go` | rows of `inbounds`; the route registry `customs` | create/delete inbound, `SyncCustomRoutes`, `lookupCustom` |
| API: setup, login, sessions | `internal/api/server.go`, `internal/auth/auth.go` | rows of `admins`; login attempts per address; sessions in Redis and a memory mirror | `setup`, `login`, `logout`, `authed` |
| Share links, client JSON | `internal/xray/links.go`, `clientjson.go`, `handlers.go` | none | `BuildLinks`, `ClientJSON`, the subscription |
| Live hub | `internal/api/ws.go` | set of sockets | `Serve`, `Broadcast`, pinger per socket |
| Boot, shutdown | `cmd/api/main.go`, `internal/db`, `internal/store` | order of provisioning | migrate, ensure settings and keys, first `Restart`, signal, `Stop` |
| Web UI | `web/src` | socket, poll and reconnect timers of `useLive` | presentation otherwise |

Everything meets in two places. HTTP handlers commit to Postgres and then call
`Restart`, which takes the supervisor's mutex, reads Postgres in four separate
queries, compares a hash of the rendered config with the fingerprint of the last
spawn and, if it differs, runs the `PersistUsage` hook, writes `xray.json`, stops
the child and spawns a new one. The watchdog (dead child), the collector (a client
lapsed) and main (boot, `Stop` at shutdown) call the same code. The reaper of each
child clears `cur` under the same mutex, after it closed the channel `stopLocked`
waits for inside it.

Hard behaviours: commits between the queries of a running `Build`; a late reaper;
failures after the old child is gone; atomics read without the mutex; two collectors
that read and reset the same counters; SIGTERM while handlers wait for the mutex;
read-then-insert in the inbound handlers; registry swaps in the wrong order; containers that
boot at the same time. They are
listed with their lines under `hazards` in `PROJECT.json`.

## Modules

Each component module keeps the names of the code for its state and its
operations; `PROJECT.json` maps every definition to its lines. In each of them
`TypeOK` is the type invariant, the actions follow the handler they translate from
its first guard to its last statement, and the properties stand at the end.

| Module | Translates | Proofs | Checked by |
|---|---|---|---|
| `Supervisor` | `supervisor.go`, the queries of `config.go`, `main.go` from first restart to exit | `Supervisor_proofs` | `MCSupervisor` |
| `Engine` | the promise `Supervisor` implements | refinement in `Supervisor_proofs` | `MCSupervisor` |
| `Traffic` | `traffic.go`, `QueryStats`, the quota query | `Traffic_proofs` | `MCTraffic` |
| `Billing` | the promise `Traffic` implements | refinement in `Traffic_proofs` | `MCTraffic` |
| `Routing` | `proxy.go`, `pathCollides`, `checkPath` | `Routing_proofs` | `MCBoot` |
| `Inbounds` | `createInbound`, `deleteInbound`, `portTaken`, `freeLocalPort`, `SyncCustomRoutes` | `Inbounds_proofs` | `MCInbounds` |
| `Links` | `config.go` (inbounds and users), `links.go`, `clientjson.go`, protocol lists | `Links_proofs` | `MCLinks` |
| `LoginLimiter` | `loginLimiter` and its use in `login` | `Panel_proofs` | `MCPanel` |
| `LoginWindow` | the promise `LoginLimiter` implements | refinement in `Panel_proofs` | `MCPanel` |
| `Sessions` | `auth.go`, `authed`, `startSession`, `logout` | `Live_proofs` | `MCPanel`, `MCTraffic` |
| `Setup` | `setup` | `Panel_proofs` | `MCPanel` |
| `Settings` | `putSettings`, `LoadPanelSettings`, `PutJSON` | `Panel_proofs` | `MCPanel` |
| `Clients` | `createClient`, `patchClient`, `deleteClient`, `validProtocolTags`, `scanClient`, the `WHERE` of `LoadClients` | `Panel_proofs` | `MCPanel` |
| `Hub` | `ws.go` | `Live_proofs` | `MCPanel`, `MCBoot` |
| `UseLive` | `useLive.ts` | `Panel_proofs` | `MCPanel` |
| `Boot` | `main.go` up to `ListenAndServe`, `db.go`, the seeds of `store.go` | `Boot_proofs` | `MCBoot` |
| `Provision` | `EnsureBinary`, `verifyChecksum`, `Watchdog` | `Boot_proofs` | `MCBoot` |

### Supervisor and Engine

`pc` says what each goroutine (handlers, watchdog, collector, main) is about to do,
`job` which call it makes, `mu` who holds `Supervisor.mu`, `step` where that one is
inside `restartLocked` or `Stop`. The four queries of `Build`, the `PersistUsage` hook, the
write of `xray.json`, SIGTERM, the wait and the spawn are one step each, so commits,
crashes and the lock-free reads of `running` and `stopped` fall between any two of
them. `child` holds every process that was ever spawned: `live`, `term` (SIGTERM
sent), `dead`, `closed` (the reaper closed `done`), `reaped`. The reaper is two
actions, `Reap` without the mutex and `Forget` with it. `ReadReality` may fail without
failing `Build`; `BuildFails`, `WriteFails` and `SpawnFails` are the error returns.

A rendered config is its inbounds with the users of each, as `Build` decides them: a
built-in is there while its toggle is on, a custom one while its row is there, one that
uses Reality only if the keys could be read (`Rendered`); a client is in an inbound if
its own list is empty or names it (`Member`). A client that is in `active` may therefore
be in no inbound at all. Lists name inbounds exactly, as the code compares them; what
an admin may write into a list is `Clients`.

Abstractions: what an inbound looks like is `Links`; the hash of a config is the
config (the hash is injective); the spawn and the two assignments after it are one
step (nobody reads the three without the mutex); what the hook does is `Traffic`.

`Engine` is what the rest of the program may rely on: instances are launched one
after the other, and only when none is alive. `ImplementsEngine` is the refinement, with
`alive` mapped to the children whose process exists.

### Traffic and Billing

Counters live in the child, are read and reset by `statsquery`, and are upserted by
two collectors that share no lock: the ticker and the hook, the latter inside the
mutex. `gen` (bytes transferred) and `lost` (bytes that reached no row) are history; the
other variables are those of `traffic.go` and as much of the supervisor as the counters
can tell. `QueryStats`, upsert, `SUM`, store of `LiveCounters` are separate steps of
each collector; `Sync` is the ticker's `LoadClients` and comparison with `ActiveSet`.

`Billing` is the ledger without collectors: a byte is pending until it is billed to its
user or given up, and never moves back. `ImplementsBilling` is the refinement: pending is
what the child's counters and both collectors' hands hold (`OnTheWay`), billed is
`client_usage`, and an upsert is one `Bill` of one row.

### Routing

Paths are sequences of characters, so `Matches` (segment boundary), `Lookup` (longest
match in a map of any order) and `PathCollides` are the string algorithms of the code.
Requests that overlap are left to `Inbounds`; here `CreateInbound` is its checks,
the insert and `SyncCustomRoutes`. `Reboot` may change the built-in paths under the rows.

### Inbounds

Each query of the two handlers is a step: count, port or probes, path, insert, the
read of the TLS rows and the swap of the registry. A query may fail, the read of the
registry may break off and be taken for complete (nobody asks `rows.Err()`), and a request
may end after its row is committed. Locals of a handler return to a fixed value when it
returns. `before` and `born` remember which rows a request found when it came
in; with them "the requests overlapped" is a state predicate. `MCInbounds` adds one
more history variable, for two overlapping syncs of the registry.

### Links

The server's inbounds with their users, the share links and the client's JSON are each
translated from their own file, and the properties compare them. `TagCalls` are the places
of `ClientJSON` that ask for a tag, in their order; `nextTag` numbers them. A link is what
the server compares (protocol, transport, security, flow, path) and what is dialled. An
environment covers `TCP_PORT` (absent, a number, no number), the second TCP proxy and the
Reality transport. A request reads one state of the database; every toggle is stored, as
the seed does; padded spellings in a protocol list (`Clients` has them) and signed ports
are left out. What the platform in front of the server does to a request is outside the
code: a link over TLS and gRPC counts as arriving, though the repository's README warns that
it depends on HTTP/2 at the edge, which a comment of `config.go` says Railway does not
offer to the origin.

### LoginLimiter, LoginWindow, Sessions, Setup, Settings, Clients

`LoginLimiter`: one hit per login let through, pruned only when its own address comes
back; `since` is the unpruned history. `LoginWindow` has the history alone and lets a login
through while fewer than `Max` lie in the window, which slides: the comment that calls it
fixed is refuted by the run `limiter_window`. `IdealWindow` says that the limiter
implements it and decides as it does, in every state and for every address. `Sessions`: each call of Redis (which may fail with or
without its effect, or lose everything) and each critical section of the memory
mirror is a step; a restart may find Redis reachable or not. `Setup`: Postgres runs
each statement READ COMMITTED, so an `INSERT ... WHERE NOT EXISTS` sees what was
committed when it began. `Settings`: load, merge and write of the whole row; a body names
any of the keys with a legal value, an invalid one or one of another type.
`Clients`: a request checks its body against the tags of the table and later writes with
one statement; other requests, usage, inbounds and days come in between. A quota is asked
in half bytes, so that the cut of a fraction, the overflow of `int64` and the boundary of
usage are all reached; `asked` is the history of what was asked for. An entry of a list
is a tag, with or without blanks around it: the check looks at it trimmed, the table gets
it as it is, and `Granted` is what that grants.

### Hub and UseLive

`Hub`: the request of a socket, its pinger and every `Broadcast` are goroutines; a
write holds the socket's mutex and ends within its deadline, with or without an error.
A socket is used once. `UseLive`: every callback of the effect is one step of the event
loop (mounting, `onopen`, `onmessage`, `onclose`, the 4 s and 2.5 s timers, the poll
and its answers, unmounting).

### Boot and Provision

`Boot`: each container goes through `main` statement by statement: connect, for each
version `SELECT EXISTS`, `BEGIN` and script, the row, `COMMIT`, then the reads and writes of
the two seeds. Containers overlap, as in a deploy, and their images may know different
migrations. Any error but `ErrNoRows` ends the process, as the code's `log.Fatal` does; the
platform starts it again (`restart: unless-stopped`). Two transactions that run the same
script or insert the same row wait for each other, as they do in Postgres; a script that
finds the tables of another may fail or not.

`Provision`: `EnsureBinary` step by step, with a download that fails or is damaged, a
manifest that is missing, and a crash anywhere; the disk survives, as does a binary that
came with the image. The watchdog and `main` call it one after the other. What `Restart`
does is `Supervisor`; here it succeeds or not, depending on the file.

### Model-checking modules

`MCSupervisor`, `MCInbounds` and `MCLinks` give values to the constants of one module.
The other three join parts that share no variable: `MCTraffic` the accounting and the
sessions, `MCBoot` the boot, the binary, the routing and the hub, `MCPanel` the seven parts
of the panel. One part moves while the others rest where they began (`part`), so the states
are the sum of theirs and not the product, and no interleaving between the parts is
claimed. In `MCTraffic` and `MCBoot` no action under fairness is enabled where a part
rests, so its fairness asks for nothing of the part that moves; the accounting, whose ticker
ticks from its first state on, rests after a `Stop` for that (`Over`).

## Runs

| Run | What it asks |
|---|---|
| `supervisor` | one handler, watchdog, collector and main, one request, one fault, one crash: `OneEngine`, `FingerprintHonest`, `ActiveHonest`, `Fresh`, `NoNeedlessRestart`, refinement of `Engine` |
| `supervisor_live` | the mutex is always released; after the last failure the child has the config the database calls for, but perhaps for the Reality inbounds |
| `supervisor_stop` | *violated*: a handler that waited for the mutex spawns a child after `Stop` returned |
| `traffic` | refinement of `Billing`: every byte is in one place and none goes back; a client over its quota leaves the config; `LiveCounters` agrees with Postgres in the end; expired sessions leave the memory |
| `traffic_stop` | *violated*: what the child counts between the hook and its death is lost |
| `inbounds` | clashes of ports and paths and a stale registry come from overlapping requests only |
| `links` | no link is dead, the JSON dials what the links dial, its tags are distinct |
| `panel` | refinement of `LoginWindow`; live sessions are let in and ended ones never; setup's answers and second admins; lost settings; the limits of clients and the plain entries of their lists; one writer per socket, every admin served or off the hub; the dashboard's one transport |
| `limiter_sweep` | *violated*: the sweep of a large map removes nothing |
| `limiter_window` | *violated*: the limiter's window is a fixed one |
| `client_lists` | *violated*: a list that was let in grants something |
| `boot` | migrations once and in order, settings and keys seeded by first boots only, everybody serves in the end; no torn binary, and the engine comes up; the panel, the built-in paths and every inbound stay reachable; nothing left behind by a socket, every `Broadcast` returns |

No run lists a `TypeOK`: the type invariants of all component modules are theorems.
`LookupDeterministic`, `RowsBounded`, `ReachableFlag`, `UnmountedIsQuiet`, `Conserved` and
`WindowBound` were run before they were proved and are theorems now; the last two
gave their place to the refinements that imply them.

Every property of a passing run has one mutant or several in `PROJECT.json`: the named
definition with one plausible mistake (a dropped guard, a forgotten assignment, a swapped
order), under which TLC finds the property violated. Mutants stand before what they
mutate and are named in its comment.

### Bounds

The bounds count what the environment does, never what the program does.

- `supervisor`: one request, fault and crash each, from every initial database, with a
  built-in, a custom Reality inbound and a list that names none or one of them. Each
  failure path, the late reaper and a restart by each of handler, watchdog and collector
  are reached; the safety theorems hold for any number of everything.
  `supervisor_live` has one fault, crash and lapse and leaves the handler out: nobody but
  the program itself must repair what failed; its lists name nothing or the custom inbound,
  which may be missing for want of its row or of the keys.
- `traffic`: one user, three bytes with a quota of two, so that the quota is met exactly
  and overrun; one fault, crash, restart and deletion. The refinement is proved for all values.
  Two sessions, one request at a time, a clock that passes a lifetime.
- `boot`, routing: paths of up to two segments over characters that can almost spell a
  reserved word, in both cases, three rows. Proved for all paths.
- `inbounds`: two handlers, two probed ports and one that is not, a limit of two, four
  creations, one failure. Proved for all values.
- `links`: one client, every subset of five spellings, up to two custom inbounds of
  four kinds, every environment. Clients do not interact in any of the renderings.
- `panel`: five logins of two addresses over two and a half windows; one session with two
  requests and a restart; three setups; two PUTs with every body over two toggles and one
  text; one client with two requests, quotas below, at and above `int64` and a
  byte, two days; two sockets and one broadcaster; four polls under way.
- `boot`: an old container that knows versions 1 and 2, a new one that also knows 10, three
  faults; the binary with three faults and a minute of two ticks. Its safety is proved for
  any number of containers, versions and faults. One socket with two broadcasters, pinger
  and peer: sockets share only the set `conns`, and the safety of the hub is proved for
  any number.

### Fairness

No fairness is assumed of requests, traffic, failures, crashes, lapses, deletions,
signals, peers or of Redis. Assumed are: the scheduler runs a goroutine that can run, a
ticker ticks, a timer fires (weak fairness); a waiter of a `sync.Mutex` gets it in the
end (strong fairness: after 1 ms of waiting Go hands the mutex over in order); of the ready
cases of a `select`, each is taken in the end (strong fairness: the choice is random);
a read or write with a deadline ends. `Sessions` assumes that requests keep
coming while the panel is open: the sweep runs on their back. `Boot` and `Provision` assume
that the platform restarts a container that died and that Postgres ends a wait for a
lock; faults are bounded, so what is promised comes after the last one.

`CHECK_DEADLOCK FALSE` appears where the system may stop: `main` returns
(`supervisor*`, `traffic*`), or logins, requests and the clock are counted and a
dashboard may be unmounted (`panel`, `limiter_*`, `client_lists`).

## Proofs

TLAPS checks the theorems for every value of the constants that satisfies the
assumptions named in the modules that declare them (`HandlersAssumption`, `ListsAssumption`, `BoundsAssumption`,
`TrafficBounds`, `CharAssumption`, `ReservedAssumption`, `PathAssumption`,
`InboundsAssumption`, `LinksAssumption`, `LimiterAssumption`, `SessionsAssumption`,
`BootAssumption`), or in the theorem itself where a module is used by `INSTANCE`
and the runs need no more: `Names # {}`, `MaxInFlight \in Nat`, `MaxUsage \in Nat` and
`Minute \in Nat` give bounds their type; `ClientsSane` says that an `int64` holds the bound
on quotas; `FormsSane` that a body's list holds tags; `SettingsSane` which keys of a PUT are
texts, and that there is a server name other than the empty one. `LinksAssumption`
has, besides the form of the rows, that no tag of a custom inbound is a built-in key:
`createInbound` makes them as `ib-` and random characters, and the column is unique.
Each proof is an inductive invariant, one step per action, and the property from it.
The two theorems `PartsOnTheirOwn` carry the theorems about a part alone over to the joint
runs of `MCPanel` and `MCBoot`.

- `Supervisor_proofs`. `OneEngine` is not inductive: it needs to know who may replace
  the child. The chain is `TypeOK`; `LockInv` (`mu` is held by exactly the goroutine
  that is inside, and `step` agrees with its `job`); `ChildInv` (a child other than `cur`
  is dead, `running` iff `cur` is not 0, there is no current child at `spawn`);
  `ConfigInv` (the fingerprint is the current child's config and the active set the clients that
  config was rendered for, `confFile` is the
  rendered build once it is written, a child is replaced without force only for
  another config); `FreshInv` (without faults, lapses and handlers that still wait,
  whatever a running `Build` has read is what the database holds, and with the mutex
  free the child runs it). Refinement of `Engine` follows from `ChildInv`. `WaitInv`:
  `stopLocked` waits only for a child that was signalled or is dead; with it
  `HolderGoesForward` counts the stations up to `Unlock`: no step of anybody raises the
  count, and each step of the holder or of the child it waits for lowers it.
  `StopReturnsClear`: when `Stop` returns no child is alive, which `supervisor_stop`
  refutes for later.
- `Traffic_proofs`. `Control` (the hook runs only in its phase of `Restart` or `Stop`, and
  a ticker that restarts waits) and `Drained` (a collector has a batch in hand only
  while it writes it, so a read never overwrites deltas that are not in Postgres yet)
  make `Conserved` inductive. `TrafficImplementsBilling` maps every step: a byte counted is a
  `Transfer`, a written row a `Bill`, a lost answer, a failed write or a dead child a
  `GiveUp`, the rest stutters. `CutOffForGood`: a client that is over its quota
  or gone and neither served nor in the set a running `Build` has read stays out.
- `Routing_proofs`. `RoutesInv` ties the registry to the table; lemmas on sequences show
  that two matches of one length are one path, and that a path which passes the
  checks is no prefix, up to segments, of a reserved one.
- `Inbounds_proofs`. `ClashInv`: a row that is in the table when a request comes in is
  seen by its port and path checks (`SeenInv`, `PortInv`, `PathInv`); `BoundInv` counts the
  requests that have passed the limit check; `AloneInv` for a single handler gives
  distinct ports and paths outright. `SyncInv`: while no two
  handlers were at the registry together, the one that is has read the table.
- `Links_proofs`. `RowsValid` (what `createInbound` lets into the table) and a case per
  link. `JSONAgrees` maps the outbounds to the links place by place (`PlaceFacts`,
  `JSONAsLinks`) and holds while `TCP_PORT` carries no sign: `portOrEmpty` keeps `+8443` for
  the link and the JSON's `atoi` does not read it, so there the two dial different ports.
  `OutboundTagsAlwaysDistinct` rests on `TagsUnique`, the column's constraint.
- `Panel_proofs` (`LoginLimiter`, `Setup`, `Settings`, `Clients` and `UseLive`, as
  `MCPanel` instantiates them, with its constants arbitrary). `Agree`: pruned list and
  history agree inside the window, so the limiter implements `LoginWindow`
  (`LimiterIsIdeal`). `NoneEmpty`: no list on the map is empty, which is why the sweep
  never drops one (`SweepDropsNothing`; what `limiter_sweep` shows once). `Pairs`, `Blind`:
  a request whose INSERT runs has met every other one that runs and every row.
  `Current`: what a PUT loaded is the row until another one writes. `Stored`, `Checked`,
  `Meant`: a row holds what its history says was asked for, and what a request is about
  to write has passed its checks. `PutsInv`, `ClientsTyped`: what a request holds between its
  check and its write is legal, so the rows stay in their ranges
  (`SettingsAlwaysLegal`, `ClientsAlwaysTyped`). `Timers`: where the socket is when a timer runs.
- `Live_proofs` (`Sessions` and `Hub`, the same way). `Unique`, `Timely`, `Held`,
  `Unconfigured`, `Gone`: what an entry in either store says of the session's birth, end
  and this run of the process. `Connected`, `Tracked`, `IdleEmpty`: who may be inside a
  socket's write and what a broadcast still has before it. `BroadcastGoesForward`: fewer
  sockets before it, or nearer to its next turn, with each of its steps;
  `NothingComesBack`: what is left of a socket stays off.
- `Boot_proofs` (`Boot` and `Provision`, as `MCBoot` has them). `Behind`: the versions and
  rows a container went past are in the database. `Alone`, `Fresh`: one transaction at a time
  runs a script, and it was not committed before. `Early`: a row that is absent was
  absent when the container started. `Awaited`, `Vouched`: an attempt begins only without
  a file, and what it extracts is whole or met no manifest. `BootGoesForward`: in the
  lexicographic order of the migrations that are lacking, the place in `main` and the
  versions left, each step of a boot without an error goes down, also when another
  container commits the script this one is at. `EngineStaysUp` and `EngineComesCloser` do
  the same for the binary, with `Distance` as the measure.

Only model-checked: liveness (`MuReleased`, `UsersConverge`, `QuotaEnforced`,
`LiveConverges`, `ExpiredLeave`, `NothingLeft`, `CastReturns`, `ServesInTheEnd`,
`EngineComesUp`). The prover knows neither fairness nor `ENABLED`, and that a decreasing
measure comes to its end is an induction over data. What a proof of them would rest on is
proved where the design has such a measure:

| Liveness | Its safety half |
|---|---|
| `MuReleased` | `HolderGoesForward`, `WaitsOnlyForTheDying` |
| `CastReturns` | `BroadcastGoesForward` |
| `ServesInTheEnd` | `BootGoesForward` |
| `EngineComesUp` | `EngineComesCloser`, `EngineStaysUp` |
| `NothingLeft` | `NothingComesBack` (that it stays so) |
| `QuotaEnforced` | `CutOffForGood` (that it stays so) |

The other three have no such half here: `UsersConverge`, `LiveConverges` and `ExpiredLeave`
ask for the same thing again and again until it works, so that nothing gets closer in
between.

## Where code and comments disagree

Five comments are refuted by a run: `Stop` terminates Xray (`supervisor_stop`), no usage
is lost on redeploys (`traffic_stop`), idle addresses are dropped from a large map
(`limiter_sweep`), the limiter is "fixed-window" while the code keeps a sliding one
(`limiter_window`), and an unknown tag is rejected up front, while one with blanks around it
is accepted, stored and matches nothing (`client_lists`).

Two more are imprecise: `BuiltResult.Active` is "client ids included in this config"
(`config.go:122`) and `ActiveSet` "the client ids present in the running config"
(`supervisor.go:433`), but both have every client that `LoadClients` returned
(`config.go:167-170`), also one whose list names only what is off, deleted or left out for
want of keys. `ActiveHonest` and `UsersConverge` state what is true of them.

Elsewhere the strongest property one might wish for does not hold and
the project states the one that does; where it speaks of overlapping requests it
excuses the race instead of ruling it out:

- two inbounds may share a port or a path when their requests overlap;
- the route registry may stay stale when two syncs overlap, or when the read of one
  breaks off;
- two admins may be created when two INSERTs run at the same time;
- a PUT of the settings undoes what another PUT wrote since it loaded the row;
- `BuiltinReachable` holds for built-in paths of one segment; a custom path may capture
  one of two, and the run has none of those;
- two first boots that overlap may both make keys, and one overwrites the other's; from
  then on they never change (`SeedsOnlyFirst`);
- a positive quota below one byte becomes 0, which is unlimited (`LimitsHold`);
- the tag of a deleted inbound stays in the lists, where it grants nothing
  (`PlainEntriesGrant`, `ListsGrant`);
- a damaged archive that opens and meets no manifest is installed, and nothing replaces
  it later: a regular file at the path is taken as it is (`BinaryTrusted`, `EngineComesUp`);
- a rebuild that failed is not retried for a change of settings, lists or inbounds, since the
  collector compares client ids only: `Fresh` excludes faults;
- a failed read of the Reality keys costs the child its Reality inbounds, and a client listed
  for those alone everything, until something else restarts it (`UsersConverge` allows for it).

## Not modelled

The handler of the static UI and the rest of the web UI are presentation; the demo backend
is no part of the product; key generation and hashing are cryptography; the parsing of the
environment (`config.go`) is conversion of text whose results are the constants of the
modules; `TailLog`, `Info`, the access log and the statistics of `state` only read.

## Plan

The order was: the supervisor with its callers, because everything else goes through it;
the counters that must survive its restarts; what the restarts render (`Links`) and what
reaches it (`Routing`, `Inbounds`); then the panel's own state (`LoginLimiter`,
`Sessions`, `Setup`, `Settings`, `Clients`, `Hub`, `UseLive`) and the way to it (`Boot`,
`Provision`). Left:

1. An abstract server of one socket that `Hub` implements, composed with `UseLive`: after
   a broken socket the dashboard is fed again. The direct product of the two has
   millions of states with two sockets and is too large for liveness.
2. `Supervisor` and `Traffic` composed: the hook inside a restart that fails.
3. An abstract session service (a set of live tokens) that `Sessions` implements while
   Redis works.
4. Proofs: the refinements that items 1 and 3 bring with them.

