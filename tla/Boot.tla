---------------------------------- MODULE Boot ----------------------------------
(***************************************************************************)
(* From the start of a container to the panel that serves (cmd/api/main.go,*)
(* db/db.go, store/store.go): migrations, seed of the settings, seed of    *)
(* the Reality keys, all in a Postgres that other containers boot against  *)
(* at the same time: a deploy starts the new one while the old one runs,   *)
(* and the platform restarts what died.                                    *)
(*                                                                         *)
(*  - A statement is one step.  Any error but the absence of a row ends    *)
(*    the process (log.Fatal), which is the same as a crash there: Die.    *)
(*  - An open transaction dies with its process.  Postgres makes two       *)
(*    scripts with the same tables, or two rows with one primary key, wait *)
(*    for each other's transaction.                                        *)
(*  - What serving does is in the other modules; here it saves settings.   *)
(*    Redis is in Sessions, the binary in Provision.                       *)
(*  - MaxFaults bounds errors, crashes and terminations.                   *)
(***************************************************************************)
EXTENDS Naturals

CONSTANTS
  Instances, \* containers
  Versions,  \* of all migrations
  Newest,    \* the newest migration the image of each container has
  MaxFaults  \* bound

ASSUME BootAssumption ==
  /\ Versions \subseteq Nat
  /\ Newest \in [Instances -> Nat]
  /\ MaxFaults \in Nat

VARIABLES
  pc,
  todo,    \* the versions Migrate has before it, in their order
  applied, \* rows of schema_migrations
  stored,  \* the rows panel and reality of settings
  faults,
  \* history
  ran,     \* how often each script was committed
  minted,  \* key pairs made so far
  missing  \* the rows that were absent when the container started

vars == <<pc, todo, applied, stored, faults, ran, minted, missing>>

Rows == {"panel", "reality"}
Absent == 0

\* Of panel: 1 are the defaults, 2 what an admin saved.  Of reality: the number of
\* the key pair.
Defaults == 1
Saved == 2

Seeding == [seedPanel |-> "panel", seedReality |-> "reality"]

Steps == {"none", "down", "connect", "check", "body", "record", "commit", "readPanel",
          "seedPanel", "readReality", "seedReality", "launch", "serving"}

TypeOK ==
  /\ pc \in [Instances -> Steps]
  /\ todo \in [Instances -> SUBSET Versions]
  /\ applied \subseteq Versions
  /\ stored \in [Rows -> Nat]
  /\ faults \in 0..MaxFaults
  /\ ran \in [Versions -> Nat]
  /\ minted \in Nat
  /\ missing \in [Instances -> SUBSET Rows]

Init ==
  /\ pc = [i \in Instances |-> "none"]
  /\ todo = [i \in Instances |-> {}]
  /\ applied = {}
  /\ stored = [k \in Rows |-> Absent]
  /\ faults = 0
  /\ ran = [v \in Versions |-> 0]
  /\ minted = 0
  /\ missing = [i \in Instances |-> {}]

At(i, step) == pc[i] = step

Goto(i, step) == pc' = [pc EXCEPT ![i] = step]

\* An error is one of the bounded faults.
Fault == faults < MaxFaults /\ faults' = faults + 1

-----------------------------------------------------------------------------
(* The platform *)

Begins(i) ==
  /\ Goto(i, "connect")
  /\ missing' = [missing EXCEPT ![i] = {k \in Rows : stored[k] = Absent}]
  /\ UNCHANGED <<todo, applied, stored, faults, ran, minted>>

Deploy(i) == At(i, "none") /\ Begins(i)

\* restart: unless-stopped
Restart(i) == At(i, "down") /\ Begins(i)

\* A crash, SIGTERM, or an error that main answers with log.Fatal.
Die(i) ==
  /\ pc[i] \notin {"none", "down"}
  /\ Fault
  /\ Goto(i, "down")
  /\ UNCHANGED <<todo, applied, stored, ran, minted, missing>>

-----------------------------------------------------------------------------
(* Migrate *)

\* Mutant of Due: the newest first.
DueReversed(vs) == {v \in vs : \A w \in vs : v >= w}

\* The next one of the list that sort.Slice made: the lowest version.
Due(vs) == {v \in vs : \A w \in vs : v <= w}

\* Connect, CREATE TABLE IF NOT EXISTS schema_migrations, ReadDir.
Connect(i) ==
  /\ At(i, "connect")
  /\ Goto(i, "check")
  /\ todo' = [todo EXCEPT ![i] =
       {v \in Versions : v <= Newest[i]}]
  /\ UNCHANGED <<applied, stored, faults, ran, minted, missing>>

\* Mutant of AfterApplied: a version that is there is an error.
AfterAppliedDown == "down"

\* continue
AfterApplied == "check"

\* Mutant of AfterError: main logs the error of Migrate and goes on.
AfterErrorSeed == "readPanel"

\* log.Fatalf("migrate: ...")
AfterError == "down"

\* SELECT EXISTS.  Past the last version the seeds begin.
CheckVersion(i) ==
  /\ At(i, "check")
  /\ \/ todo[i] = {} /\ Goto(i, "readPanel") /\ UNCHANGED <<todo, faults>>
     \/ \E v \in Due(todo[i]) \cap applied :
          /\ Goto(i, AfterApplied)
          /\ todo' = [todo EXCEPT ![i] = @ \ {v}]
          /\ UNCHANGED faults
     \/ Due(todo[i]) \ applied # {} /\ Goto(i, "body") /\ UNCHANGED <<todo, faults>>
     \/ todo[i] # {} /\ Goto(i, AfterError) /\ Fault /\ UNCHANGED todo
  /\ UNCHANGED <<applied, stored, ran, minted, missing>>

\* Another transaction that has run the script or inserted the row.
Locked(i) ==
  \E j \in Instances \ {i} :
    pc[j] \in {"record", "commit"} /\ Due(todo[j]) = Due(todo[i])

\* BEGIN and the script.  One that meets the tables of another container may find
\* them there (IF NOT EXISTS) or fail.
RunBody(i) ==
  /\ At(i, "body")
  /\ ~Locked(i)
  /\ \/ Goto(i, "record")
     \/ Due(todo[i]) \subseteq applied /\ Goto(i, "down")
  /\ UNCHANGED <<todo, applied, stored, faults, ran, minted, missing>>

\* Mutant of AfterConflict: INSERT ... ON CONFLICT DO NOTHING.
AfterConflictCommit == "commit"

\* Rollback, and the error ends the process.
AfterConflict == "down"

\* INSERT INTO schema_migrations
Record(i) ==
  /\ At(i, "record")
  /\ Goto(i, IF Due(todo[i]) \subseteq applied THEN AfterConflict ELSE "commit")
  /\ UNCHANGED <<todo, applied, stored, faults, ran, minted, missing>>

\* COMMIT; its answer may be lost (then Die follows).
Commit(i) ==
  /\ At(i, "commit")
  /\ \E v \in Due(todo[i]) :
       /\ applied' = applied \cup {v}
       /\ ran' = [ran EXCEPT ![v] = @ + 1]
       /\ todo' = [todo EXCEPT ![i] = @ \ {v}]
  /\ Goto(i, "check")
  /\ UNCHANGED <<stored, faults, minted, missing>>

-----------------------------------------------------------------------------
(* EnsurePanelSettings, EnsureReality *)

\* Mutant of OnReadError: any error counts as "no row yet".
OnReadErrorSeed(seed) == seed

\* Only ErrNoRows seeds.
OnReadError(seed) == "down"

\* GetJSON: the row, its absence or another error.
ReadRow(i, read, k, seed, next) ==
  /\ At(i, read)
  /\ \/ Goto(i, IF stored[k] = Absent THEN seed ELSE next) /\ UNCHANGED faults
     \/ Goto(i, OnReadError(seed)) /\ Fault
  /\ UNCHANGED <<todo, applied, stored, ran, minted, missing>>

ReadPanel(i) == ReadRow(i, "readPanel", "panel", "seedPanel", "readReality")
ReadReality(i) == ReadRow(i, "readReality", "reality", "seedReality", "launch")

\* PutJSON overwrites (ON CONFLICT DO UPDATE).
SeedPanel(i) ==
  /\ At(i, "seedPanel")
  /\ stored' = [stored EXCEPT !["panel"] = Defaults]
  /\ Goto(i, "readReality")
  /\ UNCHANGED <<todo, applied, faults, ran, minted, missing>>

\* GenerateReality and PutJSON.
SeedReality(i) ==
  /\ At(i, "seedReality")
  /\ minted' = minted + 1
  /\ stored' = [stored EXCEPT !["reality"] = minted']
  /\ Goto(i, "launch")
  /\ UNCHANGED <<todo, applied, faults, ran, missing>>

\* The engine, the collector and ListenAndServe: errors of the engine are logged.
Launch(i) ==
  /\ At(i, "launch")
  /\ Goto(i, "serving")
  /\ UNCHANGED <<todo, applied, stored, faults, ran, minted, missing>>

\* PUT /api/settings
SavePanel(i) ==
  /\ At(i, "serving")
  /\ stored' = [stored EXCEPT !["panel"] = Saved]
  /\ UNCHANGED <<pc, todo, applied, faults, ran, minted, missing>>

-----------------------------------------------------------------------------

Main(i) ==
  \/ Connect(i) \/ CheckVersion(i) \/ RunBody(i) \/ Record(i) \/ Commit(i)
  \/ ReadPanel(i) \/ SeedPanel(i) \/ ReadReality(i) \/ SeedReality(i) \/ Launch(i)

Next ==
  \E i \in Instances : Deploy(i) \/ Restart(i) \/ Die(i) \/ Main(i) \/ SavePanel(i)

Spec == Init /\ [][Next]_vars

\* The platform restarts what died, a process runs on, Postgres ends a wait.
Fairness == \A i \in Instances : WF_vars(Restart(i)) /\ WF_vars(Main(i))

LiveSpec == Spec /\ Fairness

-----------------------------------------------------------------------------

\* "idempotent, ordered by parsed version number, each inside its own transaction":
\* whatever overlaps and wherever a boot dies, a script is committed once, together
\* with its row and after its predecessors, and nobody serves before the last
\* one or without settings and keys (Migrate, main).
SchemaSound ==
  /\ \A v \in Versions : ran[v] = (IF v \in applied THEN 1 ELSE 0)
  /\ \A v \in applied, w \in Versions : w < v => w \in applied
  /\ \A i \in Instances : pc[i] = "serving" =>
       /\ {v \in Versions : v <= Newest[i]} \subseteq applied
       /\ \A k \in Rows : stored[k] # Absent

\* "so they never change across redeploys", "a transient DB error must never mint a
\* new keypair", "would silently reset the panel to defaults": a seed changes a row
\* only when its container was started before there was one, in an overlapping first
\* boot at worst; no later container ever does (EnsurePanelSettings, EnsureReality).
SeedsOnlyFirst ==
  [][\A i \in Instances :
       pc[i] \in DOMAIN Seeding /\ pc'[i] # pc[i] =>
         LET k == Seeding[pc[i]]
         IN stored'[k] = stored[k] \/ k \in missing[i]]_vars

\* Boots that met each other, an error or a crash halfway leave nothing a later one
\* cannot get past: a container that was started serves in the end (main).
ServesInTheEnd ==
  \A i \in Instances : pc[i] # "none" ~> [](pc[i] = "serving")
=============================================================================
