-------------------------------- MODULE Provision --------------------------------
(***************************************************************************)
(* How a container gets its Xray binary and keeps the engine up            *)
(* (xray/supervisor.go: EnsureBinary, verifyChecksum, Watchdog; main).     *)
(* main provisions once and starts the engine whatever came of it; the     *)
(* watchdog then looks every few seconds.  The two never run at the same   *)
(* time, but the process may die at any step and find on the disk what it  *)
(* left there.                                                             *)
(*                                                                         *)
(*  - A file is none, whole, altered (damaged on its way) or torn (not     *)
(*    written to its end).  Temporary files have random names: those of an *)
(*    earlier process are never read again and left out.                   *)
(*  - Starting the engine is one step; what Restart does is in Supervisor. *)
(*  - MaxFaults bounds failures, crashes and deaths of the engine.         *)
(***************************************************************************)
EXTENDS Naturals

CONSTANTS
  Minute,   \* between two attempts of the watchdog
  MaxFaults \* bound

VARIABLES
  pc,      \* where main or the watchdog is
  bin,     \* the file at XrayBin
  zip,     \* the archive under its temporary name
  since,   \* time since lastProvision, as far as it matters
  running,
  faults,
  unsure   \* history: the archive of this attempt met no manifest

vars == <<pc, bin, zip, since, running, faults, unsure>>

Never == Minute + 1

TypeOK ==
  /\ pc \in {"none", "down", "stat", "download", "verify", "extract", "install", "start", "watch"}
  /\ bin \in {"none", "whole", "altered", "torn"} /\ zip \in {"none", "whole", "altered"}
  /\ since \in 0..Never
  /\ running \in BOOLEAN /\ unsure \in BOOLEAN
  /\ faults \in 0..MaxFaults

\* The image brings the binary or it does not.
Init ==
  /\ pc = "none"
  /\ bin \in {"none", "whole"}
  /\ zip = "none"
  /\ since = Never
  /\ running = FALSE
  /\ faults = 0
  /\ unsure = FALSE

Fault == faults < MaxFaults /\ faults' = faults + 1

\* lastProvision is the zero time.
Begins ==
  /\ pc' = "stat"
  /\ since' = Never
  /\ UNCHANGED <<bin, zip, running, faults, unsure>>

Deploy == pc = "none" /\ Begins
Restart == pc = "down" /\ Begins

-----------------------------------------------------------------------------
(* EnsureBinary; an error leads where its end does, to the start of the engine *)

\* A regular file is taken as it is.
Stat ==
  /\ pc = "stat"
  /\ pc' = IF bin = "none" THEN "download" ELSE "start"
  /\ UNCHANGED <<bin, zip, since, running, faults, unsure>>

\* GET and io.Copy: the archive, one that was damaged, or an error.
Download ==
  /\ pc = "download"
  /\ unsure' = FALSE
  /\ \/ zip' = "whole" /\ pc' = "verify" /\ UNCHANGED faults
     \/ zip' = "altered" /\ pc' = "verify" /\ Fault
     \/ zip' = "none" /\ pc' = "start" /\ Fault
  /\ UNCHANGED <<bin, since, running>>

\* Mutant of AfterMismatch: a mismatch is only logged, like a missing manifest.
AfterMismatchExtract == "extract"

\* "refusing to extract"
AfterMismatch == "start"

\* verifyChecksum: the manifest decides, without it nothing does.
Verify ==
  /\ pc = "verify"
  /\ \/ /\ pc' = IF zip = "whole" THEN "extract" ELSE AfterMismatch
        /\ UNCHANGED <<faults, unsure>>
     \/ pc' = "extract" /\ unsure' = TRUE /\ Fault
  /\ UNCHANGED <<bin, zip, since, running>>

\* Mutant of WhileExtracting: straight to the final path, as it used to be.
WhileExtractingInPlace == "torn"

\* os.CreateTemp: the final path is not touched.
WhileExtracting == bin

\* The first byte of the entry; a damaged archive may not open.
Extract ==
  /\ pc = "extract"
  /\ \/ pc' = "install" /\ bin' = WhileExtracting
     \/ zip = "altered" /\ pc' = "start" /\ UNCHANGED bin
  /\ UNCHANGED <<zip, since, running, faults, unsure>>

\* The last byte, chmod and rename; or one of them fails.
Install ==
  /\ pc = "install"
  /\ pc' = "start"
  /\ \/ bin' = zip /\ UNCHANGED faults
     \/ UNCHANGED bin /\ Fault
  /\ UNCHANGED <<zip, since, running, unsure>>

EnsureBinary == Stat \/ Download \/ Verify \/ Extract \/ Install

-----------------------------------------------------------------------------
(* The engine *)

\* sup.Restart, in main and in the watchdog.
StartEngine ==
  /\ pc = "start"
  /\ pc' = "watch"
  /\ \/ running' = (bin = "whole") /\ UNCHANGED faults
     \/ bin = "altered" /\ running' = TRUE /\ UNCHANGED faults
     \/ running' = FALSE /\ Fault
  /\ UNCHANGED <<bin, zip, since, unsure>>

\* Mutant of ProvisionDue: only main provisions.
ProvisionDueNever == FALSE

\* The file is missing and the last attempt of the watchdog began over a minute ago.
ProvisionDue == bin = "none" /\ since > Minute

\* A tick of the watchdog.
WatchTick ==
  /\ pc = "watch"
  /\ \/ running /\ UNCHANGED <<pc, since>>
     \/ ~running /\ ProvisionDue /\ pc' = "stat" /\ since' = 0
     \/ ~running /\ ~ProvisionDue /\ pc' = "start" /\ UNCHANGED since
  /\ UNCHANGED <<bin, zip, running, faults, unsure>>

EngineDies ==
  /\ running
  /\ Fault
  /\ running' = FALSE
  /\ UNCHANGED <<pc, bin, zip, since, unsure>>

\* The process dies, its engine with the container; the disk stays.
Die ==
  /\ pc \notin {"none", "down"}
  /\ Fault
  /\ pc' = "down"
  /\ running' = FALSE
  /\ zip' = "none"
  /\ UNCHANGED <<bin, since, unsure>>

Pass ==
  /\ pc # "none" /\ since < Never
  /\ since' = since + 1
  /\ UNCHANGED <<pc, bin, zip, running, faults, unsure>>

-----------------------------------------------------------------------------

Program == EnsureBinary \/ StartEngine \/ WatchTick

Next == Deploy \/ Restart \/ Program \/ EngineDies \/ Die \/ Pass

Spec == Init /\ [][Next]_vars

\* The platform restarts what died, a goroutine runs on, the ticker ticks, time passes.
Fairness == WF_vars(Restart) /\ WF_vars(Program) /\ WF_vars(Pass)

LiveSpec == Spec /\ Fairness

-----------------------------------------------------------------------------

\* "a crash mid-extract used to leave a truncated binary at the final path", "a
\* mismatch is a hard error": wherever the process dies, the file the next boot
\* accepts is complete, and one that was damaged comes from an attempt that found
\* no manifest (EnsureBinary, verifyChecksum).
BinaryTrusted == bin \in {"none", "whole"} \/ (bin = "altered" /\ unsure)

\* "Restart alone can never recover from a missing binary": after the last failure
\* the engine runs for good, unless a damaged file got through (Watchdog).
EngineComesUp == pc # "none" ~> [](running \/ bin = "altered")
=============================================================================
