------------------------------- MODULE Boot_proofs -------------------------------
(***************************************************************************)
(* What a container that got so far knows of the database (Behind): what   *)
(* it has not before it is applied, and the rows it went past are there.   *)
(* A script that is under way has one transaction (Alone), and a row that  *)
(* is absent was absent when the container started (Early).  Of the binary *)
(* (Provision): an attempt begins only without a file (Awaited), and what  *)
(* it extracts is whole unless nothing vouched for it (Vouched).           *)
(*                                                                         *)
(* Of both: a measure of the way to serving and to a running engine which  *)
(* only errors raise (GoesForward, ComesCloser).                           *)
(***************************************************************************)
EXTENDS MCBoot, TLAPS

Scripts == {"record", "commit"}
Started(i) == pc[i] \notin {"none", "down"}
Migrated(i) == pc[i] \in {"readPanel", "seedPanel", "readReality", "seedReality", "launch", "serving"}
Panelled(i) == pc[i] \in {"readReality", "seedReality", "launch", "serving"}
Ready(i) == pc[i] \in {"launch", "serving"}

BehindOf(i) ==
  /\ \A v \in todo[i] : v <= Newest[i]
  /\ Started(i) /\ pc[i] # "connect" =>
       \A v \in Versions : v <= Newest[i] => v \in todo[i] \cup applied
  /\ Migrated(i) => todo[i] = {}
  /\ Panelled(i) => stored["panel"] # Absent
  /\ Ready(i) => stored["reality"] # Absent

Behind == \A i \in Instances : BehindOf(i)

Alone ==
  \A i, j \in Instances :
    pc[i] \in Scripts /\ pc[j] \in Scripts /\ Due(todo[i]) = Due(todo[j]) => i = j

\* The script of a transaction that is about to end was not committed by another.
Fresh == \A i \in Instances : pc[i] = "commit" => Due(todo[i]) \cap applied = {}

EarlyOf(i) ==
  Started(i) =>
    /\ \A k \in Rows : stored[k] = Absent => k \in missing[i]
    /\ pc[i] = "seedPanel" => "panel" \in missing[i]
    /\ pc[i] = "seedReality" => "reality" \in missing[i]

Early == \A i \in Instances : EarlyOf(i)

Once == \A v \in Versions : ran[v] = (IF v \in applied THEN 1 ELSE 0)

InOrder == \A v \in applied, w \in Versions : w < v => w \in applied

IInv == TypeOK /\ Behind /\ Alone /\ Fresh /\ Early /\ Once /\ InOrder

-----------------------------------------------------------------------------

\* Before the first deployment nothing is applied, stored or under way.
LEMMA InitInv == Init => IInv
<1> SUFFICES ASSUME Init PROVE IInv
  OBVIOUS
<1> USE DEF Init
<1>1. TypeOK
  BY BootAssumption DEF TypeOK, Steps, Rows, Absent
<1>2. Behind /\ Alone /\ Fresh /\ Early
  BY DEF Behind, BehindOf, Alone, Fresh, Early, EarlyOf, Started, Migrated, Panelled, Ready,
         Scripts
<1>3. Once /\ InOrder
  BY DEF Once, InOrder
<1>4. QED
  BY <1>1, <1>2, <1>3 DEF IInv

\* No step leaves the types.
LEMMA TypeStep == TypeOK /\ [Next]_vars => TypeOK'
<1> SUFFICES ASSUME TypeOK, [Next]_vars PROVE TypeOK'
  OBVIOUS
<1> USE BootAssumption DEF TypeOK, Goto, At, Fault, Steps
<1>1. ASSUME NEW i \in Instances, Deploy(i) \/ Restart(i) PROVE TypeOK'
  <2>1. missing' \in [Instances -> SUBSET Rows]
    BY <1>1 DEF Deploy, Restart, Begins
  <2>2. QED
    BY <1>1, <2>1 DEF Deploy, Restart, Begins
<1>2. ASSUME NEW i \in Instances, Die(i) PROVE TypeOK'
  BY <1>2 DEF Die
<1>3. ASSUME NEW i \in Instances, Connect(i) PROVE TypeOK'
  BY <1>3 DEF Connect
<1>4. ASSUME NEW i \in Instances, CheckVersion(i) PROVE TypeOK'
  <2>1. pc' \in [Instances -> Steps]
    BY <1>4 DEF CheckVersion, AfterApplied, AfterError
  <2>2. todo' \in [Instances -> SUBSET Versions]
    BY <1>4 DEF CheckVersion
  <2>3. faults' \in 0..MaxFaults
    BY <1>4 DEF CheckVersion
  <2>4. QED
    BY <1>4, <2>1, <2>2, <2>3 DEF CheckVersion
<1>5. ASSUME NEW i \in Instances, RunBody(i) \/ Record(i) PROVE TypeOK'
  BY <1>5 DEF RunBody, Record, AfterConflict
<1>6. ASSUME NEW i \in Instances, Commit(i) PROVE TypeOK'
  BY <1>6 DEF Commit, Due
<1>7. ASSUME NEW i \in Instances, ReadPanel(i) \/ ReadReality(i) PROVE TypeOK'
  <2>1. pc' \in [Instances -> Steps]
    BY <1>7 DEF ReadPanel, ReadReality, ReadRow, OnReadError
  <2>2. faults' \in 0..MaxFaults
    BY <1>7 DEF ReadPanel, ReadReality, ReadRow
  <2>3. QED
    BY <1>7, <2>1, <2>2 DEF ReadPanel, ReadReality, ReadRow
<1>8. ASSUME NEW i \in Instances, SeedPanel(i) PROVE TypeOK'
  BY <1>8 DEF SeedPanel, Rows, Defaults
<1>9. ASSUME NEW i \in Instances, SeedReality(i) PROVE TypeOK'
  BY <1>9 DEF SeedReality, Rows
<1>10. ASSUME NEW i \in Instances, Launch(i) PROVE TypeOK'
  BY <1>10 DEF Launch
<1>11. ASSUME NEW i \in Instances, SavePanel(i) PROVE TypeOK'
  BY <1>11 DEF SavePanel, Rows, Saved
<1>12. CASE UNCHANGED vars
  BY <1>12 DEF vars
<1>13. QED
  BY <1>1, <1>2, <1>3, <1>4, <1>5, <1>6, <1>7, <1>8, <1>9, <1>10, <1>11, <1>12 DEF Next, Main

Step(i) == Deploy(i) \/ Restart(i) \/ Die(i) \/ Main(i) \/ SavePanel(i)

\* What is applied or stored stays, and a container moves alone.
LEMMA Frame ==
  ASSUME TypeOK, NEW i \in Instances, Step(i)
  PROVE  /\ applied \subseteq applied'
         /\ \A k \in Rows : stored[k] # Absent => stored'[k] # Absent
         /\ \A j \in Instances \ {i} :
              pc'[j] = pc[j] /\ todo'[j] = todo[j] /\ missing'[j] = missing[j]
<1> USE DEF TypeOK, Goto, At
<1>1. CASE Deploy(i) \/ Restart(i) \/ Die(i)
  BY <1>1 DEF Deploy, Restart, Begins, Die
<1>2. CASE Connect(i) \/ CheckVersion(i)
  BY <1>2 DEF Connect, CheckVersion
<1>3. CASE RunBody(i) \/ Record(i)
  BY <1>3 DEF RunBody, Record
<1>4. CASE Commit(i)
  BY <1>4 DEF Commit
<1>5. CASE ReadPanel(i) \/ ReadReality(i)
  BY <1>5 DEF ReadPanel, ReadReality, ReadRow
<1>6. CASE SeedPanel(i) \/ SavePanel(i)
  BY <1>6 DEF SeedPanel, SavePanel, Absent, Defaults, Saved
<1>7. CASE SeedReality(i)
  BY <1>7 DEF SeedReality, Absent
<1>8. CASE Launch(i)
  BY <1>8 DEF Launch
<1>9. QED
  BY <1>1, <1>2, <1>3, <1>4, <1>5, <1>6, <1>7, <1>8 DEF Step, Main

\* A step of container i keeps Behind, for it and for the others.
LEMMA BehindStep ==
  ASSUME TypeOK, Behind, NEW i \in Instances, Step(i)
  PROVE  Behind'
<1>1. ASSUME NEW j \in Instances \ {i} PROVE BehindOf(j)'
  BY Frame DEF Behind, BehindOf, Started, Migrated, Panelled, Ready, Rows
<1>2. BehindOf(i)'
  <2> USE DEF TypeOK, Behind, BehindOf, Goto, At, Started, Migrated, Panelled, Ready
  <2>1. CASE Deploy(i) \/ Restart(i) \/ Die(i)
    BY <2>1 DEF Deploy, Restart, Begins, Die
  <2>2. CASE Connect(i)
    BY <2>2 DEF Connect
  <2>3. CASE CheckVersion(i)
    BY <2>3 DEF CheckVersion, AfterApplied, AfterError
  <2>4. CASE RunBody(i) \/ Record(i)
    BY <2>4 DEF RunBody, Record, AfterConflict
  <2>5. CASE Commit(i)
    BY <2>5 DEF Commit, Due
  <2>6. CASE ReadPanel(i) \/ ReadReality(i)
    BY <2>6 DEF ReadPanel, ReadReality, ReadRow, OnReadError
  <2>7. CASE SeedPanel(i)
    BY <2>7 DEF SeedPanel, Rows, Defaults, Absent
  <2>8. CASE SeedReality(i)
    BY <2>8 DEF SeedReality, Rows, Absent
  <2>9. CASE Launch(i)
    BY <2>9 DEF Launch
  <2>10. CASE SavePanel(i)
    BY <2>10 DEF SavePanel, Rows, Saved, Absent
  <2>11. QED
    BY <2>1, <2>2, <2>3, <2>4, <2>5, <2>6, <2>7, <2>8, <2>9, <2>10 DEF Step, Main
<1>3. QED
  BY <1>1, <1>2 DEF Behind

\* The lowest version is one.
LEMMA DueOne ==
  ASSUME NEW S \in SUBSET Versions, NEW v \in Due(S)
  PROVE  Due(S) = {v}
<1>1. \A w \in Due(S) : w \in Nat /\ v \in Nat /\ v <= w /\ w <= v
  BY BootAssumption DEF Due
<1>2. QED
  BY <1>1

\* A script begins only while no transaction holds the same one (Locked).
LEMMA AloneStep ==
  ASSUME TypeOK, Alone, NEW i \in Instances, Step(i)
  PROVE  Alone'
<1>1. \A j \in Instances \ {i} : pc'[j] = pc[j] /\ todo'[j] = todo[j]
  BY Frame
<1>2. pc'[i] \in Scripts =>
        todo'[i] = todo[i] /\ (pc[i] \in Scripts \/ (pc[i] = "body" /\ ~Locked(i)))
  <2> USE DEF TypeOK, Goto, At, Scripts
  <2>1. CASE Deploy(i) \/ Restart(i) \/ Die(i) \/ SavePanel(i) \/ Connect(i)
    BY <2>1 DEF Deploy, Restart, Begins, Die, SavePanel, Connect
  <2>2. CASE CheckVersion(i)
    BY <2>2 DEF CheckVersion, AfterApplied, AfterError
  <2>3. CASE RunBody(i)
    BY <2>3 DEF RunBody
  <2>4. CASE Record(i)
    BY <2>4 DEF Record
  <2>5. CASE Commit(i)
    BY <2>5 DEF Commit
  <2>6. CASE ReadPanel(i) \/ ReadReality(i)
    BY <2>6 DEF ReadPanel, ReadReality, ReadRow, OnReadError
  <2>7. CASE SeedPanel(i) \/ SeedReality(i) \/ Launch(i)
    BY <2>7 DEF SeedPanel, SeedReality, Launch
  <2>8. QED
    BY <2>1, <2>2, <2>3, <2>4, <2>5, <2>6, <2>7 DEF Step, Main
<1>3. ASSUME NEW j \in Instances \ {i}, pc'[i] \in Scripts, pc'[j] \in Scripts
      PROVE  Due(todo'[i]) # Due(todo'[j])
  <2>1. pc[j] \in Scripts /\ todo'[j] = todo[j] /\ todo'[i] = todo[i]
    BY <1>1, <1>2, <1>3
  <2>2. CASE pc[i] \in Scripts
    BY <2>1, <2>2 DEF Alone
  <2>3. CASE ~Locked(i)
    BY <2>1, <2>3 DEF Locked, Scripts
  <2>4. QED
    BY <1>2, <1>3, <2>2, <2>3
<1>4. ASSUME NEW j \in Instances, NEW k \in Instances, j # k,
             pc'[j] \in Scripts, pc'[k] \in Scripts
      PROVE  Due(todo'[j]) # Due(todo'[k])
  <2>1. CASE j = i \/ k = i
    BY <1>3, <1>4, <2>1
  <2>2. CASE j # i /\ k # i
    BY <1>1, <1>4, <2>2 DEF Alone
  <2>3. QED
    BY <2>1, <2>2
<1>5. QED
  BY <1>4 DEF Alone

\* Who is about to commit found no row, and nobody else can have written it.
LEMMA FreshStep ==
  ASSUME TypeOK, Alone, Fresh, NEW i \in Instances, Step(i)
  PROVE  Fresh'
<1>1. \A j \in Instances \ {i} : pc'[j] = pc[j] /\ todo'[j] = todo[j]
  BY Frame
<1>2. CASE Commit(i)
  <2>1. PICK v \in Due(todo[i]) : applied' = applied \cup {v}
    BY <1>2 DEF Commit
  <2>2. ASSUME NEW j \in Instances \ {i}, pc[j] = "commit" PROVE v \notin Due(todo[j])
    <3>1. SUFFICES ASSUME v \in Due(todo[j]) PROVE FALSE
      OBVIOUS
    <3>2. Due(todo[i]) = {v} /\ Due(todo[j]) = {v}
      BY <2>1, <3>1, DueOne DEF TypeOK
    <3>3. QED
      BY <1>2, <2>2, <3>2 DEF Alone, Scripts, Commit, At
  <2>3. pc'[i] # "commit"
    BY <1>2 DEF Commit, Goto, TypeOK
  <2>4. QED
    BY <1>1, <2>1, <2>2, <2>3 DEF Fresh
<1>3. CASE Record(i)
  <2>1. pc'[i] = "commit" => Due(todo[i]) \cap applied = {}
    <3>1. SUFFICES ASSUME pc'[i] = "commit" PROVE Due(todo[i]) \cap applied = {}
      OBVIOUS
    <3>2. PICK v \in Due(todo[i]) : v \notin applied
      BY <1>3, <3>1 DEF Record, Goto, AfterConflict, TypeOK
    <3>3. QED
      BY <3>2, DueOne DEF TypeOK
  <2>2. UNCHANGED <<todo, applied>>
    BY <1>3 DEF Record
  <2>3. QED
    BY <1>1, <2>1, <2>2 DEF Fresh
<1>4. CASE ~Commit(i) /\ ~Record(i)
  <2>1. applied' = applied /\ pc'[i] # "commit"
    <3> USE DEF TypeOK, Goto, At
    <3>1. CASE Deploy(i) \/ Restart(i) \/ Die(i) \/ SavePanel(i) \/ Connect(i)
      BY <3>1 DEF Deploy, Restart, Begins, Die, SavePanel, Connect
    <3>2. CASE CheckVersion(i)
      BY <3>2 DEF CheckVersion, AfterApplied, AfterError
    <3>3. CASE RunBody(i)
      BY <3>3 DEF RunBody
    <3>4. CASE ReadPanel(i) \/ ReadReality(i)
      BY <3>4 DEF ReadPanel, ReadReality, ReadRow, OnReadError
    <3>5. CASE SeedPanel(i) \/ SeedReality(i) \/ Launch(i)
      BY <3>5 DEF SeedPanel, SeedReality, Launch
    <3>6. QED
      BY <1>4, <3>1, <3>2, <3>3, <3>4, <3>5 DEF Step, Main
  <2>2. QED
    BY <1>1, <2>1 DEF Fresh
<1>5. QED
  BY <1>2, <1>3, <1>4

\* A seed is decided on a row that was absent when the container started.
LEMMA EarlyStep ==
  ASSUME TypeOK, Early, NEW i \in Instances, Step(i)
  PROVE  Early'
<1>1. ASSUME NEW j \in Instances \ {i} PROVE EarlyOf(j)'
  BY Frame DEF Early, EarlyOf, Started
<1>2. EarlyOf(i)'
  <2> USE DEF TypeOK, Early, EarlyOf, Goto, At, Started
  <2>1. CASE Deploy(i) \/ Restart(i) \/ Die(i)
    BY <2>1 DEF Deploy, Restart, Begins, Die
  <2>2. CASE Connect(i) \/ CheckVersion(i)
    BY <2>2 DEF Connect, CheckVersion, AfterApplied, AfterError
  <2>3. CASE RunBody(i) \/ Record(i) \/ Commit(i)
    BY <2>3 DEF RunBody, Record, Commit, AfterConflict
  <2>4. CASE ReadPanel(i) \/ ReadReality(i)
    BY <2>4 DEF ReadPanel, ReadReality, ReadRow, OnReadError, Rows
  <2>5. CASE SeedPanel(i) \/ SavePanel(i)
    BY <2>5, Frame DEF SeedPanel, SavePanel
  <2>6. CASE SeedReality(i) \/ Launch(i)
    BY <2>6, Frame DEF SeedReality, Launch
  <2>7. QED
    BY <2>1, <2>2, <2>3, <2>4, <2>5, <2>6 DEF Step, Main
<1>3. QED
  BY <1>1, <1>2 DEF Early

\* A script is counted with the commit of its row, and its predecessors are there.
LEMMA CountStep ==
  ASSUME IInv, NEW i \in Instances, Step(i)
  PROVE  Once' /\ InOrder'
<1> USE DEF IInv, TypeOK
<1>1. CASE Commit(i)
  <2>1. PICK v \in Due(todo[i]) :
          applied' = applied \cup {v} /\ ran' = [ran EXCEPT ![v] = @ + 1]
    BY <1>1 DEF Commit
  <2>2. v \in Versions /\ v \notin applied /\ ran[v] = 0
    BY <1>1, <2>1 DEF Commit, At, Fresh, Due, Once
  <2>3. Once'
    BY <2>1, <2>2 DEF Once
  <2>4. ASSUME NEW w \in Versions, w < v PROVE w \in applied
    <3>1. w \in Nat /\ v \in Nat /\ v <= Newest[i] /\ Newest[i] \in Nat
      BY <2>1, <2>2, BootAssumption DEF Behind, BehindOf, Due
    <3>2. w \notin todo[i]
      BY <2>1, <2>4, <3>1 DEF Due
    <3>3. QED
      BY <1>1, <2>4, <3>1, <3>2 DEF Behind, BehindOf, Commit, At, Started
  <2>5. InOrder'
    BY <2>1, <2>4 DEF InOrder
  <2>6. QED
    BY <2>3, <2>5
<1>2. CASE ~Commit(i)
  <2>1. UNCHANGED <<applied, ran>>
    BY <1>2 DEF Step, Main, Deploy, Restart, Begins, Die, Connect, CheckVersion, RunBody,
                Record, ReadPanel, ReadReality, ReadRow, SeedPanel, SeedReality, Launch, SavePanel
  <2>2. QED
    BY <2>1 DEF Once, InOrder
<1>3. QED
  BY <1>1, <1>2

\* The conjunction is inductive.
LEMMA Inductive == IInv /\ [Next]_vars => IInv'
<1>1. ASSUME IInv, NEW i \in Instances, Step(i) PROVE IInv'
  <2>1. [Next]_vars
    BY <1>1 DEF Next, Step
  <2>2. QED
    BY <1>1, <2>1, TypeStep, BehindStep, AloneStep, FreshStep, EarlyStep, CountStep DEF IInv
<1>2. ASSUME IInv, UNCHANGED vars PROVE IInv'
  BY <1>2 DEF IInv, vars, TypeOK, Behind, BehindOf, Alone, Fresh, Early, EarlyOf, Once, InOrder,
              Started, Migrated, Panelled, Ready, Scripts
<1>3. QED
  BY <1>1, <1>2 DEF Next, Step

\* The conjunction holds throughout.
LEMMA Invariant == Spec => []IInv
  BY InitInv, Inductive, PTL DEF Spec

-----------------------------------------------------------------------------

\* Every variable keeps its type, for any containers and migrations.
THEOREM TypeCorrect == Spec => []TypeOK
<1>1. IInv => TypeOK
  BY DEF IInv
<1>2. QED
  BY <1>1, Invariant, PTL

\* Whatever boots overlap and wherever they die: each script is committed once, with
\* its row and in its order, and who serves has all of them and both settings
\* (Migrate, main).
THEOREM SchemaAlwaysSound == Spec => []SchemaSound
<1>1. IInv => SchemaSound
  BY DEF IInv, SchemaSound, Once, InOrder, Behind, BehindOf, Started, Migrated, Panelled, Ready,
         Rows
<1>2. QED
  BY <1>1, Invariant, PTL

\* A seed never changes a row that was there when its container started
\* (EnsurePanelSettings, EnsureReality).
THEOREM SeedsFirstOnly == Spec => SeedsOnlyFirst
<1>1. IInv /\ [Next]_vars =>
        [\A i \in Instances :
           pc[i] \in DOMAIN Seeding /\ pc'[i] # pc[i] =>
             LET k == Seeding[pc[i]]
             IN stored'[k] = stored[k] \/ k \in missing[i]]_vars
  BY DEF IInv, Early, EarlyOf, Started, Seeding
<1>2. QED
  BY <1>1, Invariant, PTL DEF Spec, SeedsOnlyFirst

-----------------------------------------------------------------------------
(* The way of a container that was started *)

\* Its script was committed by another container meanwhile: it fails, and the platform
\* starts over.
Overtaken(i) == pc[i] \in {"body", "record"} /\ Due(todo[i]) \subseteq applied

PlaceOf == [down |-> 11, connect |-> 10, check |-> 9, body |-> 8, record |-> 7, commit |-> 6,
            readPanel |-> 5, seedPanel |-> 4, readReality |-> 3, seedReality |-> 2, launch |-> 1,
            serving |-> 0]

Place(i) ==
  IF Overtaken(i) THEN (IF pc[i] = "body" THEN 13 ELSE 12) ELSE PlaceOf[pc[i]]

\* What nobody applied yet of the migrations in the image of container i.
Lacking(i) == {v \in Versions : v <= Newest[i]} \ applied

\* Closer in the lexicographic order of what is lacking, the place, and the versions
\* the container has before it.
Closer(i) ==
  \/ Lacking(i)' \subseteq Lacking(i) /\ Lacking(i)' # Lacking(i)
  \/ /\ Lacking(i)' = Lacking(i)
     /\ \/ Place(i)' < Place(i)
        \/ Place(i)' = Place(i) /\ todo'[i] \subseteq todo[i] /\ todo'[i] # todo[i]

Stays(i) == Lacking(i)' = Lacking(i) /\ Place(i)' = Place(i) /\ todo'[i] = todo[i]

\* Without an error a step of container i, or its restart, brings it closer, and
\* whatever another one does takes it no further away.
GoesForward ==
  \A i \in Instances : pc[i] # "none" /\ faults' = faults =>
    Closer(i) \/ (Stays(i) /\ ~Restart(i) /\ ~Main(i))

\* The places, one after the other.
LEMMA PlaceOrder ==
  /\ PlaceOf["down"] = 11 /\ PlaceOf["connect"] = 10 /\ PlaceOf["check"] = 9
  /\ PlaceOf["body"] = 8 /\ PlaceOf["record"] = 7 /\ PlaceOf["commit"] = 6
  /\ PlaceOf["readPanel"] = 5 /\ PlaceOf["seedPanel"] = 4 /\ PlaceOf["readReality"] = 3
  /\ PlaceOf["seedReality"] = 2 /\ PlaceOf["launch"] = 1 /\ PlaceOf["serving"] = 0
  BY DEF PlaceOf

\* An error counts, so a step that is none leaves the number as it is.
LEMMA NoFault == TypeOK /\ faults' = faults => ~Fault
  BY BootAssumption DEF TypeOK, Fault

\* A COMMIT of a version that is lacking makes what is lacking less.
LEMMA CommitShrinks ==
  ASSUME IInv, NEW i \in Instances, NEW j \in Instances, Commit(j),
         NEW v \in Due(todo[j]), v <= Newest[i]
  PROVE  Lacking(i)' \subseteq Lacking(i) /\ Lacking(i)' # Lacking(i)
<1>1. Due(todo[j]) = {v} /\ v \in Versions /\ v \notin applied
  BY DueOne DEF IInv, TypeOK, Fresh, Due, Commit, At
<1>2. applied' = applied \cup {v}
  BY <1>1 DEF Commit
<1>3. v \in Lacking(i) /\ v \notin Lacking(i)'
  BY <1>1, <1>2 DEF Lacking
<1>4. Lacking(i)' \subseteq Lacking(i)
  BY <1>2 DEF Lacking
<1>5. QED
  BY <1>3, <1>4

\* Each step of main, and a restart.
LEMMA OwnStep ==
  ASSUME IInv, NEW i \in Instances, Restart(i) \/ Main(i), faults' = faults
  PROVE  Closer(i)
<1> USE PlaceOrder, NoFault DEF IInv, TypeOK, At, Goto
<1>c. CASE Commit(i)
  <2>1. PICK v \in Due(todo[i]) : TRUE
    BY <1>c DEF Commit
  <2>2. v <= Newest[i]
    BY <2>1 DEF Due, Behind, BehindOf
  <2>3. QED
    BY <1>c, <2>1, <2>2, CommitShrinks DEF Closer
<1>a. ASSUME applied' = applied, Place(i)' < Place(i) PROVE Closer(i)
  BY <1>a DEF Closer, Lacking
<1>1. CASE Restart(i)
  <2>1. applied' = applied /\ Place(i)' = 10 /\ Place(i) = 11
    BY <1>1 DEF Restart, Begins, Place, Overtaken
  <2>2. QED
    BY <1>a, <2>1
<1>2. CASE Connect(i)
  <2>1. applied' = applied /\ Place(i)' = 9 /\ Place(i) = 10
    BY <1>2 DEF Connect, Place, Overtaken
  <2>2. QED
    BY <1>a, <2>1
<1>3. CASE CheckVersion(i)
  <2>1. applied' = applied /\ Place(i) = 9
    BY <1>3 DEF CheckVersion, Place, Overtaken
  <2>2. CASE todo[i] = {} /\ Goto(i, "readPanel")
    <3>1. Place(i)' = 5
      BY <2>2 DEF Place, Overtaken
    <3>2. QED
      BY <1>a, <2>1, <3>1
  <2>3. CASE \E v \in Due(todo[i]) \cap applied :
               /\ Goto(i, AfterApplied)
               /\ todo' = [todo EXCEPT ![i] = @ \ {v}]
    <3>1. todo'[i] \subseteq todo[i] /\ todo'[i] # todo[i]
      BY <2>3 DEF Due
    <3>2. Place(i)' = 9
      BY <2>3 DEF AfterApplied, Place, Overtaken
    <3>3. QED
      BY <2>1, <3>1, <3>2 DEF Closer, Lacking
  <2>4. CASE Due(todo[i]) \ applied # {} /\ Goto(i, "body") /\ UNCHANGED todo
    <3>1. ~Overtaken(i)'
      BY <2>1, <2>4 DEF Overtaken, Due
    <3>2. Place(i)' = 8
      BY <2>4, <3>1 DEF Place
    <3>3. QED
      BY <1>a, <2>1, <3>2
  <2>5. QED
    BY <1>3, <2>2, <2>3, <2>4 DEF CheckVersion
<1>4. CASE RunBody(i)
  <2>1. applied' = applied /\ todo' = todo /\ pc[i] = "body"
    BY <1>4 DEF RunBody
  <2>2. Overtaken(i) <=> Due(todo[i]) \subseteq applied
    BY <2>1 DEF Overtaken
  <2>3. CASE pc'[i] = "record"
    <3>1. Overtaken(i)' <=> Overtaken(i)
      BY <2>1, <2>2, <2>3 DEF Overtaken, Due
    <3>2. Place(i)' < Place(i)
      BY <2>1, <2>3, <3>1 DEF Place
    <3>3. QED
      BY <1>a, <2>1, <3>2
  <2>4. CASE pc'[i] = "down" /\ Due(todo[i]) \subseteq applied
    <3>1. Place(i) = 13 /\ Place(i)' = 11
      BY <2>1, <2>2, <2>4 DEF Place, Overtaken
    <3>2. QED
      BY <1>a, <2>1, <3>1
  <2>5. QED
    BY <1>4, <2>3, <2>4 DEF RunBody
<1>5. CASE Record(i)
  <2>1. applied' = applied /\ pc[i] = "record" /\ pc'[i] \in {"down", "commit"}
        /\ (pc'[i] = "down" <=> Due(todo[i]) \subseteq applied)
    BY <1>5 DEF Record, AfterConflict
  <2>2. ~Overtaken(i)'
    BY <2>1 DEF Overtaken
  <2>3. Place(i)' < Place(i)
    <3>1. CASE pc'[i] = "down"
      <4>1. Place(i) = 12 /\ Place(i)' = 11
        BY <2>1, <2>2, <3>1 DEF Place, Overtaken
      <4>2. QED
        BY <4>1
    <3>2. CASE pc'[i] = "commit"
      <4>1. Place(i)' = 6 /\ Place(i) \in {7, 12}
        BY <2>1, <2>2, <3>2 DEF Place
      <4>2. QED
        BY <4>1
    <3>3. QED
      BY <2>1, <3>1, <3>2
  <2>4. QED
    BY <1>a, <2>1, <2>3
<1>6. CASE ReadPanel(i)
  <2>1. applied' = applied /\ Place(i) = 5 /\ Place(i)' \in {3, 4}
    BY <1>6 DEF ReadPanel, ReadRow, OnReadError, Place, Overtaken
  <2>2. QED
    BY <1>a, <2>1
<1>7. CASE SeedPanel(i)
  <2>1. applied' = applied /\ Place(i) = 4 /\ Place(i)' = 3
    BY <1>7 DEF SeedPanel, Place, Overtaken
  <2>2. QED
    BY <1>a, <2>1
<1>8. CASE ReadReality(i)
  <2>1. applied' = applied /\ Place(i) = 3 /\ Place(i)' \in {1, 2}
    BY <1>8 DEF ReadReality, ReadRow, OnReadError, Place, Overtaken
  <2>2. QED
    BY <1>a, <2>1
<1>9. CASE SeedReality(i)
  <2>1. applied' = applied /\ Place(i) = 2 /\ Place(i)' = 1
    BY <1>9 DEF SeedReality, Place, Overtaken
  <2>2. QED
    BY <1>a, <2>1
<1>10. CASE Launch(i)
  <2>1. applied' = applied /\ Place(i) = 1 /\ Place(i)' = 0
    BY <1>10 DEF Launch, Place, Overtaken
  <2>2. QED
    BY <1>a, <2>1
<1>11. QED
  BY <1>c, <1>1, <1>2, <1>3, <1>4, <1>5, <1>6, <1>7, <1>8, <1>9, <1>10 DEF Main

\* A step of another container: only its COMMIT matters, and it only helps.
LEMMA OtherStep ==
  ASSUME IInv, NEW i \in Instances, NEW j \in Instances \ {i}, Step(j)
  PROVE  Closer(i) \/ Stays(i)
<1>1. pc'[i] = pc[i] /\ todo'[i] = todo[i]
  BY Frame DEF IInv
<1>2. CASE Commit(j)
  <2>1. PICK v \in Due(todo[j]) : applied' = applied \cup {v}
    BY <1>2 DEF Commit
  <2>2. CASE v <= Newest[i]
    BY <1>2, <2>1, <2>2, CommitShrinks DEF Closer
  <2>3. CASE ~(v <= Newest[i])
    <3>1. v \notin Due(todo[i])
      BY <2>3 DEF Due, IInv, Behind, BehindOf
    <3>2. Overtaken(i)' <=> Overtaken(i)
      BY <1>1, <2>1, <3>1 DEF Overtaken, Due
    <3>3. Lacking(i)' = Lacking(i)
      BY <2>1, <2>3 DEF Lacking
    <3>4. QED
      BY <1>1, <3>2, <3>3 DEF Stays, Place
  <2>4. QED
    BY <2>2, <2>3
<1>3. CASE ~Commit(j)
  <2>1. applied' = applied
    BY <1>3 DEF Step, Deploy, Restart, Begins, Die, Main, Connect, CheckVersion, RunBody, Record,
                ReadPanel, ReadReality, ReadRow, SeedPanel, SeedReality, Launch, SavePanel
  <2>2. QED
    BY <1>1, <2>1 DEF Stays, Place, Overtaken, Lacking, Due
<1>4. QED
  BY <1>2, <1>3

\* The safety half of ServesInTheEnd: a measure of the way to serving that only an
\* error raises and every step of main lowers, whatever other containers do meanwhile,
\* also when one of them commits the script this one is at (main, Migrate).
THEOREM BootGoesForward == Spec => [][GoesForward]_vars
<1>1. IInv /\ [Next]_vars => [GoesForward]_vars
  <2> SUFFICES ASSUME IInv, Next, NEW i \in Instances, pc[i] # "none", faults' = faults
               PROVE  Closer(i) \/ (Stays(i) /\ ~Restart(i) /\ ~Main(i))
    BY DEF GoesForward
  <2>1. CASE Restart(i) \/ Main(i)
    BY <2>1, OwnStep
  <2>2. CASE ~Restart(i) /\ ~Main(i)
    <3>1. PICK j \in Instances : Step(j)
      BY DEF Next, Step
    <3>2. CASE j # i
      BY <2>2, <3>1, <3>2, OtherStep
    <3>3. CASE j = i
      <4>1. SavePanel(i)
        BY <2>2, <3>1, <3>3, NoFault DEF Step, Deploy, At, Die, IInv
      <4>2. UNCHANGED <<pc, todo, applied>>
        BY <4>1 DEF SavePanel
      <4>3. QED
        BY <2>2, <4>2 DEF Stays, Place, Overtaken, Lacking, Due
    <3>4. QED
      BY <3>2, <3>3
  <2>3. QED
    BY <2>1, <2>2
<1>2. Spec => []IInv
  BY Invariant
<1>3. QED
  BY <1>1, <1>2, PTL DEF Spec

-----------------------------------------------------------------------------
(* Provision *)

Awaited == binPc \in {"download", "verify", "extract", "install"} => bin = "none"

Vouched ==
  /\ zip \in {"none", "whole", "altered"}
  /\ binPc \in {"extract", "install"} /\ zip = "altered" => unsure

BinInv == Awaited /\ Vouched /\ B!BinaryTrusted

\* Awaited and Vouched carry BinaryTrusted from step to step.
LEMMA BinInductive == BinInv /\ [B!Next]_B!vars => BinInv'
<1> SUFFICES ASSUME BinInv, [B!Next]_B!vars PROVE BinInv'
  OBVIOUS
<1> USE DEF BinInv, Awaited, Vouched, B!BinaryTrusted, B!Fault
<1>1. CASE B!Deploy \/ B!Restart
  BY <1>1 DEF B!Deploy, B!Restart, B!Begins
<1>2. CASE B!Stat
  BY <1>2 DEF B!Stat
<1>3. CASE B!Download
  BY <1>3 DEF B!Download
<1>4. CASE B!Verify
  BY <1>4 DEF B!Verify, B!AfterMismatch
<1>5. CASE B!Extract
  BY <1>5 DEF B!Extract, B!WhileExtracting
<1>6. CASE B!Install
  BY <1>6 DEF B!Install
<1>7. CASE B!StartEngine
  BY <1>7 DEF B!StartEngine
<1>8. CASE B!WatchTick
  BY <1>8 DEF B!WatchTick, B!ProvisionDue
<1>9. CASE B!EngineDies \/ B!Die \/ B!Pass
  BY <1>9 DEF B!EngineDies, B!Die, B!Pass
<1>10. CASE UNCHANGED B!vars
  BY <1>10 DEF B!vars
<1>11. QED
  BY <1>1, <1>2, <1>3, <1>4, <1>5, <1>6, <1>7, <1>8, <1>9, <1>10
     DEF B!Next, B!Program, B!EnsureBinary

\* Wherever the process dies, the file at the final path is complete, and damaged only
\* if no manifest was found for it (EnsureBinary, verifyChecksum).
THEOREM BinaryAlwaysTrusted == B!Spec => []BinaryTrusted
<1>1. B!Init => BinInv
  BY DEF B!Init, BinInv, Awaited, Vouched, B!BinaryTrusted
<1>2. BinInv => BinaryTrusted
  BY DEF BinInv, BinaryTrusted
<1>3. QED
  BY <1>1, <1>2, BinInductive, PTL DEF B!Spec

-----------------------------------------------------------------------------
(* The way to an engine that runs *)

\* Only the watchdog's wait has a running engine.
RunInv == running => binPc = "watch"

WayInv == BinInv /\ B!TypeOK /\ RunInv

\* Every step keeps the types and leaves a running engine to the watchdog.
LEMMA WayInductive == Minute \in Nat /\ WayInv /\ [B!Next]_B!vars => WayInv'
<1> SUFFICES ASSUME Minute \in Nat, WayInv, [B!Next]_B!vars PROVE WayInv'
  OBVIOUS
<1>0. BinInv'
  BY BinInductive DEF WayInv
<1>f. B!Fault => broken' \in 0..MaxFaults
  BY BootAssumption DEF WayInv, B!TypeOK, B!Fault
<1>s. 0 \in 0..B!Never /\ B!Never \in 0..B!Never
  BY DEF B!Never
<1> USE <1>0, <1>f, <1>s DEF WayInv, B!TypeOK, RunInv
<1>1. CASE B!Deploy \/ B!Restart
  BY <1>1 DEF B!Deploy, B!Restart, B!Begins
<1>2. CASE B!Stat
  BY <1>2 DEF B!Stat
<1>3. CASE B!Download
  BY <1>3 DEF B!Download
<1>4. CASE B!Verify
  BY <1>4 DEF B!Verify, B!AfterMismatch
<1>5. CASE B!Extract
  BY <1>5 DEF B!Extract, B!WhileExtracting
<1>6. CASE B!Install
  BY <1>6 DEF B!Install
<1>7. CASE B!StartEngine
  BY <1>7 DEF B!StartEngine
<1>8. CASE B!WatchTick
  BY <1>8 DEF B!WatchTick, B!ProvisionDue
<1>9. CASE B!EngineDies \/ B!Die
  BY <1>9 DEF B!EngineDies, B!Die
<1>10. CASE B!Pass
  <2>1. since' \in 0..B!Never
    BY <1>10 DEF B!Pass, B!Never
  <2>2. QED
    BY <1>10, <2>1 DEF B!Pass
<1>11. CASE UNCHANGED B!vars
  BY <1>11 DEF B!vars
<1>12. QED
  BY <1>1, <1>2, <1>3, <1>4, <1>5, <1>6, <1>7, <1>8, <1>9, <1>10, <1>11
     DEF B!Next, B!Program, B!EnsureBinary

\* The conjunction holds throughout.
LEMMA WayInvariant ==
  ASSUME Minute \in Nat
  PROVE  B!Spec => []WayInv
<1>1. B!Init => WayInv
  <2>1. B!Init => BinInv /\ RunInv
    BY DEF B!Init, BinInv, Awaited, Vouched, B!BinaryTrusted, RunInv
  <2>2. B!Never \in 0..B!Never /\ 0 \in 0..MaxFaults
    BY BootAssumption DEF B!Never
  <2>3. QED
    BY <2>1, <2>2 DEF B!Init, WayInv, B!TypeOK
<1>2. WayInv /\ [B!Next]_B!vars => WayInv'
  BY WayInductive
<1>3. QED
  BY <1>1, <1>2, PTL DEF B!Spec

\* Every variable of the provisioning keeps its type, for any number of faults and any
\* length of the minute.
THEOREM BinaryTyped ==
  ASSUME Minute \in Nat
  PROVE  B!Spec => []B!TypeOK
<1>1. WayInv => B!TypeOK
  BY DEF WayInv
<1>2. QED
  BY <1>1, WayInvariant, PTL

\* An engine that runs is stopped by a fault only.
StaysUp == running => running' \/ broken' > broken

\* The "for good" of EngineComesUp: nothing the watchdog or the clock does stops an
\* engine that runs; only a fault does (Watchdog).
THEOREM EngineStaysUp ==
  ASSUME Minute \in Nat
  PROVE  B!Spec => [][StaysUp]_B!vars
<1>1. WayInv /\ [B!Next]_B!vars => [StaysUp]_B!vars
  <2> SUFFICES ASSUME WayInv, B!Next, running PROVE running' \/ broken' > broken
    BY DEF StaysUp
  <2> USE DEF WayInv, RunInv, B!TypeOK, B!Fault
  <2>1. binPc = "watch" /\ broken \in Nat
    BY BootAssumption
  <2>2. CASE B!Deploy \/ B!Restart \/ B!EnsureBinary \/ B!StartEngine
    BY <2>1, <2>2 DEF B!Deploy, B!Restart, B!EnsureBinary, B!Stat, B!Download, B!Verify, B!Extract,
                      B!Install, B!StartEngine
  <2>3. CASE B!WatchTick \/ B!Pass
    BY <2>3 DEF B!WatchTick, B!Pass
  <2>4. CASE B!EngineDies \/ B!Die
    BY <2>1, <2>4 DEF B!EngineDies, B!Die
  <2>5. QED
    BY <2>2, <2>3, <2>4 DEF B!Next, B!Program
<1>2. B!Spec => []WayInv
  BY WayInvariant
<1>3. QED
  BY <1>1, <1>2, PTL DEF B!Spec

\* How many steps of the program, the clock and the platform an engine that does not
\* run is away: an attempt with a whole archive ends in a whole file, one with a
\* damaged archive ends without, and then the watchdog waits for its minute.
Attempt == [stat |-> 7, download |-> 6, verify |-> 5, extract |-> 4, install |-> 3]
Doomed == [verify |-> 3, extract |-> 2, install |-> 1]

InAttempt == binPc \in {"stat", "download", "verify", "extract", "install"}
Sound == zip = "whole" \/ binPc \in {"stat", "download"}

Distance ==
  IF running THEN 0
  ELSE IF binPc = "down" THEN 8
  ELSE IF bin = "whole" THEN (IF binPc = "start" THEN 1 ELSE 2)
  ELSE IF InAttempt
    THEN IF Sound THEN Attempt[binPc] ELSE 11 + 2 * B!Never + Doomed[binPc]
  ELSE IF since < B!Never THEN 11 + 2 * (B!Never - since)
  ELSE IF binPc = "start" THEN 11 ELSE 10

\* The watchdog looks again and again until its minute is over: its looks do not count.
Waiting == bin = "none" /\ binPc \in {"start", "watch"} /\ since < B!Never

\* The steps that count.
Helpful ==
  \/ B!Restart
  \/ B!Program /\ ~running /\ ~Waiting
  \/ B!Pass /\ ~running /\ Waiting

\* Without a fault and without a damaged file at the final path no step takes the engine
\* further away, and each that counts brings it closer.
ComesCloser ==
  binPc # "none" /\ broken' = broken /\ bin' # "altered" =>
    /\ Distance' <= Distance
    /\ Helpful => Distance' < Distance

\* The places in an attempt, one after the other.
LEMMA AttemptOrder ==
  /\ Attempt["stat"] = 7 /\ Attempt["download"] = 6 /\ Attempt["verify"] = 5
  /\ Attempt["extract"] = 4 /\ Attempt["install"] = 3
  /\ Doomed["verify"] = 3 /\ Doomed["extract"] = 2 /\ Doomed["install"] = 1
  BY DEF Attempt, Doomed

\* One step of the provisioning.
LEMMA CloserStep == Minute \in Nat /\ WayInv /\ B!Next => ComesCloser
<1> SUFFICES ASSUME Minute \in Nat, WayInv, B!Next, binPc # "none", broken' = broken,
                    bin' # "altered"
             PROVE  /\ Distance' <= Distance
                    /\ Helpful => Distance' < Distance
  BY DEF ComesCloser
<1>t. /\ binPc \in {"none", "down", "stat", "download", "verify", "extract", "install", "start",
                    "watch"}
      /\ zip \in {"none", "whole", "altered"} /\ since \in 0..B!Never /\ B!Never \in Nat
      /\ running \in BOOLEAN /\ broken \in Nat
      /\ running => binPc = "watch"
      /\ bin \in {"none", "whole", "altered"}
      /\ binPc \in {"download", "verify", "extract", "install"} => bin = "none"
  BY BootAssumption DEF WayInv, B!TypeOK, BinInv, Awaited, RunInv, B!BinaryTrusted, B!Never
<1>f. ~B!Fault
  BY <1>t DEF B!Fault
<1>n. B!Never = Minute + 1 /\ Minute \in Nat
  BY DEF B!Never
<1> USE <1>t, <1>f, AttemptOrder DEF Distance, InAttempt, Sound
<1>r. B!Restart => binPc = "down"
  BY DEF B!Restart
<1>1. CASE B!Deploy \/ B!EngineDies \/ B!Die
  BY <1>1 DEF B!Deploy, B!EngineDies, B!Die
<1>2. CASE B!Restart
  <2>1. Distance' < Distance
    BY <1>2 DEF B!Restart, B!Begins
  <2>2. Distance' \in Nat /\ Distance \in Nat
    BY <1>2 DEF B!Restart, B!Begins
  <2> QED
    BY <2>1, <2>2
<1>3. CASE B!Stat
  <2>1. bin' = bin /\ running' = running /\ since' = since
        /\ binPc' = (IF bin = "none" THEN "download" ELSE "start")
    BY <1>3 DEF B!Stat
  <2> QED
    BY <1>3, <2>1 DEF B!Stat
<1>4. CASE B!Download
  BY <1>4 DEF B!Download
<1>5. CASE B!Verify
  BY <1>5 DEF B!Verify, B!AfterMismatch
<1>6. CASE B!Extract
  BY <1>6 DEF B!Extract, B!WhileExtracting
<1>7. CASE B!Install
  BY <1>7 DEF B!Install
<1>8. CASE B!StartEngine
  <2>1. binPc = "start" /\ binPc' = "watch" /\ UNCHANGED <<bin, zip, since>> /\ ~running
        /\ (running' <=> bin = "whole")
    BY <1>8 DEF B!StartEngine
  <2>2. CASE bin = "whole"
    BY <2>1, <2>2
  <2>3. CASE bin = "none"
    <3>1. ~running'
      BY <2>1, <2>3
    <3>2. CASE since < B!Never
      <4>1. ~Helpful
        BY <1>8, <1>r, <2>1, <2>3, <3>2 DEF Helpful, Waiting, B!Pass
      <4>2. QED
        BY <2>1, <2>3, <3>1, <3>2, <4>1
    <3>3. CASE ~(since < B!Never)
      BY <2>1, <2>3, <3>1, <3>3
    <3>4. QED
      BY <3>2, <3>3
  <2>4. QED
    BY <2>1, <2>2, <2>3
<1>9. CASE B!WatchTick
  <2>1. binPc = "watch" /\ UNCHANGED <<bin, zip, running>>
    BY <1>9 DEF B!WatchTick
  <2>2. CASE running
    BY <1>r, <2>1, <2>2 DEF Helpful
  <2>3. CASE ~running /\ B!ProvisionDue
    BY <1>9, <1>n, <2>1, <2>3 DEF B!WatchTick, B!ProvisionDue
  <2>4. CASE ~running /\ ~B!ProvisionDue
    <3>1. binPc' = "start" /\ since' = since
      BY <1>9, <2>4 DEF B!WatchTick
    <3>2. CASE bin = "whole"
      BY <2>1, <2>4, <3>1, <3>2
    <3>3. CASE bin = "none"
      <4>1. since < B!Never
        BY <1>n, <2>4, <3>3 DEF B!ProvisionDue
      <4>2. ~Helpful
        BY <1>r, <2>1, <3>1, <3>3, <4>1 DEF Helpful, Waiting, B!Pass
      <4>3. QED
        BY <2>1, <2>4, <3>1, <3>3, <4>1, <4>2
    <3>4. QED
      BY <2>1, <3>2, <3>3
  <2>5. QED
    BY <2>2, <2>3, <2>4
<1>10. CASE B!Pass
  <2>1. since < B!Never /\ since' = since + 1 /\ UNCHANGED <<binPc, bin, zip, running>>
    BY <1>10 DEF B!Pass
  <2>2. CASE running
    BY <1>r, <2>1, <2>2 DEF Helpful
  <2>3. CASE ~running /\ bin = "none" /\ binPc \in {"start", "watch"}
    <3>1. Distance = 11 + 2 * (B!Never - since)
      BY <2>1, <2>3
    <3>2. Distance' <= 11 + 2 * (B!Never - (since + 1))
      BY <1>n, <2>1, <2>3
    <3>3. Distance' < Distance
      BY <1>n, <2>1, <3>1, <3>2
    <3>4. QED
      BY <1>n, <2>1, <3>1, <3>2, <3>3
  <2>4. CASE ~running /\ ~(bin = "none" /\ binPc \in {"start", "watch"})
    <3>1. Distance' = Distance /\ Distance \in Nat
      <4>1. CASE InAttempt
        <5>1. bin # "whole" \/ binPc = "stat"
          BY <4>1
        <5>2. Sound \/ binPc \in {"verify", "extract", "install"}
          BY <4>1
        <5>3. QED
          BY <1>n, <2>1, <2>4, <4>1, <5>1, <5>2
      <4>2. CASE ~InAttempt
        BY <1>n, <2>1, <2>4, <4>2
      <4>3. QED
        BY <4>1, <4>2
    <3>2. ~Helpful
      <4> HIDE DEF Distance, InAttempt, Sound
      <4>1. ~Waiting
        BY <2>4 DEF Waiting
      <4>2. ~B!Restart
        BY <2>1 DEF B!Restart, B!Begins
      <4>3. ~B!Stat /\ ~B!Download /\ ~B!Verify /\ ~B!Extract /\ ~B!Install
        BY <2>1 DEF B!Stat, B!Download, B!Verify, B!Extract, B!Install, B!AfterMismatch
      <4>4. ~B!StartEngine /\ ~B!WatchTick
        BY <2>1, <2>4 DEF B!StartEngine, B!WatchTick
      <4>5. QED
        BY <4>1, <4>2, <4>3, <4>4 DEF Helpful, B!Program, B!EnsureBinary
    <3>3. QED
      BY <3>1, <3>2
  <2>5. QED
    BY <2>2, <2>3, <2>4
<1> QED
  BY <1>1, <1>2, <1>3, <1>4, <1>5, <1>6, <1>7, <1>8, <1>9, <1>10
     DEF B!Next, B!Program, B!EnsureBinary

\* The safety half of EngineComesUp: a measure of the way to a running engine that only
\* a fault raises and every step that counts lowers (EnsureBinary, Watchdog).
THEOREM EngineComesCloser ==
  ASSUME Minute \in Nat
  PROVE  B!Spec => [][ComesCloser]_B!vars
<1>1. WayInv /\ [B!Next]_B!vars => [ComesCloser]_B!vars
  BY CloserStep
<1>2. B!Spec => []WayInv
  BY WayInvariant
<1>3. QED
  BY <1>1, <1>2, PTL DEF B!Spec
-----------------------------------------------------------------------------
(* The composition *)

\* The run of all parts together is, seen from each of them, a run of that part with
\* its fairness: what is proved of one alone holds in MCBoot's run.
THEOREM PartsOnTheirOwn ==
  AllSpec => LiveSpec /\ B!LiveSpec /\ RoutingSpec /\ H!LiveSpec
<1> USE DEF binVars, B!vars, hubVars, H!vars
<1>1. AllInit => Init /\ B!Init /\ RoutingInit /\ H!Init
  BY DEF AllInit
<1>2. [AllNext]_allVars
        => /\ [Next]_vars /\ [B!Next]_B!vars
           /\ [RoutingNext]_routingVars /\ [H!Next]_H!vars
  <2>1. CASE Database
    BY <2>1 DEF Database
  <2>2. CASE Binary
    BY <2>2 DEF Binary
  <2>3. CASE Routes
    BY <2>3 DEF Routes
  <2>4. CASE Sockets
    BY <2>4 DEF Sockets
  <2>5. CASE UNCHANGED allVars
    BY <2>5 DEF allVars
  <2>6. QED
    BY <2>1, <2>2, <2>3, <2>4, <2>5 DEF AllNext
<1>3. QED
  BY <1>1, <1>2, PTL
  DEF AllSpec, LiveSpec, Spec, B!LiveSpec, B!Spec, RoutingSpec, H!LiveSpec, H!Spec
=============================================================================
