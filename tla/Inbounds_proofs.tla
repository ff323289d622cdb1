--------------------------- MODULE Inbounds_proofs ---------------------------
(***************************************************************************)
(* Proofs about Inbounds, for any number of handlers.  A check of a port   *)
(* or a path stays true of the rows its request found in the table when it *)
(* came in, because tags are never reused: rows only leave that set.  The  *)
(* registry is proved about with the history MCInbounds adds.              *)
(***************************************************************************)
EXTENDS MCInbounds, FiniteSetTheorems, TLAPS

\* Splits a step into the actions of Next.
LEMMA StepCases ==
  ASSUME [Next]_vars, NEW P,
         \A h \in Handlers : CountCheck(h) => P,
         \A h \in Handlers : PortFound(h) => P,
         \A h \in Handlers : ProbeTaken(h) \/ ProbeFails(h) => P,
         \A h \in Handlers : PortRefused(h) \/ QueryFails(h) => P,
         \A h \in Handlers : PathChecked(h) => P,
         \A h \in Handlers : Inserted(h) \/ InsertedUnanswered(h) => P,
         \A h \in Handlers : Deleted(h) \/ DeletedUnanswered(h) => P,
         \A h \in Handlers : ReadRoutes(h) => P,
         \A h \in Handlers : SwapRoutes(h) => P,
         Reboot => P,
         UNCHANGED vars => P
  PROVE  P
  BY DEF Next, Create

Places == {"idle", "port", "path", "insert", "sync", "swap"}

LocalsTyped ==
  /\ pc \in [Handlers -> Places]
  /\ req \in [Handlers -> Drafts]
  /\ snapshot \in [Handlers -> SUBSET Rows]
  /\ before \in [Handlers -> SUBSET Tags]

\* What a handler's move to another place, or its return, does to its locals.
LEMMA MoveType ==
  ASSUME TypeOK, NEW h \in Handlers, NEW w \in Places, Goto(h, w)
  PROVE  LocalsTyped'
  BY DEF TypeOK, Goto, LocalsTyped, Places

\* An answer keeps the types.
LEMMA ReturnType ==
  ASSUME TypeOK, NEW h \in Handlers, Return(h)
  PROVE  LocalsTyped'
<1>1. NoDraft \in Drafts
  BY InboundsAssumption DEF NoDraft, Drafts, AllPorts
<1>. QED
  BY <1>1 DEF TypeOK, Return, LocalsTyped, Places

\* Every variable keeps its type; every row's tag has been given out, and every
\* port of a row is one that a request may ask for or the probe may find
\* (handlers.go:553-562).
THEOREM TypeCorrect == Spec => []TypeOK
<1>. USE DEF TypeOK, TLSRows, Rows, Drafts, NoDraft, AllPorts
<1>1. Init => TypeOK
  BY InboundsAssumption DEF Init
<1>2. TypeOK /\ [Next]_vars => TypeOK'
  <2>. SUFFICES ASSUME TypeOK, [Next]_vars
                PROVE  TypeOK'
    OBVIOUS
  <2>1. ASSUME NEW h \in Handlers, CountCheck(h)
        PROVE  TypeOK'
    <3>1. TagsOf(rows) \subseteq Tags
      BY DEF TagsOf
    <3>2. req' \in [Handlers -> Drafts]
      <4>1. \E d \in Drafts : req' = [req EXCEPT ![h] = d]
        BY <2>1, InboundsAssumption DEF CountCheck
      <4>. QED
        BY <4>1
    <3>. QED
      BY <2>1, <3>1, <3>2 DEF CountCheck
  <2>2. ASSUME NEW h \in Handlers, PortFound(h)
        PROVE  TypeOK'
    BY <2>2 DEF PortFound, Goto
  <2>3. ASSUME NEW h \in Handlers, ProbeTaken(h) \/ ProbeFails(h)
        PROVE  TypeOK'
    <3>1. NextProbe(h) /\ failures' \in 0..MaxFailures
      BY <2>3, InboundsAssumption DEF ProbeTaken, ProbeFails
    <3>2. req' \in [Handlers -> Drafts]
      BY <3>1, InboundsAssumption DEF NextProbe, Return
    <3>. QED
      BY <3>1, <3>2 DEF NextProbe, Return
  <2>4. ASSUME NEW h \in Handlers, PortRefused(h) \/ QueryFails(h)
        PROVE  TypeOK'
    <3>1. Return(h) /\ UNCHANGED <<rows, routes, nextTag, born>>
      BY <2>4 DEF PortRefused, QueryFails
    <3>2. failures' \in 0..MaxFailures
      BY <2>4, InboundsAssumption DEF PortRefused, QueryFails
    <3>. QED
      BY <3>1, <3>2, InboundsAssumption DEF Return
  <2>5. ASSUME NEW h \in Handlers, PathChecked(h)
        PROVE  TypeOK'
    <3>1. LocalsTyped'
      BY <2>5, MoveType, ReturnType DEF PathChecked, Places
    <3>. QED
      BY <2>5, <3>1 DEF PathChecked, LocalsTyped, Places
  <2>6. ASSUME NEW h \in Handlers, Inserted(h) \/ InsertedUnanswered(h)
        PROVE  TypeOK'
    <3>1. Insert(h) /\ (Goto(h, "sync") \/ Return(h)) /\ failures' \in 0..MaxFailures
      BY <2>6, InboundsAssumption DEF Inserted, InsertedUnanswered
    <3>2. /\ pc' \in [Handlers -> {"idle", "port", "path", "insert", "sync", "swap"}]
          /\ req' \in [Handlers -> Drafts]
          /\ snapshot' \in [Handlers -> SUBSET Rows]
          /\ before' \in [Handlers -> SUBSET Tags]
      BY <3>1, MoveType, ReturnType DEF LocalsTyped, Places
    <3>3. /\ nextTag \in Tags /\ nextTag' = nextTag + 1 /\ nextTag' \in 1..(MaxTags + 1)
          /\ routes' = routes
      BY <3>1, InboundsAssumption DEF Insert, Tags
    <3>4. born' \in [Tags -> SUBSET Tags]
      BY <3>1, <3>3 DEF Insert
    <3>5. rows' \subseteq Rows
      BY <3>1, <3>3 DEF Insert
    <3>6. \A r \in rows' : r.tag < nextTag'
      BY <3>1, <3>3 DEF Insert, Tags
    <3>. QED
      BY <3>1, <3>2, <3>3, <3>4, <3>5, <3>6
  <2>7. ASSUME NEW h \in Handlers, Deleted(h) \/ DeletedUnanswered(h)
        PROVE  TypeOK'
    <3>1. Delete(h) /\ (Goto(h, "sync") \/ Return(h)) /\ failures' \in 0..MaxFailures
      BY <2>7, InboundsAssumption DEF Deleted, DeletedUnanswered
    <3>2. rows' \subseteq rows /\ UNCHANGED <<routes, nextTag, born>>
      BY <3>1 DEF Delete
    <3>3. LocalsTyped'
      BY <3>1, MoveType, ReturnType DEF Places
    <3>. QED
      BY <3>1, <3>2, <3>3 DEF LocalsTyped, Places
  <2>8. ASSUME NEW h \in Handlers, ReadRoutes(h)
        PROVE  TypeOK'
    <3>1. failures' \in 0..MaxFailures
      BY <2>8, InboundsAssumption DEF ReadRoutes
    <3>2. PICK read \in SUBSET TLSRows : snapshot' = [snapshot EXCEPT ![h] = read]
      BY <2>8 DEF ReadRoutes
    <3>3. snapshot' \in [Handlers -> SUBSET Rows]
      BY <3>2 DEF TLSRows
    <3>. QED
      BY <2>8, <3>1, <3>3 DEF ReadRoutes
  <2>9. ASSUME NEW h \in Handlers, SwapRoutes(h)
        PROVE  TypeOK'
    BY <2>9, InboundsAssumption DEF SwapRoutes, Return
  <2>10. CASE Reboot
    BY <2>10, InboundsAssumption DEF Reboot
  <2>11. CASE UNCHANGED vars
    BY <2>11 DEF vars
  <2>. HIDE DEF TypeOK
  <2>. QED
    BY <2>1, <2>2, <2>3, <2>4, <2>5, <2>6, <2>7, <2>8, <2>9, <2>10, <2>11, StepCases
<1>. QED
  BY <1>1, <1>2, PTL DEF Spec

-----------------------------------------------------------------------------
(* Clashes of ports and paths *)

\* A tag is given out once, and a request has seen only tags given out before.
SeenInv ==
  /\ \A h \in Handlers : \A t \in before[h] : t < nextTag
  /\ \A t \in Tags : \A u \in born[t] : u < t
  /\ \A r, s \in rows : r.tag = s.tag => r = s

\* A request past its port check found no row that it had seen on its port.
PortInv ==
  \A h \in Handlers : pc[h] \in {"path", "insert"} =>
    \A r \in rows : r.tag \in before[h] => r.port # req[h].port

\* A TLS request past its path check found no such row on its path.
PathInv ==
  \A h \in Handlers : pc[h] = "insert" /\ req[h].kind = "tls" =>
    \A r \in TLSRows : r.tag \in before[h] => r.path # req[h].path

ClashInv == SeenInv /\ PortInv /\ PathInv /\ PortClashOverlaps /\ PathClashOverlaps

\* A step that leaves the table alone and moves h on to a place where nothing
\* was checked yet, or back to idle.
LEMMA Unchecked ==
  ASSUME TypeOK, ClashInv, NEW h \in Handlers,
         UNCHANGED <<rows, nextTag, born>>,
         \A g \in Handlers \ {h} :
           pc'[g] = pc[g] /\ req'[g] = req[g] /\ before'[g] = before[g],
         pc'[h] \notin {"path", "insert"},
         \A t \in before'[h] : t < nextTag
  PROVE  ClashInv'
<1>1. SeenInv'
  BY DEF ClashInv, SeenInv
<1>2. PortInv'
  BY DEF ClashInv, PortInv
<1>3. PathInv'
  BY DEF ClashInv, PathInv, TLSRows
<1>4. PortClashOverlaps' /\ PathClashOverlaps'
  BY DEF ClashInv, PortClashOverlaps, PathClashOverlaps, TLSRows
<1>. QED
  BY <1>1, <1>2, <1>3, <1>4 DEF ClashInv

\* An answer that leaves the rows alone keeps what is known of clashes.
LEMMA ReturnUnchecked ==
  ASSUME TypeOK, ClashInv, NEW h \in Handlers, Return(h),
         UNCHANGED <<rows, nextTag, born>>
  PROVE  ClashInv'
<1>1. /\ pc'[h] = "idle" /\ before'[h] = {}
      /\ \A g \in Handlers \ {h} :
           pc'[g] = pc[g] /\ req'[g] = req[g] /\ before'[g] = before[g]
  BY DEF TypeOK, Return
<1>. QED
  BY <1>1, Unchecked

\* Rows that leave the table clash with nothing.
LEMMA FewerRows ==
  ASSUME TypeOK, ClashInv, NEW h \in Handlers, rows' \subseteq rows,
         UNCHANGED <<nextTag, born>>, Goto(h, "sync") \/ Return(h)
  PROVE  ClashInv'
<1>1. /\ pc'[h] \in {"sync", "idle"} /\ before'[h] \in {before[h], {}}
      /\ \A g \in Handlers \ {h} :
           pc'[g] = pc[g] /\ req'[g] = req[g] /\ before'[g] = before[g]
  BY DEF TypeOK, Goto, Return
<1>2. SeenInv'
  BY <1>1 DEF ClashInv, SeenInv
<1>3. PortInv'
  BY <1>1 DEF ClashInv, PortInv
<1>4. PathInv'
  BY <1>1 DEF ClashInv, PathInv, TLSRows
<1>5. PortClashOverlaps' /\ PathClashOverlaps'
  BY DEF ClashInv, PortClashOverlaps, PathClashOverlaps, TLSRows
<1>. QED
  BY <1>2, <1>3, <1>4, <1>5 DEF ClashInv

\* The INSERT: the new tag is in nobody's history, and the checks that the
\* request made cover every row it had seen.
LEMMA InsertClash ==
  ASSUME TypeOK, ClashInv, NEW h \in Handlers, Insert(h), Goto(h, "sync") \/ Return(h)
  PROVE  ClashInv'
<1>. DEFINE new == [tag |-> nextTag, kind |-> req[h].kind,
                    port |-> req[h].port, path |-> req[h].path]
<1>1. /\ pc[h] = "insert" /\ nextTag \in Tags /\ rows' = rows \cup {new}
      /\ nextTag' = nextTag + 1
      /\ born' = [born EXCEPT ![nextTag] = before[h]]
  BY DEF Insert, TypeOK, Tags
<1>2. /\ pc'[h] \in {"sync", "idle"} /\ before'[h] \in {before[h], {}}
      /\ \A g \in Handlers \ {h} :
           pc'[g] = pc[g] /\ req'[g] = req[g] /\ before'[g] = before[g]
  BY DEF TypeOK, Goto, Return
<1>3. /\ new.tag = nextTag /\ new.port = req[h].port
      /\ new.kind = req[h].kind /\ new.path = req[h].path
  OBVIOUS
<1>4. \A r \in rows : r.tag \in Tags /\ r.tag < nextTag
  BY DEF TypeOK, Rows
<1>5. /\ born'[nextTag] = before[h]
      /\ \A r \in rows : born'[r.tag] = born[r.tag]
  BY <1>1, <1>4 DEF TypeOK, Tags
<1>6. TLSRows' \subseteq TLSRows \cup {new}
  BY <1>1 DEF TLSRows
<1>7. new \in TLSRows' => req[h].kind = "tls"
  BY <1>3 DEF TLSRows
<1>. HIDE DEF new
<1>8. SeenInv'
  <2>1. \A g \in Handlers : \A t \in before'[g] : t < nextTag'
    <3>1. \A g \in Handlers : before'[g] \subseteq before[g] /\ before[g] \subseteq Tags
      BY <1>2 DEF TypeOK
    <3>. QED
      BY <1>1, <3>1 DEF ClashInv, SeenInv, Tags
  <2>2. \A t \in Tags : \A u \in born'[t] : u < t
    BY <1>1 DEF ClashInv, SeenInv, TypeOK
  <2>3. (\A r, s \in rows : r.tag = s.tag => r = s)'
    BY <1>1, <1>3, <1>4 DEF ClashInv, SeenInv, Tags
  <2>. QED
    BY <2>1, <2>2, <2>3 DEF SeenInv
<1>9. \A g \in Handlers : nextTag \notin before[g]
  BY <1>1 DEF ClashInv, SeenInv, Tags
<1>10. PortInv'
  BY <1>1, <1>2, <1>3, <1>9 DEF ClashInv, PortInv
<1>11. PathInv'
  BY <1>2, <1>3, <1>6, <1>9 DEF ClashInv, PathInv
<1>12. \A r \in rows : nextTag \notin born'[r.tag]
  BY <1>1, <1>4, <1>5 DEF ClashInv, SeenInv, Tags
<1>13. PortClashOverlaps'
  <2>1. \A r \in rows : r.port = new.port => r.tag \notin born'[nextTag]
    BY <1>1, <1>3, <1>5 DEF ClashInv, PortInv
  <2>. QED
    BY <1>1, <1>3, <1>5, <1>12, <2>1 DEF ClashInv, PortClashOverlaps
<1>14. PathClashOverlaps'
  <2>1. \A r \in TLSRows : new \in TLSRows' /\ r.path = new.path => r.tag \notin born'[nextTag]
    BY <1>1, <1>3, <1>5, <1>7 DEF ClashInv, PathInv
  <2>2. TLSRows \subseteq rows
    BY DEF TLSRows
  <2>. QED
    BY <1>3, <1>5, <1>6, <1>12, <2>1, <2>2 DEF ClashInv, PathClashOverlaps
<1>. QED
  BY <1>8, <1>10, <1>11, <1>13, <1>14 DEF ClashInv

\* Clashes are accounted for throughout.
LEMMA ClashAlways == Spec => []ClashInv
<1>1. Init => ClashInv
  BY DEF Init, ClashInv, SeenInv, PortInv, PathInv, PortClashOverlaps, PathClashOverlaps, TLSRows
<1>2. TypeOK /\ ClashInv /\ [Next]_vars => ClashInv'
  <2>. SUFFICES ASSUME TypeOK, ClashInv, [Next]_vars
                PROVE  ClashInv'
    OBVIOUS
  <2>1. ASSUME NEW h \in Handlers, CountCheck(h)
        PROVE  ClashInv'
    <3>1. pc'[h] = "port" /\ before'[h] = TagsOf(rows)
      BY <2>1 DEF CountCheck, TypeOK
    <3>2. \A g \in Handlers \ {h} :
            pc'[g] = pc[g] /\ req'[g] = req[g] /\ before'[g] = before[g]
      BY <2>1 DEF CountCheck, TypeOK
    <3>3. \A t \in before'[h] : t < nextTag
      BY <3>1 DEF TagsOf, TypeOK
    <3>. QED
      BY <2>1, <3>1, <3>2, <3>3, Unchecked DEF CountCheck
  <2>2. ASSUME NEW h \in Handlers, PortFound(h)
        PROVE  ClashInv'
    <3>1. /\ UNCHANGED <<rows, routes, nextTag, failures, born, req, snapshot, before>>
          /\ \A g \in Handlers \ {h} : pc'[g] = pc[g]
          /\ pc'[h] = "insert" => req[h].kind # "tls"
      BY <2>2 DEF PortFound, Goto, TypeOK
    <3>2. SeenInv' /\ PortClashOverlaps' /\ PathClashOverlaps'
      BY <3>1 DEF ClashInv, SeenInv, PortClashOverlaps, PathClashOverlaps, TLSRows
    <3>3. PortInv'
      BY <2>2, <3>1 DEF ClashInv, PortInv, PortFound, PortFree
    <3>4. PathInv'
      BY <3>1 DEF ClashInv, PathInv, TLSRows
    <3>. QED
      BY <3>2, <3>3, <3>4 DEF ClashInv
  <2>3. ASSUME NEW h \in Handlers, ProbeTaken(h) \/ ProbeFails(h)
        PROVE  ClashInv'
    <3>1. pc[h] = "port" /\ NextProbe(h)
      BY <2>3 DEF ProbeTaken, ProbeFails
    <3>2. CASE Return(h)
      BY <3>1, <3>2, ReturnUnchecked DEF NextProbe
    <3>3. CASE UNCHANGED <<pc, snapshot, before>> /\ \E n \in Nat : req' = [req EXCEPT ![h].port = n]
      <4>1. \A t \in before'[h] : t < nextTag
        BY <3>3 DEF ClashInv, SeenInv
      <4>2. \A g \in Handlers \ {h} : req'[g] = req[g]
        BY <3>3 DEF TypeOK
      <4>. QED
        BY <3>1, <3>3, <4>1, <4>2, Unchecked DEF NextProbe
    <3>4. req[h].port \in Nat
      <4>1. req[h].port \in AllPorts
        BY DEF TypeOK, Drafts
      <4>2. AllPorts \subseteq Nat
        BY InboundsAssumption DEF AllPorts
      <4>. QED
        BY <4>1, <4>2
    <3>. QED
      BY <3>1, <3>2, <3>3, <3>4 DEF NextProbe
  <2>4. ASSUME NEW h \in Handlers, PortRefused(h) \/ QueryFails(h)
        PROVE  ClashInv'
    BY <2>4, ReturnUnchecked DEF PortRefused, QueryFails
  <2>5. ASSUME NEW h \in Handlers, PathChecked(h)
        PROVE  ClashInv'
    <3>1. CASE Return(h)
      BY <2>5, <3>1, ReturnUnchecked DEF PathChecked
    <3>2. CASE PathFree(req[h]) /\ Goto(h, "insert")
      <4>1. /\ UNCHANGED <<rows, routes, nextTag, failures, born, req, snapshot, before>>
            /\ pc[h] = "path" /\ \A g \in Handlers \ {h} : pc'[g] = pc[g]
        BY <2>5, <3>2 DEF PathChecked, Goto, TypeOK
      <4>2. SeenInv' /\ PortClashOverlaps' /\ PathClashOverlaps'
        BY <4>1 DEF ClashInv, SeenInv, PortClashOverlaps, PathClashOverlaps, TLSRows
      <4>3. PortInv'
        <5>1. \A g \in Handlers : pc'[g] \in {"path", "insert"} => pc[g] \in {"path", "insert"}
          BY <4>1
        <5>. QED
          BY <4>1, <5>1 DEF ClashInv, PortInv
      <4>4. PathInv'
        BY <3>2, <4>1 DEF ClashInv, PathInv, PathFree, TLSRows
      <4>. QED
        BY <4>2, <4>3, <4>4 DEF ClashInv
    <3>. QED
      BY <2>5, <3>1, <3>2 DEF PathChecked
  <2>6. ASSUME NEW h \in Handlers, Inserted(h) \/ InsertedUnanswered(h)
        PROVE  ClashInv'
    BY <2>6, InsertClash DEF Inserted, InsertedUnanswered
  <2>7. ASSUME NEW h \in Handlers, Deleted(h) \/ DeletedUnanswered(h)
        PROVE  ClashInv'
    <3>1. rows' \subseteq rows /\ UNCHANGED <<nextTag, born>> /\ (Goto(h, "sync") \/ Return(h))
      BY <2>7 DEF Deleted, DeletedUnanswered, Delete
    <3>. QED
      BY <3>1, FewerRows
  <2>8. ASSUME NEW h \in Handlers, ReadRoutes(h)
        PROVE  ClashInv'
    <3>1. pc'[h] = "swap" /\ \A g \in Handlers \ {h} : pc'[g] = pc[g]
      BY <2>8 DEF ReadRoutes, TypeOK
    <3>2. \A t \in before'[h] : t < nextTag
      BY <2>8 DEF ReadRoutes, ClashInv, SeenInv
    <3>. QED
      BY <2>8, <3>1, <3>2, Unchecked DEF ReadRoutes
  <2>9. ASSUME NEW h \in Handlers, SwapRoutes(h)
        PROVE  ClashInv'
    BY <2>9, ReturnUnchecked DEF SwapRoutes
  <2>10. CASE Reboot
    BY <2>10 DEF Reboot, ClashInv, SeenInv, PortInv, PathInv, PortClashOverlaps, PathClashOverlaps, TLSRows
  <2>11. CASE UNCHANGED vars
    BY <2>11 DEF vars, ClashInv, SeenInv, PortInv, PathInv, PortClashOverlaps, PathClashOverlaps, TLSRows
  <2>. QED
    BY <2>1, <2>2, <2>3, <2>4, <2>5, <2>6, <2>7, <2>8, <2>9, <2>10, <2>11, StepCases
<1>. QED
  BY <1>1, <1>2, TypeCorrect, PTL DEF Spec

\* Two inbounds share a port only if their creations overlapped, however many
\* requests run at once and whichever queries fail (handlers.go:536-562).
THEOREM PortClashesOverlap == Spec => []PortClashOverlaps
<1>1. ClashInv => PortClashOverlaps
  BY DEF ClashInv
<1>. QED
  BY <1>1, ClashAlways, PTL

\* Two TLS inbounds share a path only if their creations overlapped
\* (handlers.go:433-455).
THEOREM PathClashesOverlap == Spec => []PathClashOverlaps
<1>1. ClashInv => PathClashOverlaps
  BY DEF ClashInv
<1>. QED
  BY <1>1, ClashAlways, PTL

-----------------------------------------------------------------------------
(* The limit *)

\* Every request past the count check may still insert one row.
BoundInv ==
  /\ IsFiniteSet(rows)
  /\ Cardinality(rows) + Cardinality(Pending) <= Limit + Cardinality(Handlers) - 1

\* A set of handlers is finite and no larger than all of them.
LEMMA PendingCard ==
  ASSUME NEW S, S \subseteq Handlers
  PROVE  /\ IsFiniteSet(S) /\ Cardinality(S) \in Nat
         /\ Cardinality(Handlers) \in Nat
         /\ Cardinality(S) <= Cardinality(Handlers)
  BY InboundsAssumption, FS_Subset, FS_CardinalityType

\* A step that adds neither a row nor a pending request.
LEMMA Shrinks ==
  ASSUME BoundInv, rows' \subseteq rows, Pending' \subseteq Pending
  PROVE  BoundInv'
<1>1. IsFiniteSet(rows') /\ Cardinality(rows') <= Cardinality(rows)
  BY FS_Subset DEF BoundInv
<1>2. Cardinality(rows) \in Nat /\ Cardinality(rows') \in Nat
  BY <1>1, FS_CardinalityType DEF BoundInv
<1>3. Pending \subseteq Handlers /\ Pending' \subseteq Handlers
  BY DEF Pending
<1>4. /\ IsFiniteSet(Pending) /\ Cardinality(Pending') <= Cardinality(Pending)
      /\ Cardinality(Pending) \in Nat /\ Cardinality(Pending') \in Nat
      /\ Cardinality(Handlers) \in Nat
  BY <1>3, PendingCard, FS_Subset
<1>. QED
  BY <1>1, <1>2, <1>4, InboundsAssumption DEF BoundInv

\* The table never exceeds the limit by as much as the number of handlers,
\* although the count is checked long before the INSERT (handlers.go:345-354).
THEOREM RowsAlwaysBounded == Spec => []RowsBounded
<1>1. Init => BoundInv
  <2>. SUFFICES ASSUME Init
                PROVE  BoundInv
    OBVIOUS
  <2>1. Pending = {} /\ rows = {}
    BY DEF Init, Pending
  <2>2. Cardinality(Handlers) \in Nat /\ Cardinality(Handlers) # 0
    BY InboundsAssumption, FS_CardinalityType, FS_EmptySet
  <2>3. IsFiniteSet({}) /\ Cardinality({}) = 0
    BY FS_EmptySet
  <2>. QED
    BY <2>1, <2>2, <2>3, InboundsAssumption DEF BoundInv
<1>2. TypeOK /\ BoundInv /\ [Next]_vars => BoundInv'
  <2>. SUFFICES ASSUME TypeOK, BoundInv, [Next]_vars
                PROVE  BoundInv'
    OBVIOUS
  <2>1. ASSUME NEW h \in Handlers, CountCheck(h)
        PROVE  BoundInv'
    <3>1. rows' = rows /\ Cardinality(rows) < Limit
      BY <2>1 DEF CountCheck, BelowLimit
    <3>2. Pending' \subseteq Handlers
      BY DEF Pending
    <3>3. Cardinality(Pending') <= Cardinality(Handlers)
          /\ Cardinality(Pending') \in Nat /\ Cardinality(Handlers) \in Nat
      BY <3>2, PendingCard
    <3>4. Cardinality(rows) \in Nat
      BY FS_CardinalityType DEF BoundInv
    <3>. QED
      BY <3>1, <3>3, <3>4, InboundsAssumption DEF BoundInv
  <2>2. ASSUME NEW h \in Handlers, PortFound(h)
        PROVE  BoundInv'
    <3>1. rows' = rows /\ pc[h] = "port" /\ \A g \in Handlers \ {h} : pc'[g] = pc[g]
      BY <2>2 DEF PortFound, Goto, TypeOK
    <3>. QED
      BY <3>1, Shrinks DEF Pending
  <2>3. ASSUME NEW h \in Handlers, Return(h), rows' \subseteq rows
        PROVE  BoundInv'
    <3>1. Pending' \subseteq Pending
      BY <2>3 DEF Return, TypeOK, Pending
    <3>. QED
      BY <2>3, <3>1, Shrinks
  <2>4. ASSUME NEW h \in Handlers, ProbeTaken(h) \/ ProbeFails(h)
        PROVE  BoundInv'
    <3>1. rows' = rows /\ (pc' = pc \/ Return(h))
      BY <2>4 DEF ProbeTaken, ProbeFails, NextProbe
    <3>. QED
      BY <2>3, <3>1, Shrinks DEF Pending
  <2>5. ASSUME NEW h \in Handlers, PortRefused(h) \/ QueryFails(h) \/ SwapRoutes(h)
        PROVE  BoundInv'
    BY <2>3, <2>5 DEF PortRefused, QueryFails, SwapRoutes
  <2>6. ASSUME NEW h \in Handlers, PathChecked(h)
        PROVE  BoundInv'
    <3>1. rows' = rows /\ pc[h] = "path" /\ (Return(h) \/ Goto(h, "insert"))
      BY <2>6 DEF PathChecked
    <3>2. Pending' \subseteq Pending
      BY <3>1 DEF Goto, Return, TypeOK, Pending
    <3>. QED
      BY <3>1, <3>2, Shrinks
  <2>7. ASSUME NEW h \in Handlers, Inserted(h) \/ InsertedUnanswered(h)
        PROVE  BoundInv'
    <3>1. Insert(h) /\ (Goto(h, "sync") \/ Return(h))
      BY <2>7 DEF Inserted, InsertedUnanswered
    <3>2. h \in Pending /\ Pending' = Pending \ {h}
      BY <3>1 DEF Insert, Goto, Return, TypeOK, Pending
    <3>3. Pending \subseteq Handlers /\ IsFiniteSet(Pending)
          /\ Cardinality(Pending) \in Nat /\ Cardinality(Handlers) \in Nat
      BY PendingCard DEF Pending
    <3>4. Cardinality(Pending') = Cardinality(Pending) - 1
      BY <3>2, <3>3, FS_RemoveElement
    <3>5. PICK r : rows' = rows \cup {r}
      BY <3>1 DEF Insert
    <3>6. /\ IsFiniteSet(rows \cup {r})
          /\ Cardinality(rows \cup {r}) \in {Cardinality(rows), Cardinality(rows) + 1}
      BY FS_AddElement DEF BoundInv
    <3>7. Cardinality(rows) \in Nat
      BY FS_CardinalityType DEF BoundInv
    <3>. QED
      BY <3>3, <3>4, <3>5, <3>6, <3>7, InboundsAssumption DEF BoundInv
  <2>8. ASSUME NEW h \in Handlers, Deleted(h) \/ DeletedUnanswered(h)
        PROVE  BoundInv'
    <3>1. rows' \subseteq rows /\ (Goto(h, "sync") \/ Return(h))
      BY <2>8 DEF Deleted, DeletedUnanswered, Delete
    <3>2. Pending' \subseteq Pending
      BY <3>1 DEF Goto, Return, TypeOK, Pending
    <3>. QED
      BY <3>1, <3>2, Shrinks
  <2>9. ASSUME NEW h \in Handlers, ReadRoutes(h)
        PROVE  BoundInv'
    <3>1. rows' = rows /\ pc' = [pc EXCEPT ![h] = "swap"]
      BY <2>9 DEF ReadRoutes
    <3>2. Pending' \subseteq Pending
      BY <3>1 DEF TypeOK, Pending
    <3>. QED
      BY <3>1, <3>2, Shrinks
  <2>10. CASE Reboot
    BY <2>10, Shrinks DEF Reboot, Pending
  <2>11. CASE UNCHANGED vars
    BY <2>11, Shrinks DEF vars, Pending
  <2>. QED
    BY <2>1, <2>2, <2>4, <2>5, <2>6, <2>7, <2>8, <2>9, <2>10, <2>11, StepCases
<1>3. BoundInv => RowsBounded
  <2>. SUFFICES ASSUME BoundInv
                PROVE  RowsBounded
    OBVIOUS
  <2>1. Cardinality(rows) \in Nat /\ Cardinality(Pending) \in Nat /\ Cardinality(Handlers) \in Nat
    BY FS_CardinalityType, PendingCard DEF BoundInv, Pending
  <2>. QED
    BY <2>1, InboundsAssumption DEF BoundInv, RowsBounded
<1>. QED
  BY <1>1, <1>2, <1>3, TypeCorrect, PTL DEF Spec

-----------------------------------------------------------------------------
(* One request at a time *)

\* A lone request has seen every row there is, and every row's request had seen
\* all older ones.
AloneInv ==
  /\ \A h \in Handlers : pc[h] \in {"port", "path", "insert"} => TagsOf(rows) \subseteq before[h]
  /\ \A r, s \in rows : r.tag < s.tag => r.tag \in born[s.tag]

\* With a single handler AloneInv holds throughout.
LEMMA AloneAlways ==
  ASSUME NEW me, Handlers = {me}
  PROVE  Spec => []AloneInv
<1>. USE DEF TagsOf
<1>1. Init => AloneInv
  BY DEF Init, AloneInv
<1>2. TypeOK /\ AloneInv /\ [Next]_vars => AloneInv'
  <2>. SUFFICES ASSUME TypeOK, AloneInv, [Next]_vars
                PROVE  AloneInv'
    OBVIOUS
  <2>1. ASSUME NEW h \in Handlers, CountCheck(h)
        PROVE  AloneInv'
    BY <2>1 DEF CountCheck, AloneInv, TypeOK
  <2>2. ASSUME NEW h \in Handlers, Return(h), rows' \subseteq rows, born' = born
        PROVE  AloneInv'
    BY <2>2 DEF Return, AloneInv, TypeOK
  <2>3. ASSUME NEW h \in Handlers, NEW w \in {"sync", "path", "insert"},
               pc[h] \in {"port", "path"} \/ w = "sync",
               Goto(h, w), rows' \subseteq rows, born' = born
        PROVE  AloneInv'
    BY <2>3 DEF Goto, AloneInv, TypeOK
  <2>4. ASSUME NEW h \in Handlers, ProbeTaken(h) \/ ProbeFails(h)
        PROVE  AloneInv'
    <3>1. UNCHANGED <<rows, born>> /\ (UNCHANGED <<pc, before>> \/ Return(h))
      BY <2>4 DEF ProbeTaken, ProbeFails, NextProbe
    <3>2. CASE UNCHANGED <<pc, before>>
      BY <3>1, <3>2 DEF AloneInv
    <3>. QED
      BY <2>2, <3>1, <3>2
  <2>5. ASSUME NEW h \in Handlers, PortRefused(h) \/ QueryFails(h) \/ SwapRoutes(h)
        PROVE  AloneInv'
    BY <2>2, <2>5 DEF PortRefused, QueryFails, SwapRoutes
  <2>6. ASSUME NEW h \in Handlers, PathChecked(h) \/ PortFound(h)
        PROVE  AloneInv'
    BY <2>2, <2>3, <2>6 DEF PathChecked, PortFound
  <2>7. ASSUME NEW h \in Handlers, Inserted(h) \/ InsertedUnanswered(h)
        PROVE  AloneInv'
    <3>1. Insert(h) /\ (Goto(h, "sync") \/ Return(h))
      BY <2>7 DEF Inserted, InsertedUnanswered
    <3>2. \A g \in Handlers : pc'[g] \notin {"port", "path", "insert"}
      BY <3>1 DEF Goto, Return, TypeOK
    <3>3. PICK new : new.tag = nextTag /\ rows' = rows \cup {new}
      BY <3>1 DEF Insert
    <3>4. nextTag \in Tags /\ born' = [born EXCEPT ![nextTag] = before[h]]
          /\ TagsOf(rows) \subseteq before[h]
      BY <3>1 DEF Insert, AloneInv, TypeOK, Tags
    <3>5. \A r \in rows : r.tag \in Tags /\ r.tag < nextTag /\ r.tag \in before[h]
      BY <3>4 DEF TypeOK, Rows
    <3>6. born'[nextTag] = before[h] /\ \A r \in rows : born'[r.tag] = born[r.tag]
      BY <3>4, <3>5 DEF TypeOK, Tags
    <3>7. ASSUME NEW r \in rows', NEW s \in rows', r.tag < s.tag
          PROVE  r.tag \in born'[s.tag]
      BY <3>3, <3>4, <3>5, <3>6, <3>7 DEF AloneInv, Tags
    <3>. QED
      BY <3>2, <3>7 DEF AloneInv
  <2>8. ASSUME NEW h \in Handlers, Deleted(h) \/ DeletedUnanswered(h)
        PROVE  AloneInv'
    BY <2>2, <2>3, <2>8 DEF Deleted, DeletedUnanswered, Delete
  <2>9. ASSUME NEW h \in Handlers, ReadRoutes(h)
        PROVE  AloneInv'
    BY <2>9 DEF ReadRoutes, AloneInv, TypeOK
  <2>10. CASE Reboot
    BY <2>10 DEF Reboot, AloneInv
  <2>11. CASE UNCHANGED vars
    BY <2>11 DEF vars, AloneInv
  <2>. QED
    BY <2>1, <2>4, <2>5, <2>6, <2>7, <2>8, <2>9, <2>10, <2>11, StepCases
<1>. QED
  BY <1>1, <1>2, TypeCorrect, PTL DEF Spec

\* Requests that never overlap give every inbound a port of its own: what
\* portTaken and freeLocalPort check is enough then (handlers.go:535-562).
THEOREM PortsDistinctAlone ==
  ASSUME NEW me, Handlers = {me}
  PROVE  Spec => []PortsDistinct
<1>1. TypeOK /\ ClashInv /\ AloneInv => PortsDistinct
  BY DEF TypeOK, Rows, Tags, ClashInv, SeenInv, PortClashOverlaps, AloneInv, PortsDistinct
<1>. QED
  BY <1>1, TypeCorrect, ClashAlways, AloneAlways, PTL

\* And every TLS inbound a path of its own (handlers.go:433-455).
THEOREM PathsDistinctAlone ==
  ASSUME NEW me, Handlers = {me}
  PROVE  Spec => []PathsDistinct
<1>1. TypeOK /\ ClashInv /\ AloneInv => PathsDistinct
  BY DEF TypeOK, Rows, Tags, ClashInv, SeenInv, PathClashOverlaps, AloneInv, PathsDistinct, TLSRows
<1>. QED
  BY <1>1, TypeCorrect, ClashAlways, AloneAlways, PTL
-----------------------------------------------------------------------------
(* The registry *)

\* While nothing failed and no two handlers were at the registry together: one of
\* them at most is, what it has read is the table, and once it is done so is the
\* registry.
SyncInv ==
  failures = 0 /\ ~crossed =>
    /\ \A h, g \in Syncing : h = g
    /\ \A h \in Handlers : pc[h] = "swap" => snapshot[h] = TLSRows
    /\ Syncing = {} => routes = TLSRows

\* A set with two members has more than one.
LEMMA TwoAreMore ==
  ASSUME NEW A, IsFiniteSet(A), NEW x \in A, NEW y \in A, x # y
  PROVE  Cardinality(A) > 1
<1>1. IsFiniteSet({x}) /\ Cardinality({x}) = 1
  BY FS_Singleton
<1>2. IsFiniteSet({x} \cup {y}) /\ Cardinality({x} \cup {y}) = 1 + 1
  <2>1. y \notin {x}
    OBVIOUS
  <2>2. QED
    BY <1>1, <2>1, FS_AddElement
<1>3. Cardinality({x} \cup {y}) <= Cardinality(A)
  BY <1>2, FS_Subset
<1>4. QED
  BY <1>2, <1>3, FS_CardinalityType

\* A step after which nobody overlapped: it began with the same, or it settled.
LEMMA NotCrossed ==
  ASSUME HistoryNext, ~crossed'
  PROVE  Settled' \/ (~crossed /\ \A h, g \in Syncing' : h = g)
<1>1. IsFiniteSet(Syncing')
  BY InboundsAssumption, FS_Subset DEF Syncing
<1>2. QED
  BY <1>1, TwoAreMore DEF HistoryNext

\* Without an error or a crossing the registry follows the rows.
LEMMA SyncStep == TypeOK /\ SyncInv /\ [HistoryNext]_<<vars, crossed>> => SyncInv'
<1> SUFFICES ASSUME TypeOK, SyncInv, [HistoryNext]_<<vars, crossed>>, failures' = 0, ~crossed'
             PROVE  /\ \A h, g \in Syncing' : h = g
                    /\ \A h \in Handlers : pc'[h] = "swap" => snapshot'[h] = TLSRows'
                    /\ Syncing' = {} => routes' = TLSRows'
  BY DEF SyncInv
<1> DEFINE Kept == /\ \A h \in Handlers : pc'[h] = "swap" => snapshot'[h] = TLSRows'
                   /\ Syncing' = {} => routes' = TLSRows'
<1>1. CASE UNCHANGED <<vars, crossed>>
  BY <1>1 DEF vars, SyncInv, Syncing, TLSRows
<1>2. CASE HistoryNext
  <2>1. CASE Settled'
    BY <2>1 DEF Settled, Syncing
  <2>2. CASE ~crossed /\ \A h, g \in Syncing' : h = g
    <3> USE DEF TypeOK
    <3>0. failures = 0 => /\ \A h, g \in Syncing : h = g
                          /\ \A h \in Handlers : pc[h] = "swap" => snapshot[h] = TLSRows
                          /\ Syncing = {} => routes = TLSRows
      BY <2>2 DEF SyncInv
    <3>f. failures \in Nat
      BY InboundsAssumption
    <3>1. ASSUME NEW h \in Handlers, CountCheck(h) PROVE Kept
      BY <3>0, <3>1 DEF CountCheck, Syncing, TLSRows
    <3>2. ASSUME NEW h \in Handlers, PortFound(h) PROVE Kept
      BY <3>0, <3>2 DEF PortFound, Goto, Syncing, TLSRows
    <3>3. ASSUME NEW h \in Handlers, ProbeTaken(h) \/ ProbeFails(h) PROVE Kept
      BY <3>0, <3>3, <3>f DEF ProbeTaken, ProbeFails, NextProbe, Return, Syncing, TLSRows
    <3>4. ASSUME NEW h \in Handlers, PortRefused(h) \/ QueryFails(h) PROVE Kept
      BY <3>0, <3>4, <3>f DEF PortRefused, QueryFails, Return, Syncing, TLSRows
    <3>5. ASSUME NEW h \in Handlers, PathChecked(h) PROVE Kept
      BY <3>0, <3>5 DEF PathChecked, Goto, Return, Syncing, TLSRows
    <3>6. ASSUME NEW h \in Handlers, Inserted(h) \/ InsertedUnanswered(h) PROVE Kept
      BY <2>2, <3>6, <3>f DEF Inserted, InsertedUnanswered, Insert, Goto, Syncing
    <3>7. ASSUME NEW h \in Handlers, Deleted(h) \/ DeletedUnanswered(h) PROVE Kept
      BY <2>2, <3>7, <3>f DEF Deleted, DeletedUnanswered, Delete, Goto, Syncing
    <3>8. ASSUME NEW h \in Handlers, ReadRoutes(h) PROVE Kept
      BY <3>0, <3>8 DEF ReadRoutes, Syncing, TLSRows
    <3>9. ASSUME NEW h \in Handlers, SwapRoutes(h) PROVE Kept
      BY <3>0, <3>9 DEF SwapRoutes, Return, Syncing, TLSRows
    <3>10. ASSUME Reboot PROVE Kept
      <4>1. \A h \in Handlers : pc'[h] = "idle"
        BY <3>10 DEF Reboot
      <4>2. routes' = TLSRows'
        BY <3>10 DEF Reboot, TLSRows
      <4>3. QED
        BY <4>1, <4>2
    <3>11. ASSUME UNCHANGED vars PROVE Kept
      BY <3>0, <3>11 DEF vars, Syncing, TLSRows
    <3>12. [Next]_vars
      BY <1>2 DEF HistoryNext
    <3> HIDE DEF Kept
    <3>13. Kept
      BY <3>1, <3>2, <3>3, <3>4, <3>5, <3>6, <3>7, <3>8, <3>9, <3>10, <3>11, <3>12
         DEF Next, Create
    <3>14. QED
      BY <2>2, <3>13 DEF Kept
  <2>3. QED
    BY <1>2, <2>1, <2>2, NotCrossed
<1>3. QED
  BY <1>1, <1>2

\* However many handlers create and delete inbounds: without a failed query the
\* registry differs from the table at rest only if two were at it together since
\* it was last the table's (SyncCustomRoutes).
THEOREM StaleRoutesOverlapAlways == HistorySpec => []StaleRoutesOverlap
<1>1. HistoryInit => Init /\ SyncInv
  BY DEF HistoryInit, Init, SyncInv, Syncing, TLSRows
<1>2. [HistoryNext]_<<vars, crossed>> => [Next]_vars
  BY DEF HistoryNext
<1>3. HistorySpec => []TypeOK
  BY <1>1, <1>2, TypeCorrect, PTL DEF HistorySpec, Spec
<1>4. SyncInv => StaleRoutesOverlap
  BY DEF SyncInv, StaleRoutesOverlap
<1>5. QED
  BY <1>1, <1>3, <1>4, SyncStep, PTL DEF HistorySpec
=============================================================================
