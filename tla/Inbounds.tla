------------------------------- MODULE Inbounds -------------------------------
(***************************************************************************)
(* Requests that create and delete custom inbounds at the same time        *)
(* (createInbound, deleteInbound, portTaken, freeLocalPort,                *)
(* SyncCustomRoutes).  Every query is a step of its own: the limit, the    *)
(* port and the path are checked by queries, then the row is inserted, and *)
(* nothing in the schema makes a port or a path unique.                    *)
(*                                                                         *)
(* Simplifications.                                                        *)
(*  - What a check finds in the request itself (its name, its protocol, a  *)
(*    malformed path, a built-in port) is not modelled: requests here pass *)
(*    those checks.  Which paths collide is in module Routing.             *)
(*  - A path is compared as lower(path): it is a model value.              *)
(*  - The registry is the set of rows it was built from.                   *)
(*  - restartXray, the last step of both handlers, is in Supervisor.       *)
(*  - MaxTags bounds the creations, MaxFailures the queries that fail.     *)
(***************************************************************************)
EXTENDS Integers, FiniteSets

CONSTANTS
  Handlers,    \* goroutines of net/http
  Paths,       \* paths of TLS inbounds
  LastLocal,   \* freeLocalPort probes 1..LastLocal (10100..10999)
  Ports,       \* the ports a Reality request may ask for
  Limit,       \* 20
  MaxTags,     \* bound: creations
  MaxFailures, \* bound: queries that fail
  NoPath       \* no path, or the unchecked one of a Reality inbound

ASSUME InboundsAssumption ==
  /\ IsFiniteSet(Handlers) /\ Handlers # {}
  /\ LastLocal \in Nat \ {0} /\ Ports \subseteq Nat
  /\ Limit \in Nat \ {0} /\ MaxTags \in Nat /\ MaxFailures \in Nat
  /\ NoPath \notin Paths

VARIABLES
  rows,     \* the table inbounds
  routes,   \* Server.customs: the rows with security = 'tls' it was built from
  pc,       \* where each handler is
  req,      \* the inbound each handler is about to insert
  snapshot, \* the rows each handler's SyncCustomRoutes has read
  nextTag,  \* tags are random: the next one that no row had
  failures,
  before,   \* history: the tags in the table when a handler's request came in
  born      \* history: the same for the request that inserted a tag

vars == <<rows, routes, pc, req, snapshot, nextTag, failures, before, born>>

Tags == 1..MaxTags
AllPorts == Ports \cup 1..LastLocal
NoDraft == [kind |-> "tls", port |-> 1, path |-> NoPath]
Drafts == [kind: {"tls", "reality"}, port: AllPorts, path: Paths \cup {NoPath}]
Rows == [tag: Tags, kind: {"tls", "reality"}, port: AllPorts, path: Paths \cup {NoPath}]

\* Past the count check and not yet at the INSERT's other side.
Pending == {h \in Handlers : pc[h] \in {"port", "path", "insert"}}

TypeOK ==
  /\ rows \subseteq Rows /\ routes \subseteq Rows
  /\ pc \in [Handlers -> {"idle", "port", "path", "insert", "sync", "swap"}]
  /\ req \in [Handlers -> Drafts]
  /\ snapshot \in [Handlers -> SUBSET Rows]
  /\ nextTag \in 1..(MaxTags + 1)
  /\ failures \in 0..MaxFailures
  /\ before \in [Handlers -> SUBSET Tags]
  /\ born \in [Tags -> SUBSET Tags]
  /\ \A r \in rows : r.tag < nextTag

TLSRows == {r \in rows : r.kind = "tls"}
TagsOf(rs) == {r.tag : r \in rs}

Init ==
  /\ rows = {} /\ routes = {}
  /\ pc = [h \in Handlers |-> "idle"]
  /\ req = [h \in Handlers |-> NoDraft]
  /\ snapshot = [h \in Handlers |-> {}]
  /\ nextTag = 1 /\ failures = 0
  /\ before = [h \in Handlers |-> {}]
  /\ born = [t \in Tags |-> {}]

-----------------------------------------------------------------------------
(* createInbound *)

Goto(h, where) ==
  /\ pc' = [pc EXCEPT ![h] = where]
  /\ UNCHANGED <<req, snapshot, before>>

\* The handler returns; its locals are gone.
Return(h) ==
  /\ pc' = [pc EXCEPT ![h] = "idle"]
  /\ req' = [req EXCEPT ![h] = NoDraft]
  /\ snapshot' = [snapshot EXCEPT ![h] = {}]
  /\ before' = [before EXCEPT ![h] = {}]

BelowLimit == Cardinality(rows) < Limit

\* SELECT count(*): the request goes on to its port.  A TLS request starts to
\* probe at the first local port, a Reality one names its port.
CountCheck(h) ==
  /\ pc[h] = "idle" /\ BelowLimit
  /\ \/ \E p \in Paths :
          req' = [req EXCEPT ![h] = [kind |-> "tls", port |-> 1, path |-> p]]
     \/ \E n \in Ports :
          req' = [req EXCEPT ![h] = [kind |-> "reality", port |-> n, path |-> NoPath]]
  /\ before' = [before EXCEPT ![h] = TagsOf(rows)]
  /\ pc' = [pc EXCEPT ![h] = "port"]
  /\ UNCHANGED <<rows, routes, snapshot, nextTag, failures, born>>

\* Mutant of PortFree: only the column of its own kind of inbound.
PortFreeOfKind(d) == \A r \in rows : r.kind = d.kind => r.port # d.port

\* WHERE port=$1 OR lport=$1: ports of Reality rows, local ports of TLS rows.
PortFree(d) == \A r \in rows : r.port # d.port

\* portTaken, or the probe of freeLocalPort that finds a free port.
PortFound(h) ==
  /\ pc[h] = "port" /\ PortFree(req[h])
  /\ Goto(h, IF req[h].kind = "tls" THEN "path" ELSE "insert")
  /\ UNCHANGED <<rows, routes, nextTag, failures, born>>

\* freeLocalPort: the next port, and none after the last.
NextProbe(h) ==
  /\ IF req[h].port < LastLocal
       THEN req' = [req EXCEPT ![h].port = @ + 1] /\ UNCHANGED <<pc, snapshot, before>>
       ELSE Return(h)
  /\ UNCHANGED <<rows, routes, nextTag, born>>

ProbeTaken(h) ==
  /\ pc[h] = "port" /\ req[h].kind = "tls" /\ ~PortFree(req[h])
  /\ NextProbe(h) /\ UNCHANGED failures

\* err == nil && count == 0: a probe that fails passes its port over.
ProbeFails(h) ==
  /\ pc[h] = "port" /\ req[h].kind = "tls" /\ failures < MaxFailures
  /\ NextProbe(h) /\ failures' = failures + 1

PortRefused(h) ==
  /\ pc[h] = "port" /\ req[h].kind = "reality" /\ ~PortFree(req[h])
  /\ Return(h)
  /\ UNCHANGED <<rows, routes, nextTag, failures, born>>

\* Mutant of PathFree: only the built-in paths are refused.
PathUnchecked(d) == TRUE

\* security='tls' AND lower(path)=$1
PathFree(d) == \A r \in TLSRows : r.path # d.path

PathChecked(h) ==
  /\ pc[h] = "path"
  /\ IF PathFree(req[h]) THEN Goto(h, "insert") ELSE Return(h)
  /\ UNCHANGED <<rows, routes, nextTag, failures, born>>

\* INSERT INTO inbounds.
Insert(h) ==
  /\ pc[h] = "insert" /\ nextTag <= MaxTags
  /\ rows' = rows \cup {[tag |-> nextTag, kind |-> req[h].kind,
                         port |-> req[h].port, path |-> req[h].path]}
  /\ nextTag' = nextTag + 1
  /\ born' = [born EXCEPT ![nextTag] = before[h]]
  /\ UNCHANGED routes

Inserted(h) == Insert(h) /\ Goto(h, "sync") /\ UNCHANGED failures

\* The request's context ends after the commit and before the answer.
InsertedUnanswered(h) ==
  /\ failures < MaxFailures /\ failures' = failures + 1
  /\ Insert(h) /\ Return(h)

-----------------------------------------------------------------------------
(* deleteInbound, SyncCustomRoutes, boot *)

Delete(h) ==
  /\ pc[h] = "idle"
  /\ \E r \in rows : rows' = rows \ {r}
  /\ UNCHANGED <<routes, nextTag, born>>

Deleted(h) == Delete(h) /\ Goto(h, "sync") /\ UNCHANGED failures

DeletedUnanswered(h) ==
  /\ failures < MaxFailures /\ failures' = failures + 1
  /\ Delete(h) /\ Return(h)

\* The query of SyncCustomRoutes; when it breaks off the rows read so far are all
\* there are (nobody asks rows.Err()).
ReadRoutes(h) ==
  /\ pc[h] = "sync" /\ pc' = [pc EXCEPT ![h] = "swap"]
  /\ \/ snapshot' = [snapshot EXCEPT ![h] = TLSRows] /\ UNCHANGED failures
     \/ /\ failures < MaxFailures /\ failures' = failures + 1
        /\ \E read \in SUBSET TLSRows : snapshot' = [snapshot EXCEPT ![h] = read]
  /\ UNCHANGED <<rows, routes, req, nextTag, before, born>>

\* Mutant of SwapRoutes: the registry is merged, not replaced.
MergeRoutes(h) ==
  /\ pc[h] = "swap" /\ Return(h)
  /\ routes' = routes \cup snapshot[h]
  /\ UNCHANGED <<rows, nextTag, failures, born>>

\* s.customs = next, under customMu.
SwapRoutes(h) ==
  /\ pc[h] = "swap" /\ Return(h)
  /\ routes' = snapshot[h]
  /\ UNCHANGED <<rows, nextTag, failures, born>>

\* Any query but a probe fails at once: the handler answers 500 or 400, or
\* SyncCustomRoutes returns and leaves the registry as it is.
QueryFails(h) ==
  /\ failures < MaxFailures /\ failures' = failures + 1
  /\ \/ pc[h] \in {"path", "insert", "sync"}
     \/ pc[h] = "port" /\ req[h].kind = "reality"
  /\ Return(h)
  /\ UNCHANGED <<rows, routes, nextTag, born>>

\* The process dies and boots: main calls SyncCustomRoutes, which says nothing when
\* it gets no rows or not all of them.
Reboot ==
  /\ pc' = [h \in Handlers |-> "idle"]
  /\ req' = [h \in Handlers |-> NoDraft]
  /\ snapshot' = [h \in Handlers |-> {}]
  /\ before' = [h \in Handlers |-> {}]
  /\ \/ routes' = TLSRows /\ UNCHANGED failures
     \/ /\ failures < MaxFailures /\ failures' = failures + 1
        /\ routes' \in SUBSET TLSRows
  /\ UNCHANGED <<rows, nextTag, born>>

Create(h) ==
  \/ CountCheck(h) \/ PortFound(h) \/ ProbeTaken(h) \/ ProbeFails(h)
  \/ PortRefused(h) \/ PathChecked(h) \/ Inserted(h) \/ InsertedUnanswered(h)

Next ==
  \/ \E h \in Handlers :
       \/ Create(h)
       \/ Deleted(h) \/ DeletedUnanswered(h)
       \/ ReadRoutes(h) \/ SwapRoutes(h) \/ QueryFails(h)
  \/ Reboot

Spec == Init /\ [][Next]_vars

-----------------------------------------------------------------------------
(* Properties *)

\* Whatever overlaps, the table exceeds the limit of 20 by less than the
\* number of handlers.
RowsBounded == Cardinality(rows) <= Limit + Cardinality(Handlers) - 1

\* Two inbounds listen on one port only if the requests that created them
\* overlapped: neither found the other's row in the table when it came in.
PortClashOverlaps ==
  \A r, s \in rows : r # s /\ r.port = s.port => r.tag \notin born[s.tag]

\* The same for the paths of TLS inbounds.
PathClashOverlaps ==
  \A r, s \in TLSRows : r # s /\ r.path = s.path => r.tag \notin born[s.tag]

\* No two inbounds listen on one port.  Holds for one request at a time.
PortsDistinct == \A r, s \in rows : r # s => r.port # s.port

\* No two TLS inbounds have one path.  Holds for one request at a time.
PathsDistinct == \A r, s \in TLSRows : r # s => r.path # s.path
=============================================================================
