------------------------------- MODULE Routing -------------------------------
(***************************************************************************)
(* Which handler an HTTP request reaches (internal/api/proxy.go and the    *)
(* path checks of createInbound).  A custom TLS inbound owns a path; its   *)
(* route is consulted before the mux that serves the panel, the            *)
(* subscriptions and the five built-in paths, so a route that captures one *)
(* of those takes it offline.                                              *)
(*                                                                         *)
(* Simplifications.                                                        *)
(*  - A path is a sequence of characters; Lower is what strings.ToLower    *)
(*    does to one.  normPath is in the assumption about Paths.             *)
(*  - Insert and SyncCustomRoutes are one step, and no query fails: two    *)
(*    requests at a time are module Inbounds.                              *)
(*  - MaxRows bounds the number of inbounds (20 in the code).              *)
(***************************************************************************)
EXTENDS Integers, FiniteSets, SequencesExt

CONSTANTS
  Char,     \* the characters
  Slash,    \* "/"
  Lower,    \* the lower case of every character
  Reserved, \* "/api", "/sub", "/panel"
  Builtins, \* the sets of built-in paths the environment may configure
  Paths,    \* the paths createInbound may be asked for
  Requests, \* the paths of requests
  Legacy,   \* paths of rows that earlier versions or settings left
  MaxRows   \* bound: custom inbounds

Strings == Seq(Char)

ASSUME CharAssumption ==
  /\ Slash \in Char
  /\ Lower \in [Char -> Char]
  /\ \A c \in Char : Lower[c] = Slash <=> c = Slash

ToLower(p) == [i \in DOMAIN p |-> Lower[p[i]]]

\* "/" and a word in lower case.
ASSUME ReservedAssumption ==
  \A r \in Reserved :
    /\ r \in Strings /\ Len(r) >= 2 /\ ToLower(r) = r
    /\ \A i \in 1..Len(r) : r[i] = Slash <=> i = 1

\* What normPath, the gRPC branch and the length check let through.
ASSUME PathAssumption ==
  /\ \A p \in Paths : p \in Strings /\ Len(p) >= 3 /\ p[1] = Slash
  /\ Requests \subseteq Strings /\ Legacy \subseteq Paths
  /\ \A b \in Builtins : b \subseteq Strings
  /\ MaxRows \in Nat \ {0}

VARIABLES
  builtin, \* the built-in paths of this boot
  rows,    \* the rows of inbounds with security = 'tls': path and local port
  routes   \* Server.customs: path -> local port

routingVars == <<builtin, rows, routes>>

TableRows == [path: Paths, lport: Nat]

RoutingTypeOK ==
  /\ builtin \in Builtins
  /\ rows \subseteq TableRows /\ Cardinality(rows) <= MaxRows
  /\ DOMAIN routes \subseteq Paths
  /\ \A p \in DOMAIN routes : routes[p] \in Nat

-----------------------------------------------------------------------------
(* Path checks and lookup *)

StartsReserved(p) == \E r \in Reserved : IsPrefix(r, ToLower(p))

IsBuiltin(p) == \E b \in builtin : ToLower(b) = ToLower(p)

\* Mutants of PathCollides: one of the two checks is missing.
CollidesWithBuiltin(p) == IsBuiltin(p)
CollidesWithReserved(p) == StartsReserved(p)

PathCollides(p) == StartsReserved(p) \/ IsBuiltin(p)

\* Segment boundaries only.
Matches(path, q) == q = path \/ IsPrefix(Append(path, Slash), q)

\* Mutant of Lookup: the comparison of lengths is reversed.
LookupShortest(q) ==
  {p \in DOMAIN routes :
     /\ Matches(p, q)
     /\ \A o \in DOMAIN routes : Matches(o, q) => Len(p) <= Len(o)}

\* The routes lookupCustom may return for a request: the map is scanned in any
\* order for a longest match.  Empty for nil: the mux serves the request.
Lookup(q) ==
  {p \in DOMAIN routes :
     /\ Matches(p, q)
     /\ \A o \in DOMAIN routes : Matches(o, q) => Len(o) <= Len(p)}

\* The registries SyncCustomRoutes may build: of several rows with one path the
\* one that is scanned last counts.
Registries(rs) ==
  LET Routed == {r.path : r \in {s \in rs : ~PathCollides(s.path)}}
  IN {f \in [Routed -> {r.lport : r \in rs}] :
        \A p \in Routed : [path |-> p, lport |-> f[p]] \in rs}

\* Boot, with a row that the checks of today may refuse, or with none.
RoutingInit ==
  /\ builtin \in Builtins
  /\ rows \in {{}} \cup {{[path |-> p, lport |-> 1]} : p \in Legacy}
  /\ routes \in Registries(rows)

-----------------------------------------------------------------------------
(* Operations *)

\* lower(path) = $1 finds no row.
PathFree(p) == \A r \in rows : ToLower(r.path) # ToLower(p)

\* freeLocalPort: the first port no row has.
FreePort == Min({n \in 1..(MaxRows + 1) : \A r \in rows : r.lport # n})

\* The limit on custom inbounds.
BelowLimit == Cardinality(rows) < MaxRows

CreateInbound(p) ==
  /\ BelowLimit
  /\ ~PathCollides(p) /\ PathFree(p)
  /\ rows' = rows \cup {[path |-> p, lport |-> FreePort]}
  /\ routes' \in Registries(rows')
  /\ UNCHANGED builtin

DeleteInbound(r) ==
  /\ rows' = rows \ {r}
  /\ routes' \in Registries(rows')
  /\ UNCHANGED builtin

\* A new boot, possibly with other built-in paths: main calls SyncCustomRoutes.
Reboot ==
  /\ builtin' \in Builtins
  /\ UNCHANGED rows
  /\ routes' \in Registries(rows)'

RoutingNext ==
  \/ \E p \in Paths : CreateInbound(p)
  \/ \E r \in rows : DeleteInbound(r)
  \/ Reboot

RoutingSpec == RoutingInit /\ [][RoutingNext]_routingVars

-----------------------------------------------------------------------------
(* Properties *)

\* No custom route, not even one left over from other settings, captures a
\* request for the panel's API, the subscriptions or the panel.
PanelReachable ==
  \A q \in Requests : (\E r \in Reserved : Matches(r, q)) => Lookup(q) = {}

\* Go's random map order never decides where a request goes.
LookupDeterministic == \A q \in Requests : \A p, o \in Lookup(q) : p = o

\* Every inbound whose path does not collide is reached at that path, through
\* its own port.
InboundReachable ==
  \A r \in rows :
    ~PathCollides(r.path) => Lookup(r.path) = {r.path} /\ routes[r.path] = r.lport

\* "whether a custom inbound path would shadow a reserved panel prefix or one
\* of the five builtin 443 paths": no route captures a built-in path.  Holds
\* while built-in paths have one segment; violated for deeper ones, because a
\* shorter custom path captures its whole subtree.
BuiltinReachable == \A b \in builtin : Lookup(b) = {}
=============================================================================
