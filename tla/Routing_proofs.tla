--------------------------- MODULE Routing_proofs ---------------------------
(***************************************************************************)
(* Proofs about Routing.  The invariant behind all of them is that the     *)
(* registry was built from the rows and the configuration as they are.     *)
(***************************************************************************)
EXTENDS Routing, FiniteSetTheorems, WellFoundedInduction, TLAPS

USE DEF Strings

\* Lower-casing keeps the length of a path and where its slashes are.
LEMMA LowerFacts ==
  ASSUME NEW p \in Strings
  PROVE  /\ ToLower(p) \in Strings
         /\ Len(ToLower(p)) = Len(p)
         /\ \A i \in 1..Len(p) : ToLower(p)[i] = Lower[p[i]]
  BY CharAssumption DEF ToLower

\* IsPrefix, character by character.
LEMMA PrefixChars ==
  ASSUME NEW s \in Strings, NEW t \in Strings
  PROVE  IsPrefix(s, t) <=> Len(s) <= Len(t) /\ \A i \in 1..Len(s) : s[i] = t[i]
<1>1. SubSeq(s, 1, Len(s)) = s
  OBVIOUS
<1>2. ASSUME Len(s) <= Len(t)
      PROVE  /\ SubSeq(t, 1, Len(s)) \in Strings
             /\ Len(SubSeq(t, 1, Len(s))) = Len(s)
             /\ \A i \in 1..Len(s) : SubSeq(t, 1, Len(s))[i] = t[i]
  BY <1>2
<1>3. ASSUME Len(s) <= Len(t), \A i \in 1..Len(s) : s[i] = t[i]
      PROVE  s = SubSeq(t, 1, Len(s))
  BY <1>2, <1>3
<1>. QED
  BY <1>1, <1>2, <1>3 DEF IsPrefix

\* A path matches a request that starts with it at a segment boundary.
LEMMA MatchChars ==
  ASSUME NEW p \in Strings, NEW q \in Strings, Matches(p, q)
  PROVE  /\ Len(p) <= Len(q)
         /\ \A i \in 1..Len(p) : p[i] = q[i]
         /\ p = q \/ (Len(p) < Len(q) /\ q[Len(p) + 1] = Slash)
<1>1. CASE q = p
  BY <1>1
<1>2. CASE IsPrefix(Append(p, Slash), q)
  <2>1. /\ Append(p, Slash) \in Strings
        /\ Len(Append(p, Slash)) = Len(p) + 1
        /\ Append(p, Slash)[Len(p) + 1] = Slash
        /\ \A i \in 1..Len(p) : Append(p, Slash)[i] = p[i]
    BY CharAssumption
  <2>2. /\ Len(Append(p, Slash)) <= Len(q)
        /\ \A i \in 1..Len(Append(p, Slash)) : Append(p, Slash)[i] = q[i]
    BY <1>2, <2>1, PrefixChars
  <2>. QED
    BY <2>1, <2>2
<1>. QED
  BY <1>1, <1>2 DEF Matches

-----------------------------------------------------------------------------
(* Types *)

\* A non-empty set of naturals has a minimum.
LEMMA MinOfNaturals ==
  ASSUME NEW S, S \subseteq Nat, S # {}
  PROVE  Min(S) \in S
<1>. DEFINE Less == {ss \in Nat \X Nat : ss[1] < ss[2]}
<1>1. OpToRel(<, Nat) = Less
  BY DEF OpToRel
<1>2. IsWellFoundedOn(Less, Nat)
  BY <1>1, NatLessThanWellFounded
<1>3. PICK n \in S : \A k \in S : ~ (<<k, n>> \in Less)
  <2>. HIDE DEF Less
  <2>. QED
    BY <1>2, WFMin
<1>4. ASSUME NEW k \in S
      PROVE  n <= k
  <2>1. k \in Nat /\ n \in Nat /\ ~ (<<k, n>> \in Less)
    BY <1>3
  <2>2. ~ (k < n)
    BY <2>1
  <2>. QED
    BY <2>1, <2>2
<1>. QED
  BY <1>4 DEF Min

\* There is a free port while the limit is not reached.
LEMMA FreePortExists ==
  ASSUME RoutingTypeOK, IsFiniteSet(rows)
  PROVE  FreePort \in Nat /\ \A r \in rows : r.lport # FreePort
<1>. DEFINE Free == {n \in 1..(MaxRows + 1) : \A r \in rows : r.lport # n}
<1>1. Free # {}
  <2>. SUFFICES ASSUME Free = {}
                PROVE  FALSE
    OBVIOUS
  <2>. DEFINE ports == 1..(MaxRows + 1)
              owner == [n \in ports |-> CHOOSE r \in rows : r.lport = n]
  <2>1. \A n \in ports : owner[n] \in rows /\ owner[n].lport = n
    OBVIOUS
  <2>2. owner \in [ports -> rows]
    BY <2>1
  <2>3. IsFiniteSet(ports) /\ Cardinality(ports) = MaxRows + 1
    BY FS_Interval, PathAssumption
  <2>4. Cardinality(rows) < Cardinality(ports)
    BY <2>3, FS_CardinalityType, PathAssumption DEF RoutingTypeOK
  <2>. HIDE DEF owner, ports
  <2>5. \E x, y \in ports : x # y /\ owner[x] = owner[y]
    BY <2>2, <2>3, <2>4, FS_PigeonHole
  <2>. QED
    BY <2>1, <2>5
<1>2. Free \subseteq Nat
  OBVIOUS
<1>3. Min(Free) \in Free
  BY <1>1, <1>2, MinOfNaturals
<1>. QED
  BY <1>3 DEF FreePort

\* A registry maps paths of rows to ports of rows.
LEMMA RegistryType ==
  ASSUME NEW rs, rs \subseteq TableRows, NEW f \in Registries(rs)
  PROVE  /\ DOMAIN f \subseteq Paths
         /\ \A p \in DOMAIN f : f[p] \in Nat /\ [path |-> p, lport |-> f[p]] \in rs
  BY DEF Registries, TableRows

\* The rows stay within the limit and the registry within the paths.
Bounded == RoutingTypeOK /\ IsFiniteSet(rows)

\* Bounded holds throughout.
LEMMA BoundedAlways == RoutingSpec => []Bounded
<1>1. RoutingInit => Bounded
  <2>. SUFFICES ASSUME RoutingInit
                PROVE  Bounded
    OBVIOUS
  <2>1. rows \subseteq TableRows /\ IsFiniteSet(rows) /\ Cardinality(rows) <= MaxRows
    <3>1. CASE rows = {}
      BY <3>1, FS_EmptySet, PathAssumption
    <3>2. ASSUME NEW p \in Legacy, rows = {[path |-> p, lport |-> 1]}
          PROVE  rows \subseteq TableRows /\ IsFiniteSet(rows) /\ Cardinality(rows) <= MaxRows
      <4>1. IsFiniteSet(rows) /\ Cardinality(rows) = 1
        BY <3>2, FS_Singleton
      <4>. QED
        BY <3>2, <4>1, PathAssumption DEF TableRows
    <3>. QED
      BY <3>1, <3>2 DEF RoutingInit
  <2>. QED
    BY <2>1, RegistryType DEF RoutingInit, Bounded, RoutingTypeOK
<1>2. Bounded /\ [RoutingNext]_routingVars => Bounded'
  <2>. SUFFICES ASSUME Bounded, [RoutingNext]_routingVars
                PROVE  Bounded'
    OBVIOUS
  <2>1. ASSUME NEW p \in Paths, CreateInbound(p)
        PROVE  Bounded'
    <3>1. rows' \subseteq TableRows
      BY <2>1, FreePortExists DEF CreateInbound, Bounded, RoutingTypeOK, TableRows
    <3>2. IsFiniteSet(rows') /\ Cardinality(rows') <= MaxRows
      <4>. DEFINE row == [path |-> p, lport |-> FreePort]
      <4>1. rows' = rows \cup {row} /\ Cardinality(rows) < MaxRows
        BY <2>1 DEF CreateInbound, BelowLimit
      <4>. HIDE DEF row
      <4>2. Cardinality(rows) \in Nat
        BY FS_CardinalityType DEF Bounded
      <4>3. /\ IsFiniteSet(rows \cup {row})
            /\ Cardinality(rows \cup {row}) \in {Cardinality(rows), Cardinality(rows) + 1}
        BY FS_AddElement DEF Bounded
      <4>. QED
        BY <4>1, <4>2, <4>3, PathAssumption
    <3>. QED
      BY <2>1, <3>1, <3>2, RegistryType DEF CreateInbound, Bounded, RoutingTypeOK
  <2>2. ASSUME NEW r \in rows, DeleteInbound(r)
        PROVE  Bounded'
    <3>1. rows' \subseteq TableRows
      BY <2>2 DEF DeleteInbound, Bounded, RoutingTypeOK
    <3>2. IsFiniteSet(rows') /\ Cardinality(rows') <= MaxRows
      <4>1. rows' \subseteq rows
        BY <2>2 DEF DeleteInbound
      <4>2. IsFiniteSet(rows') /\ Cardinality(rows') <= Cardinality(rows)
        BY <4>1, FS_Subset DEF Bounded
      <4>3. Cardinality(rows) \in Nat /\ Cardinality(rows') \in Nat
        BY <4>2, FS_CardinalityType DEF Bounded
      <4>. QED
        BY <4>2, <4>3, PathAssumption DEF Bounded, RoutingTypeOK
    <3>. QED
      BY <2>2, <3>1, <3>2, RegistryType DEF DeleteInbound, Bounded, RoutingTypeOK
  <2>3. ASSUME Reboot
        PROVE  Bounded'
    <3>1. routes' \in [{r.path : r \in {s \in rows : ~PathCollides(s.path)'}} -> {r.lport : r \in rows}]
      BY <2>3 DEF Reboot, Registries
    <3>. QED
      BY <2>3, <3>1 DEF Reboot, Bounded, RoutingTypeOK, TableRows
  <2>4. CASE UNCHANGED routingVars
    BY <2>4 DEF Bounded, RoutingTypeOK, routingVars
  <2>. QED
    BY <2>1, <2>2, <2>3, <2>4 DEF RoutingNext
<1>. QED
  BY <1>1, <1>2, PTL DEF RoutingSpec

\* However many inbounds are created and deleted, their number stays within the
\* limit and the registry maps paths of inbounds to their ports (proxy.go:89,
\* handlers.go:346).
THEOREM TypeCorrect == RoutingSpec => []RoutingTypeOK
<1>1. Bounded => RoutingTypeOK
  BY DEF Bounded
<1>. QED
  BY <1>1, BoundedAlways, PTL

-----------------------------------------------------------------------------
(* The registry agrees with the table *)

\* No two rows have one path, and the registry is one that SyncCustomRoutes
\* builds from the table as it is.
RoutesInv ==
  /\ \A r, s \in rows : r.path = s.path => r = s
  /\ routes \in Registries(rows)

\* RoutesInv holds throughout.
LEMMA RoutesAlways == RoutingSpec => []RoutesInv
<1>1. RoutingInit => RoutesInv
  BY DEF RoutingInit, RoutesInv
<1>2. RoutesInv /\ [RoutingNext]_routingVars => RoutesInv'
  <2>. SUFFICES ASSUME RoutesInv, [RoutingNext]_routingVars
                PROVE  RoutesInv'
    OBVIOUS
  <2>1. ASSUME NEW p \in Paths, CreateInbound(p)
        PROVE  RoutesInv'
    <3>1. (routes \in Registries(rows))'
      BY <2>1 DEF CreateInbound, Registries, PathCollides, StartsReserved, IsBuiltin
    <3>2. \A r \in rows : r.path # p
      BY <2>1 DEF CreateInbound, PathFree
    <3>3. (\A r, s \in rows : r.path = s.path => r = s)'
      BY <2>1, <3>2 DEF CreateInbound, RoutesInv
    <3>. QED
      BY <3>1, <3>3 DEF RoutesInv
  <2>2. ASSUME NEW r \in rows, DeleteInbound(r)
        PROVE  RoutesInv'
    BY <2>2 DEF DeleteInbound, RoutesInv, Registries, PathCollides, StartsReserved, IsBuiltin
  <2>3. ASSUME Reboot
        PROVE  RoutesInv'
    BY <2>3 DEF Reboot, RoutesInv
  <2>4. CASE UNCHANGED routingVars
    BY <2>4 DEF RoutesInv, Registries, PathCollides, StartsReserved, IsBuiltin, routingVars
  <2>. QED
    BY <2>1, <2>2, <2>3, <2>4 DEF RoutingNext
<1>. QED
  BY <1>1, <1>2, PTL DEF RoutingSpec

\* Every routed path is the path of a row and does not collide.
LEMMA RoutedPaths ==
  ASSUME RoutingTypeOK, RoutesInv, NEW p \in DOMAIN routes
  PROVE  p \in Paths /\ p \in Strings /\ Len(p) >= 3 /\ ~PathCollides(p)
  BY PathAssumption DEF RoutingTypeOK, RoutesInv, Registries

-----------------------------------------------------------------------------
(* Where a request goes *)

\* lookupCustom never diverts a request for the API, the subscriptions or the
\* panel, whatever rows the database holds (proxy.go:132-136, 177-183): a route
\* that is as long as the reserved word would start with it, and a shorter one
\* would need a slash inside the word.
THEOREM PanelAlwaysReachable == RoutingSpec => []PanelReachable
<1>1. ASSUME RoutingTypeOK, RoutesInv
      PROVE  PanelReachable
  <2>. SUFFICES ASSUME NEW q \in Requests, NEW r \in Reserved, Matches(r, q),
                       NEW p \in Lookup(q)
                PROVE  FALSE
    BY DEF PanelReachable
  <2>1. /\ p \in DOMAIN routes /\ Matches(p, q)
        /\ p \in Strings /\ Len(p) >= 3 /\ ~StartsReserved(p)
    BY <1>1, RoutedPaths DEF Lookup, PathCollides
  <2>2. /\ r \in Strings /\ Len(r) >= 2 /\ ToLower(r) = r
        /\ \A i \in 1..Len(r) : r[i] = Slash <=> i = 1
    BY ReservedAssumption
  <2>3. q \in Strings
    BY PathAssumption
  <2>4. Len(r) <= Len(q) /\ \A i \in 1..Len(r) : r[i] = q[i]
    BY <2>2, <2>3, MatchChars
  <2>5. /\ \A i \in 1..Len(p) : p[i] = q[i]
        /\ p = q \/ (Len(p) < Len(q) /\ q[Len(p) + 1] = Slash)
    BY <2>1, <2>3, MatchChars
  <2>6. CASE Len(r) <= Len(p)
    <3>1. \A i \in 1..Len(r) : p[i] = r[i]
      BY <2>1, <2>2, <2>3, <2>4, <2>5, <2>6
    <3>2. \A i \in 1..Len(r) : ToLower(p)[i] = ToLower(r)[i]
      <4>1. \A i \in 1..Len(r) : ToLower(r)[i] = Lower[r[i]]
        BY <2>2, LowerFacts
      <4>2. \A i \in 1..Len(p) : ToLower(p)[i] = Lower[p[i]]
        BY <2>1, LowerFacts
      <4>. QED
        BY <2>1, <2>2, <2>6, <3>1, <4>1, <4>2
    <3>3. ToLower(p) \in Strings /\ Len(ToLower(p)) = Len(p)
      BY <2>1, LowerFacts
    <3>4. IsPrefix(r, ToLower(p))
      BY <2>2, <2>6, <3>2, <3>3, PrefixChars
    <3>. QED
      BY <2>1, <3>4 DEF StartsReserved
  <2>7. CASE Len(p) < Len(r)
    <3>1. q[Len(p) + 1] = Slash
      BY <2>1, <2>2, <2>3, <2>4, <2>5, <2>7
    <3>2. Len(p) + 1 \in 1..Len(r) /\ Len(p) + 1 # 1
      BY <2>1, <2>2, <2>7
    <3>. QED
      BY <2>2, <2>4, <3>1, <3>2
  <2>. QED
    BY <2>1, <2>2, <2>6, <2>7
<1>. QED
  BY <1>1, TypeCorrect, RoutesAlways, PTL

\* Two strings that agree on their length and on every character are equal.
LEMMA SameString ==
  ASSUME NEW s \in Strings, NEW t \in Strings, Len(s) = Len(t),
         \A i \in 1..Len(s) : s[i] = t[i]
  PROVE  s = t
  OBVIOUS

\* Of the routes that match a request only one is the longest, so the random
\* order in which Go scans the map does not matter (proxy.go:175-184).
THEOREM LookupAlwaysDeterministic == RoutingSpec => []LookupDeterministic
<1>1. ASSUME RoutingTypeOK, RoutesInv
      PROVE  LookupDeterministic
  <2>. SUFFICES ASSUME NEW q \in Requests, NEW p \in Lookup(q), NEW o \in Lookup(q)
                PROVE  p = o
    BY DEF LookupDeterministic
  <2>1. /\ p \in DOMAIN routes /\ o \in DOMAIN routes
        /\ Matches(p, q) /\ Matches(o, q)
        /\ Len(p) <= Len(o) /\ Len(o) <= Len(p)
    BY DEF Lookup
  <2>2. p \in Strings /\ o \in Strings /\ q \in Strings
    BY <1>1, <2>1, RoutedPaths, PathAssumption
  <2>3. Len(p) = Len(o)
    BY <2>1, <2>2
  <2>4. \A i \in 1..Len(p) : p[i] = o[i]
    BY <2>1, <2>2, <2>3, MatchChars
  <2>. QED
    BY <2>2, <2>3, <2>4, SameString
<1>. QED
  BY <1>1, TypeCorrect, RoutesAlways, PTL

\* Every inbound that does not collide answers at its own path through its own
\* port (proxy.go:89-128, 168-186).
THEOREM InboundAlwaysReachable == RoutingSpec => []InboundReachable
<1>1. ASSUME RoutingTypeOK, RoutesInv
      PROVE  InboundReachable
  <2>. SUFFICES ASSUME NEW r \in rows, ~PathCollides(r.path)
                PROVE  Lookup(r.path) = {r.path} /\ routes[r.path] = r.lport
    BY DEF InboundReachable
  <2>1. r.path \in DOMAIN routes /\ [path |-> r.path, lport |-> routes[r.path]] \in rows
    BY <1>1 DEF RoutesInv, Registries
  <2>2. routes[r.path] = r.lport
    BY <1>1, <2>1 DEF RoutesInv
  <2>3. r.path \in Strings
    BY <1>1, <2>1, RoutedPaths
  <2>4. ASSUME NEW p \in DOMAIN routes, Matches(p, r.path)
        PROVE  Len(p) <= Len(r.path) /\ (Len(r.path) <= Len(p) => p = r.path)
    <3>1. p \in Strings
      BY <1>1, <2>4, RoutedPaths
    <3>2. /\ Len(p) <= Len(r.path)
          /\ p = r.path \/ Len(p) < Len(r.path)
      BY <2>3, <2>4, <3>1, MatchChars
    <3>. QED
      BY <2>3, <3>1, <3>2
  <2>5. Matches(r.path, r.path)
    BY DEF Matches
  <2>6. r.path \in Lookup(r.path)
    BY <2>1, <2>4, <2>5 DEF Lookup
  <2>7. \A p \in Lookup(r.path) : p = r.path
    BY <2>1, <2>4, <2>5 DEF Lookup
  <2>. QED
    BY <2>2, <2>6, <2>7
<1>. QED
  BY <1>1, TypeCorrect, RoutesAlways, PTL

\* The built-in paths have one segment, as the defaults have it.
OneSegment ==
  \A B \in Builtins : \A b \in B : \A i \in 1..Len(b) : b[i] = Slash => i = 1

\* No route captures a built-in path as long as every configured one has a
\* single segment: it says nothing of those of two, of which a custom path may be
\* the first segment and capture them (proxy.go:137-143).
THEOREM BuiltinAlwaysReachable ==
  ASSUME OneSegment
  PROVE  RoutingSpec => []BuiltinReachable
<1>1. ASSUME RoutingTypeOK, RoutesInv
      PROVE  BuiltinReachable
  <2>. SUFFICES ASSUME NEW b \in builtin, NEW p \in Lookup(b)
                PROVE  FALSE
    BY DEF BuiltinReachable
  <2>1. /\ p \in DOMAIN routes /\ Matches(p, b)
        /\ p \in Strings /\ Len(p) >= 3 /\ ~IsBuiltin(p)
    BY <1>1, RoutedPaths DEF Lookup, PathCollides
  <2>2. b \in Strings /\ \A i \in 1..Len(b) : b[i] = Slash => i = 1
    BY <1>1, PathAssumption DEF RoutingTypeOK, OneSegment
  <2>3. p # b
    BY <2>1 DEF IsBuiltin
  <2>4. Len(p) < Len(b) /\ b[Len(p) + 1] = Slash
    BY <2>1, <2>2, <2>3, MatchChars
  <2>5. Len(p) + 1 \in 1..Len(b) /\ Len(p) + 1 # 1
    BY <2>1, <2>2, <2>4
  <2>. QED
    BY <2>2, <2>4, <2>5
<1>. QED
  BY <1>1, TypeCorrect, RoutesAlways, PTL
=============================================================================
