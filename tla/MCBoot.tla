--------------------------------- MODULE MCBoot ---------------------------------
(***************************************************************************)
(* Small instances of four parts that keep their state to themselves: the  *)
(* two halves of a start, which are the database (Boot) and the binary     *)
(* with its engine (Provision); the custom routes, which a start builds    *)
(* again (Routing); and the live hub (Hub).  One of them moves while the   *)
(* others stay where they began; nothing fair is enabled there, so that    *)
(* the fairness of all asks of each what it asks of it alone.              *)
(***************************************************************************)
EXTENDS Boot, Routing

CONSTANTS
  Minute,        \* Provision
  Conns, Casters \* Hub

VARIABLES
  part,
  binPc, bin, zip, since, running, broken, unsure, \* Provision
  serve, ping, conns, open, gone, cast, left, cur, to, got \* Hub

B == INSTANCE Provision WITH pc <- binPc, faults <- broken
H == INSTANCE Hub WITH todo <- left

binVars == <<binPc, bin, zip, since, running, broken, unsure>>
hubVars == <<serve, ping, conns, open, gone, cast, left, cur, to, got>>
allVars == <<part, vars, binVars, routingVars, hubVars>>

\* The old container knows the first migrations, the new one all of them.
NewestOf == [i \in Instances |-> IF i = "old" THEN 2 ELSE 10]

-----------------------------------------------------------------------------
(* Paths of up to three words over a few characters that can come close to "/api" *)

MCChar == {"/", "a", "p", "i", "I", "x"}
MCLower == [c \in MCChar |-> IF c = "I" THEN "i" ELSE c]
MCReserved == {<<"/", "a", "p", "i">>}

AP == <<"/", "a", "p">>
API == <<"/", "a", "p", "i">>
APIUpper == <<"/", "a", "p", "I">>
APIX == <<"/", "a", "p", "i", "x">>
XX == <<"/", "x", "x">>
XI == <<"/", "x", "i">>
XIUpper == <<"/", "x", "I">>
XXslashA == <<"/", "x", "x", "/", "a">>
XXslashAP == <<"/", "x", "x", "/", "a", "p">>

MCPaths == {AP, API, APIUpper, APIX, XX, XI, XIUpper, XXslashA, XXslashAP}

Below(p) == p \o <<"/", "x">>

MCRequests == MCPaths \cup {Below(p) : p \in MCPaths}

\* one segment, as the defaults have it
MCFlat == {{XI}, {XX}}

-----------------------------------------------------------------------------

\* Two parts may begin in several ways: each is looked at in all of them, beside one
\* beginning of the other.
NoBinary == bin = "none"
NoRows == rows = {} /\ builtin = {XI}

AllInit ==
  /\ part = "none"
  /\ Init /\ B!Init /\ RoutingInit /\ H!Init
  /\ NoBinary \/ NoRows

\* The part that moved first is the one that moves.
Only(p) == part \in {"none", p} /\ part' = p

Database ==
  /\ NoBinary /\ NoRows /\ Only("database")
  /\ Next
  /\ UNCHANGED <<binVars, routingVars, hubVars>>

Binary ==
  /\ NoRows /\ Only("binary")
  /\ B!Next
  /\ UNCHANGED <<vars, routingVars, hubVars>>

Routes ==
  /\ NoBinary /\ Only("routes")
  /\ RoutingNext
  /\ UNCHANGED <<vars, binVars, hubVars>>

Sockets ==
  /\ NoBinary /\ NoRows /\ Only("sockets")
  /\ H!Next
  /\ UNCHANGED <<vars, binVars, routingVars>>

AllNext == Database \/ Binary \/ Routes \/ Sockets

AllSpec ==
  AllInit /\ [][AllNext]_allVars /\ Fairness /\ B!Fairness /\ H!Fairness

-----------------------------------------------------------------------------

\* See Provision: the file the next boot accepts is complete.
BinaryTrusted == B!BinaryTrusted

\* See Provision: the engine comes up for good.
EngineComesUp == B!EngineComesUp

\* See Hub: a socket that broke leaves nothing behind.
NothingLeft == H!NothingLeft

\* See Hub: a Broadcast returns.
CastReturns == H!CastReturns
=============================================================================
