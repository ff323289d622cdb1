-------------------------------- MODULE MCPanel --------------------------------
(***************************************************************************)
(* Small instances of seven parts that keep their state to themselves: the *)
(* login limiter, the sessions, the first-run setup, the settings and the  *)
(* clients of api/server.go, the live hub, and the dashboard's feed of the *)
(* web UI.  They share no variable, so their interleavings add nothing:    *)
(* one of them moves while the others stay where they began.               *)
(***************************************************************************)
EXTENDS Sessions, FiniteSets, TLC

CONSTANTS
  Keys, Max, Window, Large, MaxTime, MaxLogins,            \* LoginLimiter
  Applicants, Names,                                       \* Setup
  Handlers, Toggles, Texts, Values, Blank, Invalid, Other, \* Settings
  Ids, Builtins, Tags, Forms, Nil, MaxQuota, MaxInt, MaxDays, MaxUsage, \* Clients
  Conns, Casters,                                          \* Hub
  MaxInFlight                                              \* UseLive

ASSUME LimiterAssumption ==
  /\ IsFiniteSet(Keys)
  /\ Max \in Nat \ {0} /\ Window \in Nat \ {0} /\ Large \in Nat
  /\ MaxTime \in Nat /\ MaxLogins \in Nat

VARIABLES
  part,
  time, logins, hits, open, since,                         \* LoginLimiter
  admins, setupPc, name, met,                              \* Setup
  panel, putPc, body, read, moved,                         \* Settings
  rows, usage, inbounds, jobs, day, asked,                 \* Clients
  serve, ping, conns, unclosed, gone, cast, todo, cur, to, got, \* Hub
  alive, ws, failTimer, retry, poll, inFlight, fails, mode \* UseLive

Body(quota, days, list) == [quota |-> quota, days |-> days, list |-> list]

Spelled(tag, padded) == [tag |-> tag, padded |-> padded]

\* A quota, a number of days, both, or a list: in and out of bounds, too small for a
\* byte, too large for an int64.
FormsOf ==
  {Body(q, Nil, Nil) : q \in {-1, 0, 1, 3, 6}}
  \cup {Body(Nil, d, Nil) : d \in {0, 1, 3}}
  \cup {Body(4, 1, Nil)}
  \cup {Body(Nil, Nil, l) :
          l \in {{}} \cup {{Spelled(t, p)} : t \in Builtins \cup Tags, p \in BOOLEAN}}

L == INSTANCE LoginLimiter WITH clock <- time, MaxClock <- MaxTime
W == INSTANCE LoginWindow WITH clock <- time, MaxClock <- MaxTime
S == INSTANCE Setup WITH Requests <- Applicants, pc <- setupPc
P == INSTANCE Settings WITH pc <- putPc
C == INSTANCE Clients WITH req <- jobs, Bodies <- Forms, clock <- day, MaxClock <- MaxDays
H == INSTANCE Hub WITH open <- unclosed
U == INSTANCE UseLive

limiterVars == <<time, logins, hits, open, since>>
setupVars == <<admins, setupPc, name, met>>
settingsVars == <<panel, putPc, body, read, moved>>
clientsVars == <<rows, usage, inbounds, jobs, day, asked>>
hubVars == <<serve, ping, conns, unclosed, gone, cast, todo, cur, to, got>>
feedVars == <<alive, ws, failTimer, retry, poll, inFlight, fails, mode>>
panelVars == <<part, vars, limiterVars, setupVars, settingsVars, clientsVars, hubVars, feedVars>>

\* Where a Broadcast that has not begun is, is never read: one value is enough.
PanelInit ==
  /\ part = "none"
  /\ Init /\ L!Init /\ S!Init /\ P!Init /\ C!Init /\ H!Init /\ U!Init
  /\ \E c \in Conns : cur = [b \in Casters |-> c]

\* The part that moved first is the one that moves.
Only(p) == part \in {"none", p} /\ part' = p

\* The sessions are looked at with and without Redis, the others once.
Beside(p) == configured /\ Only(p)

Limiter ==
  /\ Beside("limiter")
  /\ L!Next
  /\ UNCHANGED <<vars, setupVars, settingsVars, clientsVars, hubVars, feedVars>>

Admins ==
  /\ Only("admins")
  /\ Next
  /\ UNCHANGED <<limiterVars, setupVars, settingsVars, clientsVars, hubVars, feedVars>>

Setup ==
  /\ Beside("setup")
  /\ S!Next
  /\ UNCHANGED <<vars, limiterVars, settingsVars, clientsVars, hubVars, feedVars>>

Settings ==
  /\ Beside("settings")
  /\ P!Next
  /\ UNCHANGED <<vars, limiterVars, setupVars, clientsVars, hubVars, feedVars>>

Clients ==
  /\ Beside("clients")
  /\ C!Next
  /\ UNCHANGED <<vars, limiterVars, setupVars, settingsVars, hubVars, feedVars>>

Sockets ==
  /\ Beside("sockets")
  /\ H!Next
  /\ UNCHANGED <<vars, limiterVars, setupVars, settingsVars, clientsVars, feedVars>>

Feed ==
  /\ Beside("feed")
  /\ U!Next
  /\ UNCHANGED <<vars, limiterVars, setupVars, settingsVars, clientsVars, hubVars>>

Step == Limiter \/ Admins \/ Setup \/ Settings \/ Clients \/ Sockets \/ Feed

PanelSpec == PanelInit /\ [][Step]_panelVars

Symmetric == Permutations(Keys) \cup Permutations(Requests) \cup Permutations(Conns)

-----------------------------------------------------------------------------

\* LoginLimiter implements LoginWindow: whatever is pruned, swept and reset, its
\* logins are those of the sliding window that forgets nothing, and a login is let
\* through or refused as that one would have it.
IdealWindow == W!Spec /\ [](\A k \in Keys : L!HasRoom(L!Keep(k)) <=> W!Vacant(k))

\* See LoginLimiter: what its comment calls it.
FixedWindow == L!FixedWindow

\* See LoginLimiter: what a sweep of the map is said to leave.
OnlyRecentWhenLarge == L!OnlyRecentWhenLarge

\* See Setup.
AnswersTrue == S!AnswersTrue

\* See Setup: a second admin comes from two INSERTs at the same time only.
SecondAdminOverlaps == S!SecondAdminOverlaps

\* See Settings: a setting that is not named changes only behind another request.
ResetsOnlyBehind == P!ResetsOnlyBehind

\* See Clients: the limits that were asked for are those enforced and shown.
LimitsHold == C!LimitsHold

\* See Clients: a plain entry of a stored list grants something.
PlainEntriesGrant == C!PlainEntriesGrant

\* See Clients: what the check of a list is said to rule out.
ListsGrant == C!ListsGrant

\* See Hub: one writer per socket.
OneWriter == H!OneWriter

\* See Hub: when a Broadcast returns, each of its sockets has the frame or is off.
EveryAdmin == H!EveryAdmin

\* See UseLive: the poller never runs beside an open socket.
OneTransport == U!OneTransport

\* See UseLive: a dashboard without a feed is about to get one.
NeverStuck == U!NeverStuck
=============================================================================
