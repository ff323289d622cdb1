-------------------------------- MODULE UseLive --------------------------------
(***************************************************************************)
(* The dashboard's live feed (web/src/lib/panel/useLive.ts): one mounted   *)
(* effect with its socket, its two timers, its poller and the requests the *)
(* poller has under way.  Every handler is one step of the browser's event *)
(* loop.                                                                   *)
(*                                                                         *)
(*  - Of the state only the badge is kept: totals come with it.            *)
(*  - After close() a socket delivers nothing but its close event, and     *)
(*    unmounting takes even that away.                                     *)
(*  - MaxInFlight bounds the polls under way at once; failures count to 2. *)
(***************************************************************************)
EXTENDS Naturals

CONSTANT MaxInFlight \* bound

VARIABLES
  alive,     \* the effect is mounted
  ws,        \* the socket's readyState
  failTimer, \* 4 s after the socket was made
  retry,     \* tryWS is due: on mounting, or 2.5 s after the socket closed
  poll,      \* the interval runs
  inFlight,  \* polls that were not answered yet
  fails,     \* wsFail, up to 2
  mode       \* the badge

vars == <<alive, ws, failTimer, retry, poll, inFlight, fails, mode>>

TypeOK ==
  /\ alive \in BOOLEAN /\ failTimer \in BOOLEAN /\ retry \in BOOLEAN /\ poll \in BOOLEAN
  /\ ws \in {"none", "connecting", "open", "closing", "closed"}
  /\ poll => alive
  /\ inFlight \in 0..MaxInFlight
  /\ fails \in 0..2
  /\ mode \in {"init", "ws", "poll"}

\* The socket could not be made: the poller starts, which asks at once.
StartPolling ==
  IF poll \/ ~alive
  THEN UNCHANGED <<poll, inFlight, mode>>
  ELSE /\ poll' = TRUE
       /\ inFlight < MaxInFlight
       /\ inFlight' = inFlight + 1
       /\ mode' = "poll"

\* The effect is about to call tryWS for the first time.
Init ==
  /\ alive = TRUE /\ ws = "none" /\ failTimer = FALSE /\ retry = TRUE
  /\ poll = FALSE /\ inFlight = 0 /\ fails = 0 /\ mode = "init"

\* Mutant of StillConnecting: readyState === CLOSED.
StillConnectingClosed == ws = "closed"

\* ws.readyState !== OPEN
StillConnecting == ws # "open"

\* 4 s are over.
FailTimer ==
  /\ failTimer
  /\ failTimer' = FALSE
  /\ IF alive /\ StillConnecting
     THEN ws' = "closing" /\ StartPolling
     ELSE UNCHANGED <<ws, poll, inFlight, mode>>
  /\ UNCHANGED <<alive, retry, fails>>

\* Mutant of PollAfterOpen: the fallback poller runs on.
PollAfterOpenKept == poll

\* "exactly ONE transport at a time"
PollAfterOpen == FALSE

OnOpen ==
  /\ alive /\ ws = "connecting"
  /\ ws' = "open"
  /\ fails' = 0
  /\ failTimer' = FALSE
  /\ poll' = PollAfterOpen
  /\ mode' = "ws"
  /\ UNCHANGED <<alive, retry, inFlight>>

OnMessage ==
  /\ alive /\ ws = "open"
  /\ mode' = "ws"
  /\ UNCHANGED <<alive, ws, failTimer, retry, poll, inFlight, fails>>

GivesUp(n) == n >= 2

\* onerror, if any, and onclose: the second failure in a row starts the poller for
\* good, the first one the timer of another try.
OnClose ==
  /\ alive /\ ws \in {"connecting", "open", "closing"}
  /\ ws' = "closed"
  /\ failTimer' = FALSE
  /\ fails' = IF fails = 2 THEN 2 ELSE fails + 1
  /\ IF GivesUp(fails + 1)
     THEN StartPolling /\ UNCHANGED retry
     ELSE retry' = TRUE /\ UNCHANGED <<poll, inFlight, mode>>
  /\ UNCHANGED alive

\* if (!alive) return
Mounted == alive

\* tryWS
Retry ==
  /\ retry
  /\ retry' = FALSE
  /\ \/ /\ Mounted
        /\ ws' = "connecting" /\ failTimer' = TRUE
        /\ UNCHANGED <<poll, inFlight, mode>>
     \/ /\ Mounted
        /\ StartPolling
        /\ UNCHANGED <<ws, failTimer>>
     \/ ~Mounted /\ UNCHANGED <<ws, failTimer, poll, inFlight, mode>>
  /\ UNCHANGED <<alive, fails>>

PollTick ==
  /\ poll
  /\ inFlight < MaxInFlight
  /\ inFlight' = inFlight + 1
  /\ UNCHANGED <<alive, ws, failTimer, retry, poll, fails, mode>>

\* A poll is answered, or refused or lost.
PollAnswered ==
  /\ inFlight > 0
  /\ inFlight' = inFlight - 1
  /\ mode' \in {mode, "poll"}
  /\ UNCHANGED <<alive, ws, failTimer, retry, poll, fails>>

PollAfterUnmount == FALSE

Unmount ==
  /\ alive
  /\ alive' = FALSE
  /\ poll' = PollAfterUnmount
  /\ ws' = IF ws = "none" THEN "none" ELSE "closed"
  /\ UNCHANGED <<failTimer, retry, inFlight, fails, mode>>

Next ==
  \/ FailTimer \/ OnOpen \/ OnMessage \/ OnClose \/ Retry
  \/ PollTick \/ PollAnswered \/ Unmount

Spec == Init /\ [][Next]_vars

-----------------------------------------------------------------------------

\* "exactly ONE transport at a time": the poller never runs beside an open socket,
\* whatever timers and events come in whatever order (onopen, failTimer).
OneTransport == ~(poll /\ ws = "open")

\* While the dashboard is shown without a feed, something is still to come that
\* gives it one: whatever order timers, socket events and failures come in, it is
\* never left waiting for nothing (tryWS, failTimer, onclose, startPolling).
NeverStuck ==
  alive /\ ~poll /\ ws # "open" =>
    retry \/ ws = "closing" \/ (ws = "connecting" /\ failTimer)

\* Once unmounted neither the poller nor a socket is there or comes back, though
\* timers of the effect may still fire (the effect's cleanup).
UnmountedIsQuiet == ~alive => ~poll /\ ws \in {"none", "closed"}
=============================================================================
