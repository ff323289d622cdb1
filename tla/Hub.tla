---------------------------------- MODULE Hub ----------------------------------
(***************************************************************************)
(* The live hub (api/ws.go): every admin's socket has the goroutine of its *)
(* request (Serve) and a pinger; Broadcast is called by the collector's    *)
(* ticker and by the PersistUsage hook, at the same time if need be.       *)
(*                                                                         *)
(*  - A write takes its time, holds the socket's mutex and ends within its *)
(*    deadline: with the frame handed over, or with an error.  A socket    *)
(*    that was closed gives errors only, one whose peer is gone gives an   *)
(*    error at the latest when the read deadline is over.                  *)
(*  - Sections of the hub's own mutex and closing a socket are one step.   *)
(*  - What a frame says is left out; a broadcast is its set of receivers.  *)
(***************************************************************************)
CONSTANTS
  Conns,   \* sockets, each used once
  Casters  \* goroutines that call Broadcast, no name of a socket

VARIABLES
  serve, \* the request of each socket
  ping,  \* its pinger
  conns, \* h.conns
  open,  \* sockets that were not closed on this side
  gone,  \* sockets whose peer has left
  cast,  \* where each Broadcast is
  todo,  \* what its loop has before it
  cur,   \* the socket it is at
  to,    \* history: the sockets it began with
  got    \* history: those it handed the frame to

vars == <<serve, ping, conns, open, gone, cast, todo, cur, to, got>>

TypeOK ==
  /\ serve \in [Conns -> {"none", "added", "reading", "left", "removed", "done"}]
  /\ ping \in [Conns -> {"off", "wait", "write", "close"}]
  /\ conns \subseteq Conns /\ open \subseteq Conns /\ gone \subseteq Conns
  /\ cast \in [Casters -> {"idle", "loop", "lock", "write", "close", "remove"}]
  /\ todo \in [Casters -> SUBSET Conns] /\ cur \in [Casters -> Conns]
  /\ \A c \in Conns : serve[c] \in {"removed", "done"} => c \notin conns
  /\ to \in [Casters -> SUBSET Conns] /\ got \in [Casters -> SUBSET Conns]

Init ==
  /\ serve = [c \in Conns |-> "none"]
  /\ ping = [c \in Conns |-> "off"]
  /\ conns = {} /\ open = {} /\ gone = {}
  /\ cast = [b \in Casters |-> "idle"]
  /\ todo = [b \in Casters |-> {}] /\ cur \in [Casters -> Conns]
  /\ to = [b \in Casters |-> {}] /\ got = [b \in Casters |-> {}]

\* Who is inside WriteMessage of socket c.
Writers(c) == {b \in Casters : cast[b] = "write" /\ cur[b] = c}
              \cup (IF ping[c] = "write" THEN {c} ELSE {})

\* Mutant of Free: the socket has no write lock.
FreeAlways(c) == TRUE

\* wmu of socket c
Free(c) == Writers(c) = {}

Close(c) == Free(c) /\ open' = open \ {c}

-----------------------------------------------------------------------------
(* Serve *)

\* The upgrade succeeded, the socket is registered.
Connect(c) ==
  /\ serve[c] = "none"
  /\ serve' = [serve EXCEPT ![c] = "added"]
  /\ open' = open \cup {c}
  /\ conns' = conns \cup {c}
  /\ UNCHANGED <<ping, gone, cast, todo, cur, to, got>>

StartPinger(c) ==
  /\ serve[c] = "added"
  /\ serve' = [serve EXCEPT ![c] = "reading"]
  /\ ping' = [ping EXCEPT ![c] = "wait"]
  /\ UNCHANGED <<conns, open, gone, cast, todo, cur, to, got>>

\* ReadMessage fails: closed, or nothing came for 60 s.  The deferred cancel runs.
ReadFails(c) ==
  /\ serve[c] = "reading"
  /\ c \notin open \/ c \in gone
  /\ serve' = [serve EXCEPT ![c] = "left"]
  /\ UNCHANGED <<ping, conns, open, gone, cast, todo, cur, to, got>>

\* Mutant of Without: the deferred remove is missing.
WithoutNone(c) == conns

\* remove
Without(c) == conns \ {c}

Deregister(c) ==
  /\ serve[c] = "left"
  /\ conns' = Without(c)
  /\ serve' = [serve EXCEPT ![c] = "removed"]
  /\ UNCHANGED <<ping, open, gone, cast, todo, cur, to, got>>

CloseServed(c) ==
  /\ serve[c] = "removed"
  /\ Close(c)
  /\ serve' = [serve EXCEPT ![c] = "done"]
  /\ UNCHANGED <<ping, conns, gone, cast, todo, cur, to, got>>

Serve(c) == StartPinger(c) \/ ReadFails(c) \/ Deregister(c) \/ CloseServed(c)

-----------------------------------------------------------------------------
(* The pinger *)

Ping(c) ==
  /\ ping[c] = "wait"
  /\ Free(c)
  /\ ping' = [ping EXCEPT ![c] = "write"]
  /\ UNCHANGED <<serve, conns, open, gone, cast, todo, cur, to, got>>

PingEnds(c) ==
  /\ ping[c] = "write"
  /\ \/ c \in open /\ ping' = [ping EXCEPT ![c] = "wait"]
     \/ ping' = [ping EXCEPT ![c] = "close"]
  /\ UNCHANGED <<serve, conns, open, gone, cast, todo, cur, to, got>>

ClosePinged(c) ==
  /\ ping[c] = "close"
  /\ Close(c)
  /\ ping' = [ping EXCEPT ![c] = "off"]
  /\ UNCHANGED <<serve, conns, gone, cast, todo, cur, to, got>>

\* Mutant of Cancelled: the pinger's context is the request's own, never cancelled
\* once the connection is taken over.
CancelledNever(c) == FALSE

\* ctx.Done(): the deferred cancel of Serve has run.
Cancelled(c) == serve[c] \in {"left", "removed", "done"}

PingerReturns(c) ==
  /\ ping[c] = "wait"
  /\ Cancelled(c)
  /\ ping' = [ping EXCEPT ![c] = "off"]
  /\ UNCHANGED <<serve, conns, open, gone, cast, todo, cur, to, got>>

-----------------------------------------------------------------------------
(* Broadcast *)

\* The receivers are copied under the hub's mutex.
Snapshot(b) ==
  /\ cast[b] = "idle"
  /\ cast' = [cast EXCEPT ![b] = "loop"]
  /\ todo' = [todo EXCEPT ![b] = conns]
  /\ to' = [to EXCEPT ![b] = conns]
  /\ got' = [got EXCEPT ![b] = {}]
  /\ UNCHANGED <<serve, ping, conns, open, gone, cur>>

Turn(b) ==
  /\ cast[b] = "loop"
  /\ \/ \E c \in todo[b] :
          /\ todo' = [todo EXCEPT ![b] = @ \ {c}]
          /\ cur' = [cur EXCEPT ![b] = c]
          /\ cast' = [cast EXCEPT ![b] = "lock"]
     \/ /\ todo[b] = {}
        /\ cast' = [cast EXCEPT ![b] = "idle"]
        /\ UNCHANGED <<todo, cur>>
  /\ UNCHANGED <<serve, ping, conns, open, gone, to, got>>

Lock(b) ==
  /\ cast[b] = "lock"
  /\ Free(cur[b])
  /\ cast' = [cast EXCEPT ![b] = "write"]
  /\ UNCHANGED <<serve, ping, conns, open, gone, todo, cur, to, got>>

\* Mutant of AfterError: the loop ends at the first socket that fails.
AfterErrorReturn == "idle"

\* Mutant of AfterError: a socket that fails is tried again.
AfterErrorRetry == "lock"

\* A socket that fails is closed, and the loop goes on.
AfterError == "close"

WriteEnds(b) ==
  /\ cast[b] = "write"
  /\ \/ /\ cur[b] \in open
        /\ got' = [got EXCEPT ![b] = @ \cup {cur[b]}]
        /\ cast' = [cast EXCEPT ![b] = "loop"]
     \/ /\ cast' = [cast EXCEPT ![b] = AfterError]
        /\ UNCHANGED got
  /\ UNCHANGED <<serve, ping, conns, open, gone, todo, cur, to>>

CloseFailed(b) ==
  /\ cast[b] = "close"
  /\ Close(cur[b])
  /\ cast' = [cast EXCEPT ![b] = "remove"]
  /\ UNCHANGED <<serve, ping, conns, gone, todo, cur, to, got>>

RemoveFailed(b) ==
  /\ cast[b] = "remove"
  /\ conns' = Without(cur[b])
  /\ cast' = [cast EXCEPT ![b] = "loop"]
  /\ UNCHANGED <<serve, ping, open, gone, todo, cur, to, got>>

-----------------------------------------------------------------------------

\* The browser leaves, with or without a word.
PeerLeaves(c) ==
  /\ serve[c] # "none" /\ c \notin gone
  /\ gone' = gone \cup {c}
  /\ UNCHANGED <<serve, ping, conns, open, cast, todo, cur, to, got>>

Next ==
  \/ \E c \in Conns : \/ Connect(c) \/ Serve(c) \/ PeerLeaves(c)
                      \/ Ping(c) \/ PingEnds(c) \/ ClosePinged(c) \/ PingerReturns(c)
  \/ \E b \in Casters : \/ Snapshot(b) \/ Turn(b) \/ Lock(b) \/ WriteEnds(b)
                        \/ CloseFailed(b) \/ RemoveFailed(b)

Spec == Init /\ [][Next]_vars

\* Goroutines run on; deadlines end every read and write; a mutex is handed to
\* whoever waits long enough; of select's two ready cases each is taken in time.
Fairness ==
  /\ \A c \in Conns :
       /\ WF_vars(StartPinger(c) \/ ReadFails(c) \/ Deregister(c)) /\ SF_vars(CloseServed(c))
       /\ WF_vars(PingEnds(c)) /\ SF_vars(ClosePinged(c)) /\ SF_vars(PingerReturns(c))
  /\ \A b \in Casters :
       /\ WF_vars(Turn(b) \/ WriteEnds(b) \/ RemoveFailed(b))
       /\ SF_vars(Lock(b)) /\ SF_vars(CloseFailed(b))

LiveSpec == Spec /\ Fairness

-----------------------------------------------------------------------------

\* "concurrent WriteMessage calls on one connection panic": collector, hook and
\* pinger are never inside one socket's write together (wsConn.write).
OneWriter == \A c \in Conns : \A v, w \in Writers(c) : v = w

\* "writes it to every connected admin": when a Broadcast returns, each socket it
\* began with has the frame or is closed and off the hub, so that the browser
\* connects again; a socket that fails costs nobody else the frame (Broadcast).
EveryAdmin ==
  \A b \in Casters : cast[b] = "idle" =>
    \A c \in to[b] \ got[b] : c \notin open /\ c \notin conns

\* A socket that broke, on either side, leaves nothing behind: no entry of the hub,
\* no open socket, no pinger (Serve, Broadcast).
NothingLeft ==
  \A c \in Conns :
    (serve[c] # "none" /\ (c \in gone \/ c \notin open))
      ~> (serve[c] = "done" /\ c \notin conns /\ c \notin open /\ ping[c] = "off")

\* A Broadcast returns, whatever its sockets do: the hook's caller holds the
\* supervisor's mutex (Broadcast).
CastReturns == \A b \in Casters : cast[b] # "idle" ~> cast[b] = "idle"
=============================================================================
