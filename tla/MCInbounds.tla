----------------------------- MODULE MCInbounds -----------------------------
(***************************************************************************)
(* Small instances of Inbounds, with the history of one more overlap:      *)
(* whether two handlers were between their write and the swap of the       *)
(* registry at the same time since the registry was last the table's.      *)
(***************************************************************************)
EXTENDS Inbounds, TLC

VARIABLE crossed

\* a port that is probed and one that is not
MCPorts == {1, 4}
Symmetric == Permutations(Handlers) \cup Permutations(Paths)

Syncing == {h \in Handlers : pc[h] \in {"sync", "swap"}}
Settled == Syncing = {} /\ routes = TLSRows

HistoryInit == Init /\ crossed = FALSE

HistoryNext ==
  /\ Next
  /\ crossed' = (~Settled' /\ (crossed \/ Cardinality(Syncing') > 1))

HistorySpec == HistoryInit /\ [][HistoryNext]_<<vars, crossed>>

\* "rebuilds the custom path registry from the DB": when no handler is about to
\* and no query has failed, the registry is the table's, unless two handlers were
\* at it together and the older of two snapshots was stored last (SyncCustomRoutes).
StaleRoutesOverlap ==
  (failures = 0 /\ ~crossed /\ Syncing = {}) => routes = TLSRows
=============================================================================
