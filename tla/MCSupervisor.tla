---------------------------- MODULE MCSupervisor ----------------------------
\* Small instances of Supervisor.
EXTENDS Supervisor, TLC

\* No list, and one entry each.
ListsOf == {{}} \cup {{x} : x \in Inbounds}

\* No list, and one that names the inbound which may be missing.
TagLists == {{}} \cup {{t} : t \in Tags}

Symmetry == Permutations(Handlers) \cup Permutations(Users)
=============================================================================
