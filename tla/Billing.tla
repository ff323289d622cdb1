------------------------------ MODULE Billing ------------------------------
(***************************************************************************)
(* What traffic accounting promises, whoever collects: a byte a user       *)
(* transferred is pending until it is billed to that user or given up.     *)
(* Bytes only move forward: nothing billed becomes pending again, what is  *)
(* given up is never billed, and a client that is deleted is not billed    *)
(* any more.                                                               *)
(***************************************************************************)
EXTENDS Integers

CONSTANT Users

VARIABLES
  gen,     \* bytes each user transferred
  pending, \* of these, bytes that were neither billed nor given up
  billed,  \* what the users' rows say
  lost,    \* bytes that were given up, or billed to a client since deleted
  present  \* clients that are not deleted

ledger == <<gen, pending, billed, lost, present>>

Nothing == [u \in Users |-> 0]

Init ==
  /\ gen = Nothing /\ pending = Nothing /\ billed = Nothing /\ lost = Nothing
  /\ present = Users

\* A byte passes.
Transfer(u) ==
  /\ gen' = [gen EXCEPT ![u] = @ + 1]
  /\ pending' = [pending EXCEPT ![u] = @ + 1]
  /\ UNCHANGED <<billed, lost, present>>

\* Some of a client's pending bytes are billed to it.
Bill(u) ==
  /\ u \in present
  /\ \E n \in 1..pending[u] :
       /\ pending' = [pending EXCEPT ![u] = @ - n]
       /\ billed' = [billed EXCEPT ![u] = @ + n]
  /\ UNCHANGED <<gen, lost, present>>

\* Pending bytes of any users are given up.
GiveUp ==
  /\ pending' = [u \in Users |-> pending'[u]]
  /\ \A u \in Users : pending'[u] \in 0..pending[u]
  /\ lost' = [u \in Users |-> lost[u] + (pending[u] - pending'[u])]
  /\ UNCHANGED <<gen, billed, present>>

\* A client goes, and its bill with it.
Delete(u) ==
  /\ u \in present
  /\ present' = present \ {u}
  /\ lost' = [lost EXCEPT ![u] = @ + billed[u]]
  /\ billed' = [billed EXCEPT ![u] = 0]
  /\ UNCHANGED <<gen, pending>>

Next == GiveUp \/ \E u \in Users : Transfer(u) \/ Bill(u) \/ Delete(u)

Spec == Init /\ [][Next]_ledger
=============================================================================
