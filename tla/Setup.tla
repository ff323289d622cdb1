--------------------------------- MODULE Setup ---------------------------------
(***************************************************************************)
(* First-run setup (api/server.go): any number of requests may try to      *)
(* create the first admin.  The count, the start of the INSERT (it sees    *)
(* what is committed by then) and its commit are separate steps.           *)
(*                                                                         *)
(*  - Postgres runs each statement on its own, READ COMMITTED.             *)
(*  - A query may fail; the request may be cancelled after its INSERT was  *)
(*    committed.  Passwords and hashing are left out.                      *)
(***************************************************************************)
CONSTANTS
  Requests,
  Names \* usernames, trimmed and in lower case

VARIABLES
  admins, \* the table: who inserted which name
  pc,
  name,   \* body.Username
  met     \* history: the pairs of requests whose INSERTs ran at the same time

vars == <<admins, pc, name, met>>

Answers == {"ok", "forbidden", "invalid", "error"}

TypeOK ==
  /\ admins \subseteq [by: Requests, username: Names]
  /\ \A a, b \in admins : a.username = b.username => a = b
  /\ pc \in [Requests -> {"start", "checked", "insert"} \cup Answers]
  /\ name \in [Requests -> Names]
  /\ met \subseteq Requests \X Requests

Init ==
  /\ admins = {}
  /\ pc = [r \in Requests |-> "start"]
  /\ name \in [Requests -> {CHOOSE n \in Names : TRUE}]
  /\ met = {}

To(r, step) == pc' = [pc EXCEPT ![r] = step]

\* A request comes in with a name: SELECT count(*) FROM admins.
Count(r) ==
  /\ pc[r] = "start"
  /\ \E n \in Names : name' = [name EXCEPT ![r] = n]
  /\ \/ admins = {} /\ To(r, "checked")
     \/ admins # {} /\ To(r, "forbidden")
     \/ To(r, "error")
  /\ UNCHANGED <<admins, met>>

\* Unreadable, too short, or the hash fails.
Reject(r) ==
  /\ pc[r] = "checked"
  /\ To(r, "invalid") \/ To(r, "error")
  /\ UNCHANGED <<admins, name, met>>

\* Mutant of NoneExists: WHERE NOT EXISTS looks for the same name.
SameNameMissing(r) == \A a \in admins : a.username # name[r]

\* WHERE NOT EXISTS (SELECT 1 FROM admins), on what is committed now.
NoneExists(r) == admins = {}

BeginInsert(r) ==
  /\ pc[r] = "checked"
  /\ \/ /\ NoneExists(r) /\ To(r, "insert")
        /\ met' = met \cup {p \in Requests \X Requests :
                              r \in {p[1], p[2]} /\ pc'[p[1]] = "insert" /\ pc'[p[2]] = "insert"}
     \/ ~NoneExists(r) /\ To(r, "forbidden") /\ UNCHANGED met
     \/ To(r, "error") /\ UNCHANGED met
  /\ UNCHANGED <<admins, name>>

\* Mutant of Refused: a name that is taken counts as success.
AcceptedAnyway(r) == To(r, "ok")

\* UNIQUE (username): an INSERT of the same name was committed first.
Refused(r) == To(r, "error")

NameFree(r) == \A a \in admins : a.username # name[r]

\* The row is in, and startSession answers or fails, or the request was
\* cancelled; or the constraint refuses it.
CommitInsert(r) ==
  /\ pc[r] = "insert"
  /\ \/ /\ NameFree(r)
        /\ admins' = admins \cup {[by |-> r, username |-> name[r]]}
        /\ To(r, "ok") \/ To(r, "error")
     \/ /\ ~NameFree(r)
        /\ Refused(r)
        /\ UNCHANGED admins
     \/ /\ To(r, "error")
        /\ UNCHANGED admins
  /\ UNCHANGED <<name, met>>

Next ==
  \E r \in Requests : Count(r) \/ Reject(r) \/ BeginInsert(r) \/ CommitInsert(r)

Spec == Init /\ [][Next]_vars

-----------------------------------------------------------------------------

\* "TOCTOU guard: a concurrent setup request already created the admin": the
\* panel gets a second admin only from two INSERTs that ran at the same time, each
\* blind to the other's row; the counts before them may overlap as they like (setup).
SecondAdminOverlaps ==
  \A a, b \in admins : a # b => <<a.by, b.by>> \in met

\* No answer lies: "ok" is told only to the request whose row is in the table, and
\* "setup already completed" only when somebody's is (setup).
AnswersTrue ==
  \A r \in Requests :
    /\ pc[r] = "ok" => [by |-> r, username |-> name[r]] \in admins
    /\ pc[r] = "forbidden" => admins # {}
=============================================================================
