-------------------------------- MODULE Settings --------------------------------
(***************************************************************************)
(* The panel settings (api/server.go, store/store.go): a PUT loads the     *)
(* whole row, merges its body and writes the whole row back.               *)
(*                                                                         *)
(*  - A key is a protocol toggle or one of the texts; a value is one of    *)
(*    its legal values or one of those the handler treats apart.           *)
(*    Trimming and lower case are left out.                                *)
(*  - A body maps the keys it names to what it asks for.                   *)
(*  - The restart that follows is Supervisor's.                            *)
(***************************************************************************)
EXTENDS Functions

CONSTANTS
  Handlers,
  Toggles, \* the protocols of panel["protocols"]
  Texts,   \* among "reality_sni", "cfg_fmt", "address"
  Values,  \* legal values of a text, Blank among them
  Blank,   \* ""
  Invalid, \* not a public host
  Other    \* JSON of another type

Entries == Toggles \cup Texts

VARIABLES
  panel, \* settings['panel']
  pc,
  body,  \* what a request asks for
  read,  \* what it loaded
  moved  \* history: the row was written since it loaded it

vars == <<panel, pc, body, read, moved>>

\* What a request may say of a key.
Asked(k) == IF k \in Toggles THEN BOOLEAN \cup {Other} ELSE Values \cup {Invalid, Other}

\* What the row may hold; cfg_fmt is any text.
Legal(k) == CASE k \in Toggles -> BOOLEAN
              [] k = "cfg_fmt" -> Values \cup {Invalid}
              [] k = "address" -> Values
              [] OTHER -> Values \ {Blank}

Union == BOOLEAN \cup Values \cup {Invalid, Other}

IsPanel(p) == DOMAIN p = Entries /\ \A k \in Entries : p[k] \in Legal(k)

Bodies == UNION {{b \in [S -> Union] : \A k \in S : b[k] \in Asked(k)} : S \in SUBSET Entries}

TypeOK ==
  /\ IsPanel(panel)
  /\ pc \in [Handlers -> {"idle", "loaded"}]
  /\ \A h \in Handlers : /\ IsPanel(read[h])
                         /\ DOMAIN body[h] \subseteq Entries
                         /\ \A k \in DOMAIN body[h] : body[h][k] \in Asked(k)
  /\ moved \in [Handlers -> BOOLEAN]

\* DefaultPanelSettings: every toggle on, the server name of the environment.
Default == [k \in Entries |-> IF k \in Toggles THEN TRUE
                           ELSE IF k = "address" THEN Blank
                           ELSE CHOOSE v \in Values \ {Blank} : TRUE]

None == [k \in {} |-> {}]

Init ==
  /\ panel = Default
  /\ pc = [h \in Handlers |-> "idle"]
  /\ body = [h \in Handlers |-> None]
  /\ read = [h \in Handlers |-> Default]
  /\ moved = [h \in Handlers |-> FALSE]

\* LoadPanelSettings; when the query fails the request ends without a trace.
Load(h) ==
  /\ pc[h] = "idle"
  /\ pc' = [pc EXCEPT ![h] = "loaded"]
  /\ \E b \in Bodies : body' = [body EXCEPT ![h] = b]
  /\ read' = [read EXCEPT ![h] = panel]
  /\ moved' = [moved EXCEPT ![h] = FALSE]
  /\ UNCHANGED panel

\* A name that must be a host and is none: 400, nothing is written.
Refused(b) == \E k \in DOMAIN b \cap {"reality_sni", "address"} : b[k] = Invalid

\* A value of the wrong type is ignored, and so is an empty server name.
Counts(b, k) == k \in DOMAIN b /\ b[k] # Other /\ ~(k = "reality_sni" /\ b[k] = Blank)

\* Mutant of Merge: toggles that are not named are switched on.
MergeDefaults(p, b) ==
  [k \in Entries |-> IF Counts(b, k) THEN b[k]
                  ELSE IF k \in Toggles /\ DOMAIN b \cap Toggles # {} THEN TRUE ELSE p[k]]

Merge(p, b) == [k \in Entries |-> IF Counts(b, k) THEN b[k] ELSE p[k]]

Finish(h) ==
  /\ pc' = [pc EXCEPT ![h] = "idle"]
  /\ body' = [body EXCEPT ![h] = None]
  /\ read' = [read EXCEPT ![h] = Default]

Refuse(h) ==
  /\ pc[h] = "loaded"
  /\ Refused(body[h])
  /\ Finish(h)
  /\ moved' = [moved EXCEPT ![h] = FALSE]
  /\ UNCHANGED panel

\* PutJSON of the whole row.
Write(h) ==
  /\ pc[h] = "loaded"
  /\ ~Refused(body[h])
  /\ panel' = Merge(read[h], body[h])
  /\ Finish(h)
  /\ moved' = [g \in Handlers |-> g # h /\ pc[g] = "loaded"]

\* PutJSON fails.
WriteFails(h) ==
  /\ pc[h] = "loaded"
  /\ ~Refused(body[h])
  /\ Finish(h)
  /\ moved' = [moved EXCEPT ![h] = FALSE]
  /\ UNCHANGED panel

Next ==
  \E h \in Handlers : Load(h) \/ Refuse(h) \/ Write(h) \/ WriteFails(h)

Spec == Init /\ [][Next]_vars

-----------------------------------------------------------------------------

\* A write changes a setting that the request's body does not name.
Resets(h) == Write(h) /\ \E k \in Entries \ DOMAIN body[h] : panel'[k] # panel[k]

\* "a partial body must not reset the protocols the admin already disabled": a
\* setting that a body does not name changes only when another request wrote the
\* row between this one's load and its write (putSettings).
ResetsOnlyBehind == [][\A h \in Handlers : Resets(h) => moved[h]]_vars
=============================================================================
