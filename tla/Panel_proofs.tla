------------------------------ MODULE Panel_proofs ------------------------------
(***************************************************************************)
(* The parts that MCPanel checks side by side.                             *)
(*                                                                         *)
(* LoginLimiter: the pruned lists and the unpruned history hold the same   *)
(* hits of the window (Agree), and a list never grows beyond Max; so the   *)
(* limiter implements LoginWindow for any addresses, limit, window and map *)
(* size.                                                                   *)
(*                                                                         *)
(* Setup: a request whose INSERT runs has met every other one that runs    *)
(* and every row (Pairs, Blind).  Settings: what a request loaded is the   *)
(* row until another one writes (Current).  Clients: a row holds what the  *)
(* history says was asked for (Stored), and what a request is about to     *)
(* write has passed its checks (Checked, Meant).  UseLive: the timers know *)
(* where the socket is (Timers).                                           *)
(***************************************************************************)
EXTENDS MCPanel, FiniteSetTheorems, TLAPS

\* The hits an address has on the map are hits of its history, and none of the
\* history that lies in the window is missing.
Agree == \A k \in Keys : L!HitsOf(k) \subseteq since[k] /\ W!InWindow(k) \subseteq L!HitsOf(k)

Finite == \A k \in DOMAIN hits : IsFiniteSet(hits[k])

LimiterInv == L!TypeOK /\ Finite /\ Agree

-----------------------------------------------------------------------------

\* The limiter's instance counts as everybody does.
LEMMA SameSize == \A A : L!Cardinality(A) = Cardinality(A) /\ W!Cardinality(A) = Cardinality(A)
  BY DEF L!Cardinality, W!Cardinality, Cardinality

\* The limiter prunes to exactly what the window of the history holds.
LEMMA KeepIsWindow ==
  ASSUME Agree, NEW k \in Keys
  PROVE  L!Keep(k) = W!InWindow(k)
  BY DEF Agree, L!Keep, W!InWindow

\* What prune keeps is finite and within the limit.
LEMMA KeepSmall ==
  ASSUME L!TypeOK, Finite, NEW k \in Keys
  PROVE  /\ L!Keep(k) \subseteq L!Hits
         /\ IsFiniteSet(L!Keep(k))
         /\ Cardinality(L!Keep(k)) \in Nat
         /\ Cardinality(L!Keep(k)) <= Max
<1>1. L!HitsOf(k) \subseteq L!Hits /\ IsFiniteSet(L!HitsOf(k))
  <2>1. CASE k \in DOMAIN hits
    BY <2>1 DEF L!HitsOf, L!TypeOK, Finite
  <2>2. CASE k \notin DOMAIN hits
    BY <2>2, FS_EmptySet DEF L!HitsOf
  <2>3. QED
    BY <2>1, <2>2
<1>2. Cardinality(L!HitsOf(k)) \in Nat /\ Cardinality(L!HitsOf(k)) <= Max
  <2>1. CASE k \in DOMAIN hits
    BY <1>1, <2>1, FS_CardinalityType, SameSize DEF L!HitsOf, L!TypeOK
  <2>2. CASE k \notin DOMAIN hits
    BY <2>2, FS_EmptySet, LimiterAssumption DEF L!HitsOf
  <2>3. QED
    BY <2>1, <2>2
<1>3. L!Keep(k) \subseteq L!HitsOf(k)
  BY DEF L!Keep
<1>4. IsFiniteSet(L!Keep(k)) /\ Cardinality(L!Keep(k)) <= Cardinality(L!HitsOf(k))
  BY <1>1, <1>3, FS_Subset
<1>5. Cardinality(L!Keep(k)) \in Nat
  BY <1>4, FS_CardinalityType
<1>6. QED
  BY <1>1, <1>2, <1>3, <1>4, <1>5, LimiterAssumption

\* What a sweep leaves: lists it does not change, and every list that is not empty.
LEMMA SweptKeeps ==
  ASSUME NEW h, NEW A, h \in [A -> SUBSET L!Hits]
  PROVE  /\ DOMAIN L!Swept(h) \subseteq A
         /\ \A k \in DOMAIN L!Swept(h) : L!Swept(h)[k] = h[k]
         /\ \A k \in A : h[k] # {} => k \in DOMAIN L!Swept(h)
  BY DEF L!Swept, L!Restrict

\* Nobody has tried in the beginning.
LEMMA LimiterInit == L!Init => LimiterInv
  BY LimiterAssumption DEF L!Init, LimiterInv, L!TypeOK, Finite, Agree, L!HitsOf, W!InWindow

\* The lists of the map after a step, once every list is known to be short.
LEMMA AdmitStep ==
  ASSUME LimiterInv, NEW k \in Keys, L!Admit(k)
  PROVE  LimiterInv'
<1> DEFINE hit == [n |-> logins + 1, at |-> time]
           list == L!Keep(k) \cup {hit}
           put == L!Put(k, list)
<1>1. hit \in L!Hits /\ logins' \in 0..MaxLogins
  BY LimiterAssumption DEF LimiterInv, L!TypeOK, L!Admit, L!Hits
<1>2. /\ L!Keep(k) \subseteq L!Hits /\ IsFiniteSet(L!Keep(k))
      /\ Cardinality(L!Keep(k)) \in Nat /\ Cardinality(L!Keep(k)) < Max
  BY KeepSmall, SameSize DEF LimiterInv, L!Admit, L!HasRoom
<1>3. list \subseteq L!Hits /\ IsFiniteSet(list) /\ Cardinality(list) <= Max
  <2>1. IsFiniteSet(list) /\ (Cardinality(list) = Cardinality(L!Keep(k))
                              \/ Cardinality(list) = Cardinality(L!Keep(k)) + 1)
    BY <1>2, FS_AddElement
  <2>2. QED
    BY <1>1, <1>2, <2>1, LimiterAssumption
<1>4. /\ hits' = L!Swept(put)
      /\ since' = [since EXCEPT ![k] = @ \cup {hit}]
      /\ time' = time
  BY DEF L!Admit
<1>5. put \in [DOMAIN hits \cup {k} -> SUBSET L!Hits] /\ put[k] = list
      /\ \A j \in DOMAIN hits : j # k => put[j] = hits[j]
  BY <1>3 DEF L!Put, LimiterInv, L!TypeOK
<1> HIDE DEF hit, list, put
<1>6. /\ DOMAIN hits' \subseteq DOMAIN hits \cup {k}
      /\ \A j \in DOMAIN hits' : hits'[j] = put[j]
      /\ \A j \in DOMAIN hits \cup {k} : put[j] # {} => j \in DOMAIN hits'
  BY <1>4, <1>5, SweptKeeps
<1>7. \A j \in DOMAIN hits' : /\ hits'[j] \subseteq L!Hits /\ IsFiniteSet(hits'[j])
                              /\ Cardinality(hits'[j]) <= Max
  BY <1>3, <1>5, <1>6, SameSize DEF LimiterInv, L!TypeOK, Finite
<1>8. L!TypeOK' /\ Finite'
  <2>1. since' \in [Keys -> SUBSET L!Hits]
    BY <1>1, <1>4 DEF LimiterInv, L!TypeOK
  <2>2. open' \subseteq Keys \X (1..MaxLogins)
    BY LimiterAssumption DEF LimiterInv, L!TypeOK, L!Admit
  <2>3. DOMAIN hits' \subseteq Keys
    BY <1>6 DEF LimiterInv, L!TypeOK
  <2>4. time' \in 0..MaxTime
    BY <1>4 DEF LimiterInv, L!TypeOK
  <2>5. QED
    BY <1>1, <1>7, <2>1, <2>2, <2>3, <2>4, SameSize DEF L!TypeOK, Finite, L!Hits
<1>9. Agree'
  <2> SUFFICES ASSUME NEW j \in Keys
               PROVE  L!HitsOf(j)' \subseteq since'[j] /\ W!InWindow(j)' \subseteq L!HitsOf(j)'
    BY DEF Agree
  <2>0. /\ L!HitsOf(j) \subseteq since[j] /\ W!InWindow(j) \subseteq L!HitsOf(j)
        /\ L!Keep(k) = W!InWindow(k)
    BY KeepIsWindow DEF LimiterInv, Agree
  <2>1. CASE j = k
    <3>1. since'[k] = since[k] \cup {hit}
      BY <1>4 DEF LimiterInv, L!TypeOK
    <3>2. L!HitsOf(k)' = list
      <4>1. list # {}
        BY DEF list
      <4>2. QED
        BY <4>1, <1>5, <1>6 DEF L!HitsOf
    <3>3. W!InWindow(k)' \subseteq W!InWindow(k) \cup {hit}
      BY <1>4, <3>1 DEF W!InWindow
    <3>4. W!InWindow(k) \subseteq since[k]
      BY DEF W!InWindow
    <3>5. QED
      BY <2>0, <2>1, <3>1, <3>2, <3>3, <3>4 DEF list
  <2>2. CASE j # k
    <3>1. since'[j] = since[j] /\ W!InWindow(j)' = W!InWindow(j)
      BY <1>4, <2>2 DEF LimiterInv, L!TypeOK, W!InWindow
    <3>2. L!HitsOf(j)' = L!HitsOf(j)
      BY <1>5, <1>6, <2>2 DEF L!HitsOf
    <3>3. QED
      BY <2>0, <3>1, <3>2
  <2>3. QED
    BY <2>1, <2>2
<1>10. QED
  BY <1>8, <1>9 DEF LimiterInv

\* A login that is refused.
LEMMA RefuseStep ==
  ASSUME LimiterInv, NEW k \in Keys, L!Refuse(k)
  PROVE  LimiterInv'
<1>1. /\ hits' = L!Put(k, L!Keep(k))
      /\ UNCHANGED <<time, logins, open, since>>
  BY DEF L!Refuse
<1>2. /\ L!Keep(k) \subseteq L!Hits /\ IsFiniteSet(L!Keep(k)) /\ Cardinality(L!Keep(k)) <= Max
  BY KeepSmall DEF LimiterInv
<1>3. /\ DOMAIN hits' = DOMAIN hits \cup {k} /\ hits'[k] = L!Keep(k)
      /\ \A j \in DOMAIN hits : j # k => hits'[j] = hits[j]
  BY <1>1 DEF L!Put
<1>4. L!TypeOK' /\ Finite'
  <2>1. \A j \in DOMAIN hits' : /\ hits'[j] \subseteq L!Hits /\ IsFiniteSet(hits'[j])
                                /\ Cardinality(hits'[j]) <= Max
    BY <1>2, <1>3, SameSize DEF LimiterInv, L!TypeOK, Finite
  <2>2. QED
    BY <1>1, <1>3, <2>1, SameSize DEF LimiterInv, L!TypeOK, Finite, L!Hits
<1>5. Agree'
  <2> SUFFICES ASSUME NEW j \in Keys
               PROVE  L!HitsOf(j)' \subseteq since[j] /\ W!InWindow(j) \subseteq L!HitsOf(j)'
    BY <1>1 DEF Agree, W!InWindow
  <2>1. L!HitsOf(j) \subseteq since[j] /\ W!InWindow(j) \subseteq L!HitsOf(j)
    BY DEF LimiterInv, Agree
  <2>2. CASE j = k
    BY <1>3, <2>1, <2>2, KeepIsWindow DEF LimiterInv, L!HitsOf, W!InWindow
  <2>3. CASE j # k
    BY <1>3, <2>1, <2>3 DEF L!HitsOf
  <2>4. QED
    BY <2>2, <2>3
<1>6. QED
  BY <1>4, <1>5 DEF LimiterInv

\* A login that succeeds: its address is forgotten.
LEMMA SucceedStep ==
  ASSUME LimiterInv, NEW k \in Keys, NEW n \in 1..MaxLogins, L!Succeed(k, n)
  PROVE  LimiterInv'
<1>1. /\ DOMAIN hits' = DOMAIN hits \ {k}
      /\ \A j \in DOMAIN hits' : hits'[j] = hits[j]
      /\ since' = [since EXCEPT ![k] = {}]
      /\ open' \subseteq open
      /\ UNCHANGED <<time, logins>>
  BY DEF L!Succeed, L!Restrict
<1>2. L!TypeOK' /\ Finite'
  BY <1>1 DEF LimiterInv, L!TypeOK, Finite, L!Hits
<1>3. Agree'
  <2> SUFFICES ASSUME NEW j \in Keys
               PROVE  L!HitsOf(j)' \subseteq since'[j] /\ W!InWindow(j)' \subseteq L!HitsOf(j)'
    BY DEF Agree
  <2>1. CASE j = k
    BY <1>1, <2>1 DEF LimiterInv, L!TypeOK, L!HitsOf, W!InWindow
  <2>2. CASE j # k
    BY <1>1, <2>2 DEF LimiterInv, L!TypeOK, Agree, L!HitsOf, W!InWindow
  <2>3. QED
    BY <2>1, <2>2
<1>4. QED
  BY <1>2, <1>3 DEF LimiterInv

\* Failed logins and the clock.
LEMMA OtherSteps ==
  ASSUME LimiterInv,
         L!Tick \/ (\E k \in Keys, n \in 1..MaxLogins : L!Fail(k, n)) \/ UNCHANGED L!vars
  PROVE  LimiterInv'
<1>1. /\ UNCHANGED <<logins, hits, since>> /\ open' \subseteq open
      /\ time' \in 0..MaxTime /\ time <= time'
  <2>0. time \in 0..MaxTime /\ MaxTime \in Nat
    BY LimiterAssumption DEF LimiterInv, L!TypeOK
  <2>1. CASE L!Tick
    BY <2>0, <2>1 DEF L!Tick
  <2>2. CASE \E k \in Keys, n \in 1..MaxLogins : L!Fail(k, n)
    BY <2>0, <2>2 DEF L!Fail
  <2>3. CASE UNCHANGED L!vars
    BY <2>0, <2>3 DEF L!vars
  <2>4. QED
    BY <2>1, <2>2, <2>3
<1>2. L!TypeOK' /\ Finite'
  BY <1>1 DEF LimiterInv, L!TypeOK, Finite, L!Hits
<1>3. Agree'
  <2> SUFFICES ASSUME NEW k \in Keys
               PROVE  L!HitsOf(k) \subseteq since[k] /\ W!InWindow(k)' \subseteq L!HitsOf(k)
    BY <1>1 DEF Agree, L!HitsOf
  <2>1. W!InWindow(k)' \subseteq W!InWindow(k)
    <3> SUFFICES ASSUME NEW h \in since[k], time' - h.at < Window
                 PROVE  time - h.at < Window
      BY <1>1 DEF W!InWindow
    <3>1. h.at \in Int /\ time \in Int /\ time' \in Int /\ Window \in Int
      BY <1>1, LimiterAssumption DEF LimiterInv, L!TypeOK, L!Hits
    <3>2. QED
      BY <1>1, <3>1
  <2>2. QED
    BY <2>1 DEF LimiterInv, Agree
<1>4. QED
  BY <1>2, <1>3 DEF LimiterInv

\* The conjunction is inductive.
LEMMA LimiterInductive == LimiterInv /\ [L!Next]_L!vars => LimiterInv'
<1> SUFFICES ASSUME LimiterInv, [L!Next]_L!vars PROVE LimiterInv'
  OBVIOUS
<1>1. CASE \E k \in Keys : L!Admit(k)
  BY <1>1, AdmitStep
<1>2. CASE \E k \in Keys : L!Refuse(k)
  BY <1>2, RefuseStep
<1>3. CASE \E k \in Keys, n \in 1..MaxLogins : L!Succeed(k, n)
  BY <1>3, SucceedStep
<1>4. CASE L!Tick \/ (\E k \in Keys, n \in 1..MaxLogins : L!Fail(k, n)) \/ UNCHANGED L!vars
  BY <1>4, OtherSteps
<1>5. QED
  BY <1>1, <1>2, <1>3, <1>4 DEF L!Next

\* The conjunction holds throughout.
LEMMA LimiterInvariant == L!Spec => []LimiterInv
  BY LimiterInit, LimiterInductive, PTL DEF L!Spec

-----------------------------------------------------------------------------

\* The lists never hold more than Max hits and the history is well formed,
\* for any addresses, limit and window (loginLimiter).
THEOREM TypeCorrect == L!Spec => []L!TypeOK
<1>1. LimiterInv => L!TypeOK
  BY DEF LimiterInv
<1>2. QED
  BY <1>1, LimiterInvariant, PTL

\* No address has more than Max logins let through in one window without a
\* success, however many there are and whatever is swept (allow).
THEOREM WindowAlwaysBounded == L!Spec => []W!WindowBound
<1>1. LimiterInv => W!WindowBound
  BY KeepIsWindow, KeepSmall, SameSize DEF LimiterInv, W!WindowBound
<1>2. QED
  BY <1>1, LimiterInvariant, PTL

\* The limiter decides as the window that forgets nothing would.
LEMMA SameVerdict ==
  ASSUME LimiterInv, NEW k \in Keys
  PROVE  L!HasRoom(L!Keep(k)) <=> W!Vacant(k)
<1>1. L!Keep(k) = W!InWindow(k)
  BY KeepIsWindow DEF LimiterInv
<1>2. QED
  BY <1>1, SameSize DEF L!HasRoom, W!Vacant

\* Every step of the limiter is a step of the window or changes only the map.
LEMMA WindowStep == LimiterInv /\ [L!Next]_L!vars => [W!Next]_W!vars
<1> SUFFICES ASSUME LimiterInv, [L!Next]_L!vars PROVE [W!Next]_W!vars
  OBVIOUS
<1>1. ASSUME NEW k \in Keys, L!Admit(k) PROVE W!Next
  <2>1. W!Vacant(k)
    BY <1>1, SameVerdict DEF L!Admit
  <2>2. W!Try(k)
    BY <1>1, <2>1 DEF L!Admit, W!Try
  <2>3. QED
    BY <2>2 DEF W!Next
<1>2. ASSUME NEW k \in Keys, L!Refuse(k) PROVE UNCHANGED W!vars
  BY <1>2 DEF L!Refuse, W!vars
<1>3. ASSUME NEW k \in Keys, NEW n \in 1..MaxLogins, L!Fail(k, n) \/ L!Succeed(k, n)
      PROVE  W!Next
  <2>1. W!Answer(k, n)
    BY <1>3 DEF L!Fail, L!Succeed, W!Answer
  <2>2. QED
    BY <2>1 DEF W!Next
<1>4. CASE L!Tick
  BY <1>4 DEF L!Tick, W!Tick, W!Next
<1>5. CASE UNCHANGED L!vars
  BY <1>5 DEF L!vars, W!vars
<1>6. QED
  BY <1>1, <1>2, <1>3, <1>4, <1>5 DEF L!Next

\* The limiter implements the window that forgets nothing, verdict by verdict: what
\* lapsed, what was swept, a success and refused logins neither shorten nor
\* prolong a lockout (loginLimiter).
THEOREM LimiterIsIdeal == L!Spec => IdealWindow
<1>1. L!Init => W!Init
  BY DEF L!Init, W!Init
<1>2. LimiterInv => \A k \in Keys : L!HasRoom(L!Keep(k)) <=> W!Vacant(k)
  BY SameVerdict
<1>3. L!Spec => W!Spec
  BY <1>1, WindowStep, LimiterInvariant, PTL DEF L!Spec, W!Spec
<1>4. L!Spec => [](\A k \in Keys : L!HasRoom(L!Keep(k)) <=> W!Vacant(k))
  BY <1>2, LimiterInvariant, PTL
<1>5. QED
  BY <1>3, <1>4 DEF IdealWindow

\* No address of the map ever has an empty list.
NoneEmpty == \A k \in DOMAIN hits : hits[k] # {}

\* Without empty lists the sweep of an attempt drops nothing.
LEMMA SweepIdle ==
  ASSUME NoneEmpty, NEW k \in Keys, L!Admit(k)
  PROVE  /\ hits' = L!Put(k, L!Keep(k) \cup {[n |-> logins + 1, at |-> time]})
         /\ NoneEmpty'
<1>. DEFINE put == L!Put(k, L!Keep(k) \cup {[n |-> logins + 1, at |-> time]})
<1>1. /\ put = [j \in DOMAIN hits \cup {k} |-> put[j]]
      /\ \A j \in DOMAIN hits \cup {k} : put[j] # {}
  BY DEF L!Put, NoneEmpty
<1>2. hits' = L!Swept(put)
  BY DEF L!Admit
<1>. HIDE DEF put
<1>3. {j \in DOMAIN put : put[j] # {}} = DOMAIN put /\ put = [j \in DOMAIN put |-> put[j]]
  BY <1>1
<1>4. L!Swept(put) = put
  BY <1>3 DEF L!Swept, L!Restrict
<1>. QED
  BY <1>1, <1>2, <1>4 DEF put, NoneEmpty

\* The map holds no empty list.
LEMMA NoneEmptyInductive == LimiterInv /\ NoneEmpty /\ [L!Next]_L!vars => NoneEmpty'
<1>. SUFFICES ASSUME LimiterInv, NoneEmpty, [L!Next]_L!vars PROVE NoneEmpty'
  OBVIOUS
<1>1. ASSUME NEW k \in Keys, L!Admit(k) PROVE NoneEmpty'
  BY <1>1, SweepIdle
<1>2. ASSUME NEW k \in Keys, L!Refuse(k) PROVE NoneEmpty'
  <2>1. L!Keep(k) # {}
    <3>1. ~ (Cardinality(L!Keep(k)) < Max)
      BY <1>2, SameSize DEF L!Refuse, L!HasRoom
    <3>. QED
      BY <3>1, FS_EmptySet, LimiterAssumption
  <2>. QED
    BY <1>2, <2>1 DEF L!Refuse, L!Put, NoneEmpty
<1>3. ASSUME NEW k \in Keys, NEW n \in 1..MaxLogins, L!Succeed(k, n) PROVE NoneEmpty'
  BY <1>3 DEF L!Succeed, L!Restrict, NoneEmpty
<1>4. CASE UNCHANGED hits
  BY <1>4 DEF NoneEmpty
<1>. QED
  BY <1>1, <1>2, <1>3, <1>4 DEF L!Next, L!Tick, L!Fail, L!vars

\* "drop keys with no recent hits once the map grows large": the sweep never drops
\* an address, however large the map and however old its hits, because no list it
\* meets is empty (loginLimiter.allow).
THEOREM SweepDropsNothing ==
  L!Spec => [][\A k \in Keys : L!Admit(k) => DOMAIN hits' = DOMAIN hits \cup {k}]_L!vars
<1>1. L!Init => NoneEmpty
  BY DEF L!Init, NoneEmpty
<1>2. NoneEmpty => \A k \in Keys : L!Admit(k) => DOMAIN hits' = DOMAIN hits \cup {k}
  <2>. SUFFICES ASSUME NoneEmpty, NEW k \in Keys, L!Admit(k)
                PROVE  DOMAIN hits' = DOMAIN hits \cup {k}
    OBVIOUS
  <2>1. hits' = L!Put(k, L!Keep(k) \cup {[n |-> logins + 1, at |-> time]})
    BY SweepIdle
  <2>. QED
    BY <2>1 DEF L!Put
<1>3. L!Spec => []NoneEmpty
  BY <1>1, NoneEmptyInductive, LimiterInvariant, PTL DEF L!Spec
<1>. QED
  BY <1>2, <1>3, PTL

-----------------------------------------------------------------------------
(* Setup *)

Pairs ==
  \A r, q \in Applicants : setupPc[r] = "insert" /\ setupPc[q] = "insert" => <<r, q>> \in met

Blind ==
  \A a \in admins, r \in Applicants :
    setupPc[r] = "insert" => <<a.by, r>> \in met /\ <<r, a.by>> \in met

Inserted ==
  \A a \in admins : setupPc[a.by] \in {"ok", "error"} /\ a.username = name[a.by]

SetupInv == S!TypeOK /\ Pairs /\ Blind /\ Inserted /\ S!SecondAdminOverlaps /\ S!AnswersTrue

\* The conjunction is inductive.
LEMMA SetupInductive == SetupInv /\ [S!Next]_S!vars => SetupInv'
<1> SUFFICES ASSUME SetupInv, [S!Next]_S!vars PROVE SetupInv'
  OBVIOUS
<1> USE DEF SetupInv, S!TypeOK, S!Answers, S!To
<1>1. ASSUME NEW r \in Applicants, S!Count(r) PROVE SetupInv'
  BY <1>1 DEF S!Count, Pairs, Blind, Inserted, S!SecondAdminOverlaps, S!AnswersTrue
<1>2. ASSUME NEW r \in Applicants, S!Reject(r) PROVE SetupInv'
  BY <1>2 DEF S!Reject, Pairs, Blind, Inserted, S!SecondAdminOverlaps, S!AnswersTrue
<1>3. ASSUME NEW r \in Applicants, S!BeginInsert(r) PROVE SetupInv'
  BY <1>3 DEF S!BeginInsert, S!NoneExists, Pairs, Blind, Inserted, S!SecondAdminOverlaps,
              S!AnswersTrue
<1>4. ASSUME NEW r \in Applicants, S!CommitInsert(r) PROVE SetupInv'
  <2>1. CASE S!NameFree(r) /\ admins' = admins \cup {[by |-> r, username |-> name[r]]}
             /\ (S!To(r, "ok") \/ S!To(r, "error")) /\ UNCHANGED <<name, met>>
    <3> setupPc[r] = "insert"
      BY <1>4 DEF S!CommitInsert
    <3>1. S!TypeOK'
      BY <2>1 DEF S!NameFree
    <3>2. Pairs' /\ Blind' /\ Inserted'
      BY <2>1 DEF Pairs, Blind, Inserted
    <3>3. S!SecondAdminOverlaps'
      <4> SUFFICES ASSUME NEW a \in admins', NEW b \in admins', a # b
                   PROVE  <<a.by, b.by>> \in met
        BY <2>1 DEF S!SecondAdminOverlaps
      <4>1. CASE a \in admins /\ b \in admins
        BY <4>1 DEF S!SecondAdminOverlaps
      <4>2. CASE a.by = r /\ b \in admins
        BY <4>2 DEF Blind
      <4>3. CASE a \in admins /\ b.by = r
        BY <4>3 DEF Blind
      <4>4. QED
        BY <2>1, <4>1, <4>2, <4>3
    <3>4. S!AnswersTrue'
      BY <2>1 DEF S!AnswersTrue
    <3>5. QED
      BY <3>1, <3>2, <3>3, <3>4
  <2>2. CASE S!To(r, "error") /\ UNCHANGED <<admins, name, met>>
    BY <1>4, <2>2 DEF S!CommitInsert, Pairs, Blind, Inserted, S!SecondAdminOverlaps,
                      S!AnswersTrue
  <2>3. QED
    BY <1>4, <2>1, <2>2 DEF S!CommitInsert, S!Refused
<1>5. CASE UNCHANGED S!vars
  BY <1>5 DEF S!vars, Pairs, Blind, Inserted, S!SecondAdminOverlaps, S!AnswersTrue
<1>6. QED
  BY <1>1, <1>2, <1>3, <1>4, <1>5 DEF S!Next

-----------------------------------------------------------------------------
(* Settings *)

Current ==
  /\ putPc \in [Handlers -> {"idle", "loaded"}]
  /\ moved \in [Handlers -> BOOLEAN] /\ DOMAIN read = Handlers
  /\ \A h \in Handlers : putPc[h] = "loaded" /\ ~moved[h] => read[h] = panel

\* What a request loaded is the row until another one writes.
LEMMA CurrentStep == Current /\ [P!Next]_P!vars => Current'
<1> SUFFICES ASSUME Current, [P!Next]_P!vars PROVE Current'
  OBVIOUS
<1> USE DEF Current
<1>1. ASSUME NEW h \in Handlers, P!Load(h) PROVE Current'
  BY <1>1 DEF P!Load
<1>2. ASSUME NEW h \in Handlers, P!Refuse(h) \/ P!WriteFails(h) PROVE Current'
  BY <1>2 DEF P!Refuse, P!WriteFails, P!Finish
<1>3. ASSUME NEW h \in Handlers, P!Write(h) PROVE Current'
  BY <1>3 DEF P!Write, P!Finish
<1>4. CASE UNCHANGED P!vars
  BY <1>4 DEF P!vars
<1>5. QED
  BY <1>1, <1>2, <1>3, <1>4 DEF P!Next

-----------------------------------------------------------------------------
(* Clients *)

\* What the proofs need of the constants: a quota in bounds fits an int64.
ClientsSane ==
  /\ MaxQuota \in Nat /\ MaxInt \in Nat /\ MaxQuota <= MaxInt /\ MaxDays \in Nat
  /\ Nil \notin Int

Writing == {h \in Handlers : jobs[h].op \in {"create", "patch"}}

\* Of a request that is about to write.
Checked(h) ==
  LET ask == jobs[h].body
  IN /\ ask.quota # Nil => ask.quota \in 0..(2 * MaxQuota)
     /\ ask.days # Nil => ask.days \in 0..MaxDays

\* A row holds what its history says was asked for.
Stored(c) ==
  /\ asked[c].quota \in 0..(2 * MaxQuota)
  /\ asked[c].days \in Nat /\ asked[c].at \in Nat
  /\ rows[c].quota = C!Bytes(asked[c].quota)
  /\ rows[c].expire = IF asked[c].days = 0 THEN -1 ELSE asked[c].at + asked[c].days

LimitsInv ==
  /\ day \in Nat /\ usage \in [Ids -> Nat]
  /\ DOMAIN rows \subseteq Ids /\ DOMAIN rows \subseteq DOMAIN asked
  /\ DOMAIN jobs = Handlers
  /\ \A h \in Writing : jobs[h].id \in Ids /\ Checked(h)
  /\ \A c \in DOMAIN rows : Stored(c)

\* The tags of a list that passed the check.
Meant(list) ==
  \A e \in list : e.tag \in Builtins \/ (e.tag \in Tags /\ inbounds[e.tag] # "future")

ListsInv ==
  /\ inbounds \in [Tags -> {"future", "there", "gone"}] /\ DOMAIN jobs = Handlers
  /\ \A h \in Writing : jobs[h].body.list # Nil => Meant(jobs[h].body.list)
  /\ \A c \in DOMAIN rows : Meant(rows[c].list)

\* No step stores an entry whose tag was never there.
LEMMA ListsInductive == ListsInv /\ [C!Next]_C!vars => ListsInv'
<1> SUFFICES ASSUME ListsInv, [C!Next]_C!vars PROVE ListsInv'
  OBVIOUS
<1> USE DEF ListsInv, Meant, Writing
<1>1. CASE C!Day
  BY <1>1 DEF C!Day
<1>2. ASSUME NEW t \in Tags, C!MoveInbound(t) PROVE ListsInv'
  BY <1>2 DEF C!MoveInbound
<1>3. ASSUME NEW h \in Handlers, C!Create(h) PROVE ListsInv'
  BY <1>3 DEF C!Create, C!Inserted, C!At, C!Idle
<1>4. ASSUME NEW h \in Handlers, C!Patch(h) PROVE ListsInv'
  <2>1. CASE jobs[h].id \in DOMAIN rows
    BY <1>4, <2>1 DEF C!Patch, C!Updated, C!Given, C!Idle
  <2>2. CASE jobs[h].id \notin DOMAIN rows
    BY <1>4, <2>2 DEF C!Patch, C!Idle
  <2>3. QED
    BY <2>1, <2>2
<1>5. ASSUME NEW c \in Ids, C!Delete(c) \/ C!Use(c) PROVE ListsInv'
  BY <1>5 DEF C!Delete, C!Use
<1>6. ASSUME NEW c \in Ids, NEW h \in Handlers, NEW ask \in Forms,
             C!CreateBegin(h, c, ask) \/ C!PatchBegin(h, c, ask)
      PROVE  ListsInv'
  <2>1. PICK op \in {"create", "patch"} : C!Begin(h, op, c, ask)
    BY <1>6 DEF C!CreateBegin, C!PatchBegin
  <2>2. ask.list # Nil => Meant(ask.list)
    BY <2>1 DEF C!Begin, C!Accepted, C!Known
  <2>3. QED
    BY <2>1, <2>2 DEF C!Begin
<1>7. CASE UNCHANGED C!vars
  BY <1>7 DEF C!vars
<1>8. QED
  BY <1>1, <1>2, <1>3, <1>4, <1>5, <1>6, <1>7 DEF C!Next

\* Halves are cut off.
LEMMA Halved == \A q \in Nat : q \div 2 \in Nat /\ 2 * (q \div 2) <= q /\ q < 2 * (q \div 2) + 2
  OBVIOUS

\* No step stores or enforces a limit that was not asked for.
LEMMA LimitsInductive == ClientsSane /\ LimitsInv /\ [C!Next]_C!vars => LimitsInv'
<1> SUFFICES ASSUME ClientsSane, LimitsInv, [C!Next]_C!vars PROVE LimitsInv'
  OBVIOUS
<1> USE DEF ClientsSane, LimitsInv, Writing, Checked, Stored, C!Bytes
<1>1. CASE C!Day
  BY <1>1 DEF C!Day
<1>2. ASSUME NEW t \in Tags, C!MoveInbound(t) PROVE LimitsInv'
  BY <1>2 DEF C!MoveInbound
<1>3. ASSUME NEW h \in Handlers, C!Create(h) PROVE LimitsInv'
  <2> DEFINE ask == jobs[h].body
  <2>1. h \in Writing /\ Checked(h)
    BY <1>3 DEF C!Create
  <2> PICK c \in Ids : c = jobs[h].id
    BY <2>1
  <2>2. /\ asked' = C!At(asked, c, [quota |-> IF ask.quota = Nil THEN 0 ELSE ask.quota,
                                    days |-> IF ask.days = Nil THEN 0 ELSE ask.days,
                                    at |-> day])
        /\ rows' = C!At(rows, c, C!Inserted(ask))
        /\ jobs' = [jobs EXCEPT ![h] = C!Idle] /\ UNCHANGED <<usage, day>>
    BY <1>3 DEF C!Create
  <2>3. Stored(c)'
    BY <2>1, <2>2 DEF C!At, C!Inserted, C!ExpireIn, C!NoExpiry
  <2>4. \A d \in DOMAIN rows \ {c} : Stored(d)'
    BY <2>2 DEF C!At
  <2>5. DOMAIN rows' = DOMAIN rows \cup {c} /\ DOMAIN asked' = DOMAIN asked \cup {c}
    BY <2>2 DEF C!At
  <2>6. /\ DOMAIN jobs' = Handlers
        /\ \A g \in Writing' : jobs'[g].id \in Ids /\ Checked(g)'
    BY <2>2 DEF C!Idle
  <2>7. \A d \in DOMAIN rows' : Stored(d)'
    <3> HIDE DEF Stored
    <3>1. QED
      BY <2>3, <2>4, <2>5
  <2>8. QED
    <3> HIDE DEF Stored, Checked, Writing
    <3>1. QED
      BY <2>2, <2>5, <2>6, <2>7
<1>4. ASSUME NEW h \in Handlers, C!Patch(h) PROVE LimitsInv'
  <2> DEFINE ask == jobs[h].body
  <2>1. h \in Writing /\ Checked(h)
    BY <1>4 DEF C!Patch
  <2> PICK c \in Ids : c = jobs[h].id
    BY <2>1
  <2>2. jobs' = [jobs EXCEPT ![h] = C!Idle] /\ UNCHANGED <<usage, day>>
    BY <1>4 DEF C!Patch
  <2>3. /\ DOMAIN jobs' = Handlers
        /\ \A g \in Writing' : jobs'[g].id \in Ids /\ Checked(g)'
    BY <2>2 DEF C!Idle
  <2>4. CASE c \in DOMAIN rows
    <3>1. /\ rows' = [rows EXCEPT ![c] = C!Updated(rows[c], ask)]
          /\ asked' = [asked EXCEPT ![c] =
               [quota |-> IF ask.quota = Nil THEN asked[c].quota ELSE ask.quota,
                days |-> IF ask.days = Nil THEN asked[c].days ELSE ask.days,
                at |-> IF ask.days = Nil THEN asked[c].at ELSE day]]
      BY <1>4, <2>4 DEF C!Patch
    <3>2. /\ asked'[c].quota = IF ask.quota = Nil THEN asked[c].quota ELSE ask.quota
          /\ asked'[c].days = IF ask.days = Nil THEN asked[c].days ELSE ask.days
          /\ asked'[c].at = IF ask.days = Nil THEN asked[c].at ELSE day
      BY <2>4, <3>1
    <3>3. rows'[c].quota = IF ask.quota = Nil THEN rows[c].quota ELSE C!Bytes(ask.quota)
      <4>1. ask.quota # Nil => C!Bytes(ask.quota) \in Nat
        BY <2>1, Halved
      <4>2. QED
        BY <2>4, <3>1, <4>1 DEF C!Updated, C!Given
    <3>4. rows'[c].expire = IF ask.days = Nil THEN rows[c].expire ELSE C!ExpireIn(ask.days)
      BY <2>1, <2>4, <3>1 DEF C!Updated, C!Given, C!ExpireIn, C!NoExpiry
    <3>5. Stored(c)'
      BY <2>1, <2>2, <2>4, <3>2, <3>3, <3>4 DEF C!ExpireIn, C!NoExpiry
    <3>6. QED
      BY <2>2, <2>3, <2>4, <3>1, <3>5
  <2>5. CASE c \notin DOMAIN rows
    BY <1>4, <2>2, <2>3, <2>5 DEF C!Patch
  <2>6. QED
    BY <2>4, <2>5
<1>5. ASSUME NEW c \in Ids, C!Delete(c) \/ C!Use(c) PROVE LimitsInv'
  BY <1>5 DEF C!Delete, C!Use
<1>6. ASSUME NEW c \in Ids, NEW h \in Handlers, NEW ask \in Forms,
             C!CreateBegin(h, c, ask) \/ C!PatchBegin(h, c, ask)
      PROVE  LimitsInv'
  <2>1. PICK op \in {"create", "patch"} : C!Begin(h, op, c, ask)
    BY <1>6 DEF C!CreateBegin, C!PatchBegin
  <2>2. QED
    BY <2>1 DEF C!Begin, C!Accepted, C!QuotaInBounds
<1>7. CASE UNCHANGED C!vars
  BY <1>7 DEF C!vars
<1>8. QED
  BY <1>1, <1>2, <1>3, <1>4, <1>5, <1>6, <1>7 DEF C!Next

-----------------------------------------------------------------------------
(* UseLive *)

Timers ==
  /\ retry => ws \in {"none", "closed"}
  /\ alive /\ failTimer => ws = "connecting"

FeedInv == U!TypeOK /\ Timers /\ U!OneTransport /\ U!NeverStuck /\ U!UnmountedIsQuiet

\* Asking the poller to start: while the effect is mounted it runs afterwards.
LEMMA Polled ==
  ASSUME MaxInFlight \in Nat, U!TypeOK, U!StartPolling
  PROVE  /\ poll' \in BOOLEAN /\ (poll' => alive) /\ (alive => poll')
         /\ inFlight' \in 0..MaxInFlight
         /\ mode' \in {"init", "ws", "poll"}
<1>1. CASE poll \/ ~alive
  BY <1>1, Zenon DEF U!StartPolling, U!TypeOK
<1>2. CASE ~(poll \/ ~alive)
  <2>1. /\ poll' = TRUE /\ alive /\ mode' = "poll"
        /\ inFlight < MaxInFlight /\ inFlight' = inFlight + 1
    BY <1>2, Zenon DEF U!StartPolling
  <2>2. inFlight' \in 0..MaxInFlight
    BY <2>1 DEF U!TypeOK
  <2>3. QED
    BY <2>1, <2>2, Zenon
<1>3. QED
  BY <1>1, <1>2

\* The conjunction is inductive.
LEMMA FeedInductive ==
  ASSUME MaxInFlight \in Nat, FeedInv, [U!Next]_U!vars
  PROVE  FeedInv'
<1> USE DEF FeedInv, U!TypeOK, Timers, U!OneTransport, U!NeverStuck, U!UnmountedIsQuiet
<1>1. CASE U!FailTimer
  <2>1. CASE alive /\ U!StillConnecting
    <3>1. U!StartPolling /\ failTimer' = FALSE /\ ws' = "closing" /\ alive' = alive
          /\ retry' = retry /\ fails' = fails /\ ws = "connecting"
      BY <1>1, <2>1, Zenon DEF U!FailTimer
    <3>2. QED
      BY <2>1, <3>1, Polled, Zenon
  <2>2. CASE ~(alive /\ U!StillConnecting)
    BY <1>1, <2>2, Zenon DEF U!FailTimer, U!StillConnecting
  <2>3. QED
    BY <2>1, <2>2
<1>2. CASE U!OnOpen
  <2>1. fails' \in 0..2
    BY <1>2 DEF U!OnOpen
  <2>2. QED
    BY <1>2, <2>1, Zenon DEF U!OnOpen, U!PollAfterOpen
<1>3. CASE U!OnMessage
  BY <1>3 DEF U!OnMessage
<1>4. CASE U!OnClose
  <2>1. /\ alive /\ alive' = alive /\ ws' = "closed" /\ failTimer' = FALSE
        /\ fails' = IF fails = 2 THEN 2 ELSE fails + 1
    BY <1>4, Zenon DEF U!OnClose
  <2>2. fails' \in 0..2
    BY <2>1
  <2>3. CASE U!GivesUp(fails + 1)
    <3>1. U!StartPolling /\ retry' = retry
      BY <1>4, <2>3, Zenon DEF U!OnClose
    <3>2. QED
      BY <2>1, <2>2, <3>1, Polled, Zenon
  <2>4. CASE ~U!GivesUp(fails + 1)
    <3>1. retry' = TRUE /\ poll' = poll /\ inFlight' = inFlight /\ mode' = mode
      BY <1>4, <2>4, Zenon DEF U!OnClose
    <3>2. QED
      BY <2>1, <2>2, <3>1, Zenon
  <2>5. QED
    BY <2>3, <2>4
<1>5. CASE U!Retry
  <2> /\ retry' = FALSE /\ alive' = alive /\ fails' = fails
      /\ ws \in {"none", "closed"}
    BY <1>5, Zenon DEF U!Retry
  <2>1. CASE /\ alive /\ ws' = "connecting" /\ failTimer' = TRUE
             /\ poll' = poll /\ inFlight' = inFlight /\ mode' = mode
    BY <2>1, Zenon
  <2>2. CASE alive /\ U!StartPolling /\ ws' = ws /\ failTimer' = failTimer
    BY <2>2, Polled, Zenon
  <2>3. CASE /\ ~alive /\ ws' = ws /\ failTimer' = failTimer
             /\ poll' = poll /\ inFlight' = inFlight /\ mode' = mode
    BY <2>3, Zenon
  <2>4. QED
    BY <1>5, <2>1, <2>2, <2>3, Zenon DEF U!Retry, U!Mounted
<1>6. CASE U!PollTick
  BY <1>6 DEF U!PollTick
<1>7. CASE U!PollAnswered
  BY <1>7 DEF U!PollAnswered
<1>8. CASE U!Unmount
  BY <1>8 DEF U!Unmount, U!PollAfterUnmount
<1>9. CASE UNCHANGED U!vars
  BY <1>9 DEF U!vars
<1>10. QED
  BY <1>1, <1>2, <1>3, <1>4, <1>5, <1>6, <1>7, <1>8, <1>9 DEF U!Next

-----------------------------------------------------------------------------

\* The conjunction holds throughout.
LEMMA SetupInvariant ==
  ASSUME Names # {}
  PROVE  S!Spec => []SetupInv
<1>1. S!Init => SetupInv
  <2> SUFFICES ASSUME S!Init PROVE SetupInv
    OBVIOUS
  <2>1. (CHOOSE n \in Names : TRUE) \in Names
    OBVIOUS
  <2>2. S!TypeOK
    BY <2>1 DEF S!Init, S!TypeOK
  <2>3. QED
    BY <2>2 DEF S!Init, SetupInv, Pairs, Blind, Inserted, S!SecondAdminOverlaps, S!AnswersTrue
<1>2. QED
  BY <1>1, SetupInductive, PTL DEF S!Spec

\* Setup: a second admin comes only from two INSERTs that ran at the same time,
\* for any requests and names (setup).
THEOREM SecondAdminsOverlap ==
  ASSUME Names # {}
  PROVE  S!Spec => []SecondAdminOverlaps
<1>1. SetupInv => SecondAdminOverlaps
  BY DEF SetupInv, SecondAdminOverlaps
<1>2. QED
  BY <1>1, SetupInvariant, PTL

\* Setup: who is told "ok" is in the table, and who is refused was second (setup).
THEOREM AnswersAlwaysTrue ==
  ASSUME Names # {}
  PROVE  S!Spec => []AnswersTrue
<1>1. SetupInv => AnswersTrue
  BY DEF SetupInv, AnswersTrue
<1>2. QED
  BY <1>1, SetupInvariant, PTL

\* Settings: a setting that a body does not name changes only when another request
\* wrote the row since this one loaded it, for any settings, values and number of
\* requests at a time (putSettings).
THEOREM ResetsBehind == P!Spec => ResetsOnlyBehind
<1>1. P!Init => Current
  BY DEF P!Init, Current
<1>2. Current /\ [P!Next]_P!vars => [\A h \in Handlers : P!Resets(h) => moved[h]]_P!vars
  <2> SUFFICES ASSUME Current, NEW h \in Handlers, P!Resets(h)
               PROVE  moved[h]
    OBVIOUS
  <2>1. PICK k \in P!Entries \ DOMAIN body[h] : panel'[k] # panel[k]
    BY DEF P!Resets
  <2>2. putPc[h] = "loaded" /\ panel' = P!Merge(read[h], body[h])
    BY DEF P!Resets, P!Write
  <2>3. panel'[k] = read[h][k]
    BY <2>1, <2>2 DEF P!Merge, P!Counts
  <2>4. QED
    BY <2>1, <2>2, <2>3 DEF Current
<1>3. QED
  BY <1>1, <1>2, CurrentStep, PTL DEF P!Spec, ResetsOnlyBehind, P!ResetsOnlyBehind

\* Clients: whatever is created and deleted while a request is under way, an entry of
\* a stored list that has no blanks around it grants its client something, unless its
\* inbound was deleted, for any clients, tags and bodies.  An entry with blanks is
\* stored and grants nothing (ListsGrant): nothing is claimed of it.
THEOREM PlainEntriesAlwaysGrant == C!Spec => []PlainEntriesGrant
<1>1. C!Init => ListsInv
  BY DEF C!Init, C!Idle, ListsInv, Writing
<1>2. ListsInv => PlainEntriesGrant
  BY DEF ListsInv, Meant, PlainEntriesGrant, C!PlainEntriesGrant, C!Granted, C!Deleted
<1>3. QED
  BY <1>1, <1>2, ListsInductive, PTL DEF C!Spec

\* Clients: the limits last asked for are those LoadClients enforces and the panel
\* shows, for any clients, bodies and bounds of which the one on the quota fits an
\* int64 (createClient, patchClient).
THEOREM LimitsAlwaysHold ==
  ASSUME ClientsSane
  PROVE  C!Spec => []LimitsHold
<1>1. C!Init => LimitsInv
  BY DEF C!Init, C!Idle, LimitsInv, Writing
<1>2. LimitsInv => LimitsHold
  <2> SUFFICES ASSUME LimitsInv, NEW c \in DOMAIN rows
               PROVE LET a == asked[c]
        inTime == a.days = 0 \/ day < a.at + a.days
        over == a.quota # 0 /\ 2 * usage[c] >= a.quota
        below == a.quota = 0 \/ 2 * usage[c] + 2 <= a.quota
    IN /\ inTime /\ below => C!Loaded(c)
       /\ C!Loaded(c) => inTime /\ (over => a.quota = 1)
       /\ C!Loaded(c) => C!Status(c) = "active"
       /\ C!Status(c) = "active" => C!Loaded(c) \/ day = rows[c].expire
    BY Zenon DEF LimitsHold, C!LimitsHold
  <2> DEFINE q == asked[c].quota
  <2>1. q \in Nat /\ q \div 2 <= MaxQuota
    BY Halved DEF LimitsInv, Stored, ClientsSane
  <2>2. rows[c].quota = q \div 2
    BY <2>1, Halved DEF LimitsInv, Stored, ClientsSane, C!Bytes
  <2>3. QED
    BY <2>1, <2>2, Halved DEF LimitsInv, Stored, C!Loaded, C!Status, C!Exhausted, C!NoExpiry
<1>3. LimitsInv /\ [C!Next]_C!vars => LimitsInv'
  BY LimitsInductive
<1>4. QED
  BY <1>1, <1>2, <1>3, PTL DEF C!Spec

\* The conjunction holds throughout.
LEMMA FeedInvariant ==
  ASSUME MaxInFlight \in Nat
  PROVE  U!Spec => []FeedInv
<1>1. U!Init => FeedInv
  <2>1. U!Init => inFlight \in 0..MaxInFlight /\ fails \in 0..2
    BY DEF U!Init
  <2>2. QED
    BY <2>1, Zenon DEF U!Init, FeedInv, U!TypeOK, Timers, U!OneTransport, U!NeverStuck,
                       U!UnmountedIsQuiet
<1>2. FeedInv /\ [U!Next]_U!vars => FeedInv'
  BY FeedInductive
<1>3. QED
  BY <1>1, <1>2, PTL DEF U!Spec

\* UseLive: the poller never runs beside an open socket, for any number of polls
\* under way (onopen, failTimer).
THEOREM AlwaysOneTransport ==
  ASSUME MaxInFlight \in Nat
  PROVE  U!Spec => []OneTransport
<1>1. FeedInv => OneTransport
  BY DEF FeedInv, OneTransport
<1>2. QED
  BY <1>1, FeedInvariant, PTL

\* UseLive: a mounted dashboard without a feed is about to get one, and nothing of
\* the effect is left once it is unmounted (tryWS, onclose, the cleanup).
THEOREM FeedNeverStuck ==
  ASSUME MaxInFlight \in Nat
  PROVE  U!Spec => [](NeverStuck /\ U!UnmountedIsQuiet)
<1>1. FeedInv => NeverStuck /\ U!UnmountedIsQuiet
  BY DEF FeedInv, NeverStuck
<1>2. QED
  BY <1>1, FeedInvariant, PTL

\* Every variable of the setup and of the feed keeps its type, for any applicants and
\* names, and any number of polls under way; a poller belongs to a mounted effect.
THEOREM SetupAndFeedTyped ==
  ASSUME Names # {}, MaxInFlight \in Nat
  PROVE  (S!Spec => []S!TypeOK) /\ (U!Spec => []U!TypeOK)
<1>1. (SetupInv => S!TypeOK) /\ (FeedInv => U!TypeOK)
  BY DEF SetupInv, FeedInv
<1>2. (S!Spec => []SetupInv) /\ (U!Spec => []FeedInv)
  BY SetupInvariant, FeedInvariant
<1>3. QED
  BY <1>1, <1>2, PTL

-----------------------------------------------------------------------------
(* What the rows may hold *)

\* What the model of the settings takes for granted: the three texts of a PUT, which
\* are no toggles, and a server name to begin with.
SettingsSane ==
  /\ Texts \subseteq {"reality_sni", "cfg_fmt", "address"}
  /\ Toggles \cap {"reality_sni", "cfg_fmt", "address"} = {}
  /\ Blank \in Values /\ Values \ {Blank} # {}

\* What each kind of key may hold.
LEMMA LegalCases ==
  ASSUME SettingsSane
  PROVE  /\ \A k \in Toggles : P!Legal(k) = BOOLEAN /\ P!Asked(k) = BOOLEAN \cup {Other}
         /\ \A k \in Texts : P!Asked(k) = Values \cup {Invalid, Other}
         /\ P!Legal("cfg_fmt") = Values \cup {Invalid}
         /\ P!Legal("address") = Values
         /\ P!Legal("reality_sni") = Values \ {Blank}
  BY DEF SettingsSane, P!Legal, P!Asked

\* What a body that is not refused makes of a legal row is legal.
LEMMA MergeLegal ==
  ASSUME SettingsSane, NEW p, NEW b, P!IsPanel(p), DOMAIN b \subseteq P!Entries,
         \A k \in DOMAIN b : b[k] \in P!Asked(k), ~P!Refused(b)
  PROVE  P!IsPanel(P!Merge(p, b))
<1> SUFFICES ASSUME NEW k \in P!Entries PROVE P!Merge(p, b)[k] \in P!Legal(k)
  BY DEF P!IsPanel, P!Merge
<1>1. p[k] \in P!Legal(k)
  BY DEF P!IsPanel
<1>2. ASSUME P!Counts(b, k) PROVE b[k] \in P!Legal(k)
  <2>1. k \in DOMAIN b /\ b[k] \in P!Asked(k) /\ b[k] # Other
    BY <1>2 DEF P!Counts
  <2>2. CASE k \in Toggles
    BY <2>1, <2>2, LegalCases
  <2>3. CASE k = "cfg_fmt" /\ k \in Texts
    BY <2>1, <2>3, LegalCases
  <2>4. CASE k = "address" /\ k \in Texts
    BY <2>1, <2>4, LegalCases DEF P!Refused
  <2>5. CASE k = "reality_sni" /\ k \in Texts
    BY <1>2, <2>1, <2>5, LegalCases DEF P!Refused, P!Counts
  <2> QED
    BY <2>2, <2>3, <2>4, <2>5 DEF P!Entries, SettingsSane
<1> QED
  BY <1>1, <1>2 DEF P!Merge

\* The settings a panel starts with are legal.
LEMMA DefaultLegal == SettingsSane => P!IsPanel(P!Default)
<1> SUFFICES ASSUME SettingsSane, NEW k \in P!Entries PROVE P!Default[k] \in P!Legal(k)
  BY DEF P!IsPanel, P!Default
<1>1. CASE k \in Toggles
  BY <1>1, LegalCases DEF P!Default
<1>2. CASE k \notin Toggles /\ k = "address"
  BY <1>2, LegalCases DEF P!Default, SettingsSane
<1>3. CASE k \notin Toggles /\ k # "address"
  <2>1. P!Default[k] \in Values \ {Blank}
    BY <1>3 DEF P!Default, SettingsSane
  <2>2. k \in {"cfg_fmt", "reality_sni"}
    BY <1>3 DEF P!Entries, SettingsSane
  <2> QED
    BY <2>1, <2>2, LegalCases
<1> QED
  BY <1>1, <1>2, <1>3

\* Types, and the domains that the updates of single entries need.
PutsInv == P!TypeOK /\ DOMAIN read = Handlers /\ DOMAIN body = Handlers

\* Every step of a PUT keeps them.
LEMMA PutsStep == SettingsSane /\ PutsInv /\ [P!Next]_P!vars => PutsInv'
<1> SUFFICES ASSUME SettingsSane, PutsInv, [P!Next]_P!vars PROVE PutsInv'
  OBVIOUS
<1> USE DEF PutsInv, P!TypeOK
<1>d. P!IsPanel(P!Default)
  BY DefaultLegal
<1>n. DOMAIN P!None = {}
  BY DEF P!None
<1>1. ASSUME NEW h \in Handlers, P!Load(h) PROVE PutsInv'
  <2>1. PICK b \in P!Bodies : body' = [body EXCEPT ![h] = b]
    BY <1>1 DEF P!Load
  <2>2. DOMAIN b \subseteq P!Entries /\ \A k \in DOMAIN b : b[k] \in P!Asked(k)
    BY DEF P!Bodies
  <2> QED
    BY <1>1, <2>1, <2>2 DEF P!Load
<1>2. ASSUME NEW h \in Handlers, P!Refuse(h) \/ P!WriteFails(h) PROVE PutsInv'
  BY <1>2, <1>d, <1>n DEF P!Refuse, P!WriteFails, P!Finish
<1>3. ASSUME NEW h \in Handlers, P!Write(h) PROVE PutsInv'
  <2>1. P!IsPanel(panel')
    BY <1>3, MergeLegal DEF P!Write
  <2>2. moved' \in [Handlers -> BOOLEAN]
    BY <1>3 DEF P!Write
  <2> QED
    BY <1>3, <1>d, <1>n, <2>1, <2>2 DEF P!Write, P!Finish
<1>4. CASE UNCHANGED P!vars
  BY <1>4 DEF P!vars
<1> QED
  BY <1>1, <1>2, <1>3, <1>4 DEF P!Next

\* Settings: whatever bodies are merged, however PUTs overlap, the row of the panel
\* never holds a name that is no host, an empty server name or a toggle that is not
\* one (putSettings).
THEOREM SettingsAlwaysLegal ==
  ASSUME SettingsSane
  PROVE  P!Spec => []P!TypeOK
<1>1. P!Init => PutsInv
  <2> SUFFICES ASSUME P!Init PROVE PutsInv
    OBVIOUS
  <2>1. P!IsPanel(P!Default)
    BY DefaultLegal
  <2> QED
    BY <2>1 DEF P!Init, P!None, PutsInv, P!TypeOK
<1>2. PutsInv /\ [P!Next]_P!vars => PutsInv'
  BY PutsStep
<1>3. PutsInv => P!TypeOK
  BY DEF PutsInv
<1> QED
  BY <1>1, <1>2, <1>3, PTL DEF P!Spec

\* What a list of a body names is written as a tag is.
FormsSane == \A b \in Forms : b.list # Nil => b.list \subseteq C!Entry

RowType ==
  [quota: 0..MaxInt, expire: {C!NoExpiry} \cup 0..(MaxDays + MaxDays), list: SUBSET C!Entry]

\* Types of the clients, of which the quota and the expiry rest on the check of the
\* request that wrote them.
ClientsTyped ==
  /\ \A c \in DOMAIN rows : rows[c] \in RowType
  /\ DOMAIN rows \subseteq DOMAIN asked /\ DOMAIN asked \subseteq Ids
  /\ usage \in [Ids -> 0..MaxUsage]
  /\ inbounds \in [Tags -> {"future", "there", "gone"}]
  /\ \A h \in Handlers :
       jobs[h] = C!Idle \/ (jobs[h].op \in {"create", "patch"} /\ jobs[h].body \in Forms)
  /\ day \in 0..MaxDays
  /\ DOMAIN jobs = Handlers
  /\ \A h \in Writing : jobs[h].id \in Ids /\ Checked(h)

\* A checked quota fits, and a checked number of days ends within the bounds.
LEMMA CheckedFits ==
  ASSUME ClientsSane, day \in 0..MaxDays
  PROVE  /\ \A q \in 0..(2 * MaxQuota) : C!Bytes(q) \in 0..MaxInt
         /\ \A d \in 0..MaxDays :
              C!ExpireIn(d) \in {C!NoExpiry} \cup 0..(MaxDays + MaxDays)
<1>1. ASSUME NEW q \in 0..(2 * MaxQuota) PROVE C!Bytes(q) \in 0..MaxInt
  BY Halved DEF ClientsSane, C!Bytes
<1>2. ASSUME NEW d \in 0..MaxDays
      PROVE  C!ExpireIn(d) \in {C!NoExpiry} \cup 0..(MaxDays + MaxDays)
  BY DEF ClientsSane, C!ExpireIn
<1> QED
  BY <1>1, <1>2

\* Every step keeps the types.
LEMMA ClientsTypeStep ==
  ClientsSane /\ FormsSane /\ MaxUsage \in Nat /\ ClientsTyped /\ [C!Next]_C!vars => ClientsTyped'
<1> SUFFICES ASSUME ClientsSane, FormsSane, MaxUsage \in Nat, ClientsTyped, [C!Next]_C!vars
             PROVE  ClientsTyped'
  OBVIOUS
<1> USE DEF ClientsTyped
<1>1. CASE C!Day
  <2>1. day' \in 0..MaxDays
    BY <1>1 DEF C!Day, ClientsSane
  <2> QED
    BY <1>1, <2>1 DEF C!Day, Writing, Checked
<1>2. ASSUME NEW t \in Tags, C!MoveInbound(t) PROVE ClientsTyped'
  BY <1>2 DEF C!MoveInbound, Writing, Checked
<1>i. ASSUME NEW h \in Handlers, jobs' = [jobs EXCEPT ![h] = C!Idle]
      PROVE  /\ \A g \in Handlers :
                  \/ jobs'[g] = C!Idle
                  \/ jobs'[g].op \in {"create", "patch"} /\ jobs'[g].body \in Forms
             /\ DOMAIN jobs' = Handlers
             /\ \A g \in Writing' : jobs'[g].id \in Ids /\ Checked(g)'
  BY <1>i DEF Writing, Checked, C!Idle
<1>3. ASSUME NEW h \in Handlers, C!Create(h) PROVE ClientsTyped'
  <2> DEFINE ask == jobs[h].body
  <2>1. h \in Writing /\ Checked(h) /\ ask \in Forms /\ jobs[h].id \in Ids
    BY <1>3 DEF C!Create, C!Idle, Writing
  <2> PICK c \in Ids : c = jobs[h].id
    BY <2>1
  <2>2. /\ rows' = C!At(rows, c, C!Inserted(ask)) /\ UNCHANGED <<usage, inbounds, day>>
        /\ jobs' = [jobs EXCEPT ![h] = C!Idle]
        /\ DOMAIN asked' = DOMAIN asked \cup {c}
    BY <1>3 DEF C!Create, C!At
  <2>3. C!Inserted(ask) \in RowType
    <3>1. (IF ask.quota = Nil THEN 0 ELSE C!Bytes(ask.quota)) \in 0..MaxInt
      BY <2>1, CheckedFits DEF Checked, ClientsSane
    <3>2. (IF ask.days = Nil THEN C!NoExpiry ELSE C!ExpireIn(ask.days))
            \in {C!NoExpiry} \cup 0..(MaxDays + MaxDays)
      BY <2>1, CheckedFits DEF Checked
    <3>3. (IF ask.list = Nil THEN {} ELSE ask.list) \in SUBSET C!Entry
      BY <2>1 DEF FormsSane
    <3> QED
      BY <3>1, <3>2, <3>3 DEF C!Inserted, RowType
  <2>4. /\ DOMAIN rows' = DOMAIN rows \cup {c}
        /\ \A d \in DOMAIN rows' : rows'[d] \in RowType
    BY <2>2, <2>3 DEF C!At
  <2> QED
    BY <1>i, <2>2, <2>4
<1>4. ASSUME NEW h \in Handlers, C!Patch(h) PROVE ClientsTyped'
  <2> DEFINE ask == jobs[h].body
  <2>1. h \in Writing /\ Checked(h) /\ ask \in Forms /\ jobs[h].id \in Ids
    BY <1>4 DEF C!Patch, C!Idle, Writing
  <2> PICK c \in Ids : c = jobs[h].id
    BY <2>1
  <2>2. UNCHANGED <<usage, inbounds, day>> /\ jobs' = [jobs EXCEPT ![h] = C!Idle]
    BY <1>4 DEF C!Patch
  <2>3. CASE c \in DOMAIN rows
    <3>1. rows' = [rows EXCEPT ![c] = C!Updated(rows[c], ask)] /\ DOMAIN asked' = DOMAIN asked
      BY <1>4, <2>3 DEF C!Patch
    <3>2. C!Updated(rows[c], ask) \in RowType
      <4>1. rows[c] \in RowType
        BY <2>3
      <4>2. /\ ask.quota # Nil => C!Bytes(ask.quota) \in 0..MaxInt
            /\ ask.days # Nil =>
                 C!ExpireIn(ask.days) \in {C!NoExpiry} \cup 0..(MaxDays + MaxDays)
            /\ ask.list # Nil => ask.list \in SUBSET C!Entry
        BY <2>1, CheckedFits DEF Checked, FormsSane
      <4>3. C!Updated(rows[c], ask).quota \in 0..MaxInt
        BY <4>1, <4>2 DEF C!Updated, C!Given, RowType
      <4>4. C!Updated(rows[c], ask).expire \in {C!NoExpiry} \cup 0..(MaxDays + MaxDays)
        BY <4>1, <4>2 DEF C!Updated, C!Given, RowType
      <4>5. C!Updated(rows[c], ask).list \in SUBSET C!Entry
        BY <4>1, <4>2 DEF C!Updated, C!Given, RowType
      <4> QED
        BY <4>3, <4>4, <4>5 DEF C!Updated, RowType
    <3> QED
      BY <1>i, <2>2, <3>1, <3>2
  <2>4. CASE c \notin DOMAIN rows
    BY <1>4, <1>i, <2>2, <2>4 DEF C!Patch
  <2> QED
    BY <2>3, <2>4
<1>5. ASSUME NEW c \in Ids, C!Delete(c) PROVE ClientsTyped'
  BY <1>5 DEF C!Delete, Writing, Checked
<1>6. ASSUME NEW c \in Ids, C!Use(c) PROVE ClientsTyped'
  <2>1. usage' \in [Ids -> 0..MaxUsage]
    BY <1>6 DEF C!Use
  <2> QED
    BY <1>6, <2>1 DEF C!Use, Writing, Checked
<1>7. ASSUME NEW c \in Ids, NEW h \in Handlers, NEW ask \in Forms,
             C!CreateBegin(h, c, ask) \/ C!PatchBegin(h, c, ask)
      PROVE  ClientsTyped'
  <2>1. PICK op \in {"create", "patch"} : C!Begin(h, op, c, ask)
    BY <1>7 DEF C!CreateBegin, C!PatchBegin
  <2>2. jobs' = [jobs EXCEPT ![h] = [op |-> op, id |-> c, body |-> ask]]
        /\ UNCHANGED <<rows, usage, inbounds, day, asked>> /\ C!Accepted(ask)
    BY <2>1 DEF C!Begin
  <2>3. \A g \in Writing' : jobs'[g].id \in Ids /\ Checked(g)'
    BY <2>2 DEF Writing, Checked, C!Accepted, C!QuotaInBounds
  <2> QED
    BY <2>2, <2>3
<1>8. CASE UNCHANGED C!vars
  BY <1>8 DEF C!vars, Writing, Checked
<1> QED
  BY <1>1, <1>2, <1>3, <1>4, <1>5, <1>6, <1>7, <1>8 DEF C!Next

\* Clients: every row of the table stays within the bounds of its columns, for any
\* clients, bodies and bounds of which the one on the quota fits an int64: no request
\* gets a quota, an expiry or a list past its check (createClient, patchClient).
THEOREM ClientsAlwaysTyped ==
  ASSUME ClientsSane, FormsSane, MaxUsage \in Nat
  PROVE  C!Spec => []C!TypeOK
<1>1. C!Init => ClientsTyped
  BY DEF C!Init, C!Idle, ClientsTyped, Writing, ClientsSane
<1>2. ClientsTyped /\ [C!Next]_C!vars => ClientsTyped'
  BY ClientsTypeStep
<1>3. ClientsTyped => C!TypeOK
  BY DEF ClientsTyped, RowType, C!TypeOK
<1> QED
  BY <1>1, <1>2, <1>3, PTL DEF C!Spec
-----------------------------------------------------------------------------
(* The composition *)

\* The run of all parts together is, seen from each of them, a run of that part: what
\* is proved of a part alone holds in MCPanel's runs, and what TLC refutes there is
\* refuted of the part.
THEOREM PartsOnTheirOwn ==
  PanelSpec => Spec /\ L!Spec /\ S!Spec /\ P!Spec /\ C!Spec /\ H!Spec /\ U!Spec
<1>1. PanelInit => Init /\ L!Init /\ S!Init /\ P!Init /\ C!Init /\ H!Init /\ U!Init
  BY DEF PanelInit
<1>2. ASSUME [Step]_panelVars
      PROVE  /\ [Next]_vars /\ [L!Next]_limiterVars /\ [S!Next]_setupVars
             /\ [P!Next]_settingsVars /\ [C!Next]_clientsVars /\ [H!Next]_hubVars
             /\ [U!Next]_feedVars
  <2>1. CASE Limiter
    BY <2>1 DEF Limiter
  <2>2. CASE Admins
    BY <2>2 DEF Admins
  <2>3. CASE Setup
    BY <2>3 DEF Setup
  <2>4. CASE Settings
    BY <2>4 DEF Settings
  <2>5. CASE Clients
    BY <2>5 DEF Clients
  <2>6. CASE Sockets
    BY <2>6 DEF Sockets
  <2>7. CASE Feed
    BY <2>7 DEF Feed
  <2>8. CASE UNCHANGED panelVars
    BY <2>8 DEF panelVars
  <2>9. QED
    BY <1>2, <2>1, <2>2, <2>3, <2>4, <2>5, <2>6, <2>7, <2>8 DEF Step
<1>3. [Step]_panelVars =>
        /\ [Next]_vars /\ [L!Next]_L!vars /\ [S!Next]_S!vars /\ [P!Next]_P!vars
        /\ [C!Next]_C!vars /\ [H!Next]_H!vars /\ [U!Next]_U!vars
  BY <1>2 DEF limiterVars, setupVars, settingsVars, clientsVars, hubVars, feedVars,
              L!vars, S!vars, P!vars, C!vars, H!vars, U!vars
<1>4. QED
  BY <1>1, <1>3, PTL DEF PanelSpec, Spec, L!Spec, S!Spec, P!Spec, C!Spec, H!Spec, U!Spec
=============================================================================
