--------------------------------- MODULE Clients ---------------------------------
(***************************************************************************)
(* The clients an admin makes and changes (createClient, patchClient and   *)
(* deleteClient of api/server.go) and who decides about them afterwards:   *)
(* LoadClients of xray/config.go and the status of scanClient.             *)
(*                                                                         *)
(*  - A request looks up the tags of its protocol list and then writes     *)
(*    with one statement; between the two other requests do as they like.  *)
(*    A refused request changes nothing and is left out.                   *)
(*  - Name and note go the way of the quota and are left out, and so is    *)
(*    the restart at the end of every handler (Supervisor).                *)
(*  - quota_gb is a fraction; it is asked in half bytes here.  A tag is    *)
(*    written as it is or padded with blanks.  A day is a tick.            *)
(*  - Usage and tags come and go as in Traffic and Inbounds.               *)
(***************************************************************************)
EXTENDS Integers

CONSTANTS
  Ids, Handlers,
  Builtins, Tags, \* the protocol keys; the random tags of inbounds, used once
  Bodies,         \* of POST and PATCH: quota, days and list, each may be Nil
  Nil,
  MaxQuota,       \* the bound of quota_gb, in bytes
  MaxInt,         \* the largest int64
  MaxDays,        \* 36500
  MaxUsage, MaxClock \* bounds

VARIABLES
  rows,     \* clients: quota in bytes, expiry, list
  usage,    \* up + down
  inbounds, \* where each tag of Tags is
  req,      \* where each request is
  clock,
  asked     \* history: the quota in half bytes and the end of the last request that named them

vars == <<rows, usage, inbounds, req, clock, asked>>

NoExpiry == -1

\* A tag as it is written.
Entry == [tag: Builtins \cup Tags, padded: BOOLEAN]

Idle == [op |-> "idle"]

TypeOK ==
  /\ \A c \in DOMAIN rows :
       rows[c] \in [quota: 0..MaxInt, expire: {NoExpiry} \cup 0..(MaxClock + MaxDays),
                    list: SUBSET Entry]
  /\ DOMAIN rows \subseteq DOMAIN asked /\ DOMAIN asked \subseteq Ids
  /\ usage \in [Ids -> 0..MaxUsage]
  /\ inbounds \in [Tags -> {"future", "there", "gone"}]
  /\ \A h \in Handlers :
       req[h] = Idle \/ (req[h].op \in {"create", "patch"} /\ req[h].body \in Bodies)
  /\ clock \in 0..MaxClock

Init ==
  /\ rows = <<>> /\ asked = <<>>
  /\ usage = [c \in Ids |-> 0]
  /\ inbounds = [t \in Tags |-> "future"]
  /\ req = [h \in Handlers |-> Idle]
  /\ clock = 0

-----------------------------------------------------------------------------
(* Requests *)

\* Mutant of QuotaInBounds: a quota is only not negative.
QuotaInBoundsBelow(q) == q >= 0

\* "huge values would overflow int64 bytes"
QuotaInBounds(q) == q \in 0..(2 * MaxQuota)

\* Mutant of Known: when the tags cannot be read every tag passes.
KnownAll(read) == Builtins \cup Tags

\* validProtocolTags: the built-ins, and the tags of the table if it could be read.
Known(read) ==
  Builtins \cup (IF read THEN {t \in Tags : inbounds[t] = "there"} ELSE {})

Accepted(body) ==
  /\ body.quota # Nil => QuotaInBounds(body.quota)
  /\ body.days # Nil => body.days \in 0..MaxDays
  /\ body.list # Nil =>
       \E read \in BOOLEAN : \A e \in body.list : e.tag \in Known(read)

Begin(h, op, c, body) ==
  /\ req[h] = Idle
  /\ Accepted(body)
  /\ req' = [req EXCEPT ![h] = [op |-> op, id |-> c, body |-> body]]
  /\ UNCHANGED <<rows, usage, inbounds, clock, asked>>

Creating == {req[h].id : h \in {g \in Handlers : req[g].op = "create"}}

\* A new id; a PATCH has its id from the list of the clients.
CreateBegin(h, c, body) == c \notin DOMAIN asked \cup Creating /\ Begin(h, "create", c, body)
PatchBegin(h, c, body) == c \in DOMAIN asked /\ Begin(h, "patch", c, body)

\* int64(q * 2^30): fractions are cut off, what does not fit comes out negative and
\* is clamped to 0.
Bytes(q) == IF q \div 2 > MaxInt THEN 0 ELSE q \div 2

\* 0 days are no expiry.
ExpireIn(days) == IF days = 0 THEN NoExpiry ELSE clock + days

\* Mutant of Given: a field that is missing is 0, in a PATCH too.
GivenOrZero(field, old, zero) == IF field = Nil THEN zero ELSE field

\* COALESCE
Given(field, old, zero) == IF field = Nil THEN old ELSE field

\* INSERT: what is missing is 0, no expiry, no list.
Inserted(body) ==
  [quota |-> IF body.quota = Nil THEN 0 ELSE Bytes(body.quota),
   expire |-> IF body.days = Nil THEN NoExpiry ELSE ExpireIn(body.days),
   list |-> IF body.list = Nil THEN {} ELSE body.list]

\* UPDATE
Updated(row, body) ==
  [quota |-> Given(IF body.quota = Nil THEN Nil ELSE Bytes(body.quota), row.quota, 0),
   expire |-> Given(IF body.days = Nil THEN Nil ELSE ExpireIn(body.days), row.expire, NoExpiry),
   list |-> Given(body.list, row.list, {})]

\* Function f with v at c.
At(f, c, v) == [d \in DOMAIN f \cup {c} |-> IF d = c THEN v ELSE f[d]]

Create(h) ==
  /\ req[h].op = "create"
  /\ LET c == req[h].id
         body == req[h].body
     IN /\ rows' = At(rows, c, Inserted(body))
        /\ asked' = At(asked, c, [quota |-> IF body.quota = Nil THEN 0 ELSE body.quota,
                                  days |-> IF body.days = Nil THEN 0 ELSE body.days,
                                  at |-> clock])
  /\ req' = [req EXCEPT ![h] = Idle]
  /\ UNCHANGED <<usage, inbounds, clock>>

\* 404 when the row is gone by now.
Patch(h) ==
  /\ req[h].op = "patch"
  /\ LET c == req[h].id
         body == req[h].body
     IN IF c \in DOMAIN rows
        THEN /\ rows' = [rows EXCEPT ![c] = Updated(@, body)]
             /\ asked' = [asked EXCEPT ![c] =
                  [quota |-> IF body.quota = Nil THEN @.quota ELSE body.quota,
                   days |-> IF body.days = Nil THEN @.days ELSE body.days,
                   at |-> IF body.days = Nil THEN @.at ELSE clock]]
        ELSE UNCHANGED <<rows, asked>>
  /\ req' = [req EXCEPT ![h] = Idle]
  /\ UNCHANGED <<usage, inbounds, clock>>

\* Its usage goes with it (ON DELETE CASCADE).
Delete(c) ==
  /\ c \in DOMAIN rows
  /\ rows' = [d \in DOMAIN rows \ {c} |-> rows[d]]
  /\ usage' = [usage EXCEPT ![c] = 0]
  /\ UNCHANGED <<inbounds, req, clock, asked>>

-----------------------------------------------------------------------------
(* What happens around them *)

\* createInbound draws a tag, deleteInbound leaves the lists that name it alone.
MoveInbound(t) ==
  /\ \/ inbounds[t] = "future" /\ inbounds' = [inbounds EXCEPT ![t] = "there"]
     \/ inbounds[t] = "there" /\ inbounds' = [inbounds EXCEPT ![t] = "gone"]
  /\ UNCHANGED <<rows, usage, req, clock, asked>>

Use(c) ==
  /\ c \in DOMAIN rows /\ usage[c] < MaxUsage
  /\ usage' = [usage EXCEPT ![c] = @ + 1]
  /\ UNCHANGED <<rows, inbounds, req, clock, asked>>

Day ==
  /\ clock < MaxClock
  /\ clock' = clock + 1
  /\ UNCHANGED <<rows, usage, inbounds, req, asked>>

Next ==
  \/ Day
  \/ \E t \in Tags : MoveInbound(t)
  \/ \E h \in Handlers : Create(h) \/ Patch(h)
  \/ \E c \in Ids :
       \/ Delete(c) \/ Use(c)
       \/ \E h \in Handlers, body \in Bodies : CreateBegin(h, c, body) \/ PatchBegin(h, c, body)

Spec == Init /\ [][Next]_vars

-----------------------------------------------------------------------------
(* Who may use the server *)

\* The WHERE of LoadClients: who is in the running config.
Loaded(c) ==
  /\ rows[c].expire = NoExpiry \/ rows[c].expire > clock
  /\ rows[c].quota = 0 \/ rows[c].quota > usage[c]

\* Mutant of Exhausted: only above the quota.
ExhaustedAbove(c) == usage[c] > rows[c].quota

Exhausted(c) == usage[c] >= rows[c].quota

\* scanClient
Status(c) ==
  IF rows[c].quota > 0 /\ Exhausted(c) THEN "quota"
  ELSE IF rows[c].expire # NoExpiry /\ clock > rows[c].expire THEN "expired"
  ELSE "active"

\* "huge values would ... silently become unlimited": what the last requests asked
\* for, in gigabytes and days, is what LoadClients enforces and the panel shows,
\* through conversion, defaults and other requests: to the byte, except that a quota
\* below one byte is none, and to the moment of expiry (createClient, patchClient).
LimitsHold ==
  \A c \in DOMAIN rows :
    LET a == asked[c]
        inTime == a.days = 0 \/ clock < a.at + a.days
        over == a.quota # 0 /\ 2 * usage[c] >= a.quota
        below == a.quota = 0 \/ 2 * usage[c] + 2 <= a.quota
    IN /\ inTime /\ below => Loaded(c)
       /\ Loaded(c) => inTime /\ (over => a.quota = 1)
       /\ Loaded(c) => Status(c) = "active"
       /\ Status(c) = "active" => Loaded(c) \/ clock = rows[c].expire

\* What an entry of a list lets its client into: userProtocols, the inbounds and the
\* links compare it as it was stored; the check had trimmed it.  The toggles decide
\* after that (Supervisor).
Granted(e) ==
  IF e.padded THEN {}
  ELSE {x \in Builtins \cup {t \in Tags : inbounds[t] = "there"} : x = e.tag}

Deleted(e) == e.tag \in Tags /\ inbounds[e.tag] = "gone"

\* Whatever is created and deleted while a request is under way, and if the tags could
\* not be read: an entry of a stored list that is spelled as the tag is grants its
\* client something, unless its inbound was deleted since (validProtocolTags,
\* userProtocols).  Of an entry with blanks around it see ListsGrant.
PlainEntriesGrant ==
  \A c \in DOMAIN rows : \A e \in rows[c].list :
    e.padded \/ Granted(e) # {} \/ Deleted(e)

\* "an unknown tag silently yields a user with no credentials and an empty link list,
\* so reject it up front": a list that was let in and is not empty grants something,
\* unless an inbound it names was deleted.  createClient and patchClient store the
\* list untrimmed, so the code does not keep this.
ListsGrant ==
  \A c \in DOMAIN rows :
    rows[c].list # {} => \E e \in rows[c].list : Granted(e) # {} \/ Deleted(e)
=============================================================================
