----------------------------- MODULE Links_proofs -----------------------------
(***************************************************************************)
(* Proofs about Links, for any set of clients, custom inbounds and         *)
(* environments.                                                           *)
(***************************************************************************)
EXTENDS Links, SequenceTheorems, TLAPS

\* The rows of a table after one was appended, and after one was removed.
LEMMA AppendRows ==
  ASSUME NEW S, NEW s \in Seq(S), NEW e \in S
  PROVE  /\ Append(s, e) \in Seq(S) /\ Len(Append(s, e)) = Len(s) + 1
         /\ ToSet(Append(s, e)) = ToSet(s) \cup {e}
<1>1. /\ Append(s, e) \in Seq(S) /\ Len(Append(s, e)) = Len(s) + 1
      /\ \A i \in 1..Len(s) : Append(s, e)[i] = s[i]
      /\ Append(s, e)[Len(s) + 1] = e
  OBVIOUS
<1>2. ToSet(Append(s, e)) \subseteq ToSet(s) \cup {e}
  BY <1>1 DEF ToSet
<1>3. ToSet(s) \cup {e} \subseteq ToSet(Append(s, e))
  BY <1>1 DEF ToSet
<1>. QED
  BY <1>1, <1>2, <1>3

\* RemoveAt leaves what was there, one shorter.
LEMMA RemoveRows ==
  ASSUME NEW S, NEW s \in Seq(S), NEW i \in DOMAIN s
  PROVE  /\ RemoveAt(s, i) \in Seq(S) /\ Len(RemoveAt(s, i)) = Len(s) - 1
         /\ ToSet(RemoveAt(s, i)) \subseteq ToSet(s)
<1>. DEFINE a == SubSeq(s, 1, i - 1)
            b == SubSeq(s, i + 1, Len(s))
<1>1. i \in 1..Len(s) /\ Len(s) \in Nat
  OBVIOUS
<1>2. /\ a \in Seq(S) /\ Len(a) = i - 1
      /\ \A j \in 1..(i - 1) : a[j] = s[j]
  BY <1>1
<1>3. /\ b \in Seq(S) /\ Len(b) = Len(s) - i
      /\ \A j \in 1..(Len(s) - i) : b[j] = s[i + j]
  BY <1>1
<1>4. RemoveAt(s, i) = a \o b
  BY DEF RemoveAt
<1>. HIDE DEF a, b
<1>5. /\ a \o b \in Seq(S) /\ Len(a \o b) = Len(a) + Len(b)
      /\ \A j \in 1..(Len(a) + Len(b)) :
           (a \o b)[j] = IF j <= Len(a) THEN a[j] ELSE b[j - Len(a)]
  BY <1>2, <1>3, ConcatProperties
<1>6. \A j \in 1..Len(a \o b) : \E k \in 1..Len(s) : (a \o b)[j] = s[k]
  <2>. SUFFICES ASSUME NEW j \in 1..Len(a \o b)
                PROVE  \E k \in 1..Len(s) : (a \o b)[j] = s[k]
    OBVIOUS
  <2>0. j \in Nat /\ i \in Nat /\ 1 <= j /\ j <= Len(a) + Len(b) /\ Len(a) + Len(b) = Len(s) - 1
    BY <1>1, <1>2, <1>3, <1>5
  <2>1. CASE j <= i - 1
    <3>1. (a \o b)[j] = s[j] /\ j \in 1..Len(s)
      BY <1>1, <1>2, <1>5, <2>0, <2>1
    <3>. QED
      BY <3>1
  <2>2. CASE j > i - 1
    <3>1. PICK m \in 1..(Len(s) - i) : (a \o b)[j] = b[m]
      <4>1. Len(a) = i - 1 /\ Len(b) = Len(s) - i /\ ~ (j <= Len(a))
        BY <1>1, <1>2, <1>3, <2>0, <2>2
      <4>2. (a \o b)[j] = b[j - Len(a)]
        BY <1>5, <2>0, <4>1
      <4>3. j - Len(a) \in 1..(Len(s) - i)
        BY <1>1, <2>0, <2>2, <4>1
      <4>. QED
        BY <4>2, <4>3
    <3>2. b[m] = s[i + m] /\ i + m \in 1..Len(s)
      BY <1>1, <1>3, <2>0, <3>1
    <3>. QED
      BY <3>1, <3>2
  <2>. QED
    BY <2>0, <2>1, <2>2, <1>1
<1>7. Len(a \o b) = Len(s) - 1
  BY <1>1, <1>2, <1>3, <1>5
<1>8. ToSet(a \o b) \subseteq ToSet(s)
  <2>1. DOMAIN (a \o b) = 1..Len(a \o b) /\ DOMAIN s = 1..Len(s)
    BY <1>5
  <2>. QED
    BY <1>6, <2>1 DEF ToSet
<1>. QED
  BY <1>4, <1>5, <1>7, <1>8

\* Where the rows are after one was removed.
LEMMA RemovePlaces ==
  ASSUME NEW S, NEW s \in Seq(S), NEW k \in DOMAIN s
  PROVE  /\ DOMAIN RemoveAt(s, k) = 1..(Len(s) - 1)
         /\ \A i \in 1..(Len(s) - 1) :
              RemoveAt(s, k)[i] = IF i < k THEN s[i] ELSE s[i + 1]
<1>. DEFINE a == SubSeq(s, 1, k - 1)
            b == SubSeq(s, k + 1, Len(s))
<1>1. k \in 1..Len(s) /\ Len(s) \in Nat
  OBVIOUS
<1>2. /\ a \in Seq(S) /\ Len(a) = k - 1
      /\ \A j \in 1..(k - 1) : a[j] = s[j]
  BY <1>1
<1>3. /\ b \in Seq(S) /\ Len(b) = Len(s) - k
      /\ \A j \in 1..(Len(s) - k) : b[j] = s[k + j]
  BY <1>1
<1>4. RemoveAt(s, k) = a \o b
  BY DEF RemoveAt
<1>. HIDE DEF a, b
<1>5. /\ DOMAIN (a \o b) = 1..(Len(s) - 1)
      /\ \A j \in 1..(Len(s) - 1) :
           (a \o b)[j] = IF j <= k - 1 THEN a[j] ELSE b[j - (k - 1)]
  <2>1. Len(a \o b) = Len(s) - 1 /\ DOMAIN (a \o b) = 1..Len(a \o b)
    BY <1>1, <1>2, <1>3, ConcatProperties
  <2>. QED
    BY <1>1, <1>2, <1>3, <2>1, ConcatProperties
<1>6. ASSUME NEW i \in 1..(Len(s) - 1)
      PROVE  (a \o b)[i] = IF i < k THEN s[i] ELSE s[i + 1]
  <2>1. CASE i < k
    <3>1. i \in 1..(k - 1) /\ i <= k - 1
      BY <1>1, <2>1
    <3>. QED
      BY <1>2, <1>5, <2>1, <3>1
  <2>2. CASE ~ (i < k)
    <3>1. i - (k - 1) \in 1..(Len(s) - k) /\ ~ (i <= k - 1) /\ k + (i - (k - 1)) = i + 1
      BY <1>1, <2>2
    <3>. QED
      BY <1>3, <1>5, <2>2, <3>1
  <2>. QED
    BY <2>1, <2>2
<1>. QED
  BY <1>4, <1>5, <1>6

\* The stored settings keep their types and the table its limit
\* (handlers.go:345-354).
THEOREM TypeCorrect == Spec => []TypeOK
<1>1. Init => TypeOK
  <2>. SUFFICES ASSUME Init
                PROVE  TypeOK
    OBVIOUS
  <2>1. customs \in Seq(CustomRows) /\ Len(customs) <= MaxCustoms
    <3>1. customs = <<>>
      BY DEF Init
    <3>2. <<>> \in Seq(CustomRows) /\ Len(<<>>) = 0
      BY EmptySeq
    <3>. QED
      BY <3>1, <3>2, LinksAssumption
  <2>2. protos \in [Clients -> SUBSET Spellings]
    BY DEF Init
  <2>. QED
    BY <2>1, <2>2 DEF Init, TypeOK
<1>2. TypeOK /\ [Next]_vars => TypeOK'
  <2>. SUFFICES ASSUME TypeOK, [Next]_vars
                PROVE  TypeOK'
    OBVIOUS
  <2>1. ASSUME NEW key \in Builtins, PutSettings(key)
        PROVE  TypeOK'
    BY <2>1 DEF PutSettings, TypeOK
  <2>2. ASSUME NEW c \in Clients, NEW ks \in SUBSET Spellings, PatchClient(c, ks)
        PROVE  TypeOK'
    BY <2>2 DEF PatchClient, TypeOK
  <2>3. ASSUME NEW ib \in CustomRows, CreateInbound(ib)
        PROVE  TypeOK'
    BY <2>3, AppendRows, LinksAssumption DEF CreateInbound, BelowLimit, TypeOK
  <2>4. ASSUME NEW i \in DOMAIN customs, DeleteInbound(i)
        PROVE  TypeOK'
    BY <2>4, RemoveRows, LinksAssumption DEF DeleteInbound, TypeOK
  <2>5. ASSUME NEW c \in Clients, Lapse(c)
        PROVE  TypeOK'
    BY <2>5 DEF Lapse, TypeOK
  <2>6. CASE UNCHANGED vars
    BY <2>6 DEF vars, TypeOK
  <2>. QED
    BY <2>1, <2>2, <2>3, <2>4, <2>5, <2>6 DEF Next
<1>. QED
  BY <1>1, <1>2, PTL DEF Spec

\* Every row of the table passed createInbound's check of its combination.
RowsValid == \A ib \in ToSet(customs) : ib \in CustomRows /\ ValidCombination(ib)

\* The rows are valid throughout.
LEMMA RowsAlwaysValid == Spec => []RowsValid
<1>1. Init => RowsValid
  BY DEF Init, RowsValid, ToSet
<1>2. TypeOK /\ RowsValid /\ [Next]_vars => RowsValid'
  <2>. SUFFICES ASSUME TypeOK, RowsValid, [Next]_vars
                PROVE  RowsValid'
    OBVIOUS
  <2>1. ASSUME NEW ib \in CustomRows, CreateInbound(ib)
        PROVE  RowsValid'
    <3>1. ToSet(customs') = ToSet(customs) \cup {ib} /\ ValidCombination(ib)
      BY <2>1, AppendRows DEF CreateInbound, TypeOK
    <3>. QED
      BY <3>1 DEF RowsValid, ValidCombination
  <2>2. ASSUME NEW i \in DOMAIN customs, DeleteInbound(i)
        PROVE  RowsValid'
    <3>1. ToSet(customs') \subseteq ToSet(customs)
      BY <2>2, RemoveRows DEF DeleteInbound, TypeOK
    <3>. QED
      BY <3>1 DEF RowsValid, ValidCombination
  <2>3. CASE UNCHANGED customs
    BY <2>3 DEF RowsValid, ValidCombination
  <2>. QED
    BY <2>1, <2>2, <2>3 DEF Next, PutSettings, PatchClient, Lapse, vars
<1>. QED
  BY <1>1, <1>2, TypeCorrect, PTL DEF Spec

-----------------------------------------------------------------------------
(* Links and the server's config *)

\* A built-in link leads to its inbound of the server's config.
LEMMA BuiltinAccepted ==
  ASSUME TypeOK, NEW c \in active, NEW key \in Allowed(c), key = "vless-reality" => tcpReady
  PROVE  \E in \in Build : Accepts(in, BuiltinLink(key), c)
<1>1. key \in Builtins \cap global /\ key \in UserProtocols(c)
  BY DEF TypeOK, Allowed, UserProtocols
<1>2. ServerBuiltin(key) \in Build
  BY <1>1 DEF Build
<1>3. Accepts(ServerBuiltin(key), BuiltinLink(key), c)
  <2>1. CASE key = "vless-reality"
    BY <1>1, <2>1 DEF Accepts, Arrives, ServerBuiltin, BuiltinLink, Link
  <2>2. CASE key # "vless-reality"
    <3>1. LinkTLS(key) = ServerTLS(key)
      BY <1>1, <2>2 DEF Builtins, LinkTLS, ServerTLS
    <3>. QED
      BY <1>1, <2>2, <3>1 DEF Accepts, Arrives, ServerBuiltin, BuiltinLink, Link, AtEdge
  <2>. QED
    BY <2>1, <2>2
<1>. QED
  BY <1>2, <1>3

\* So does the link of a custom inbound the client is a member of.
LEMMA CustomAccepted ==
  ASSUME RowsValid, NEW c \in active, NEW ib \in ToSet(customs), Member(c, ib),
         NEW link \in CustomLinks(ib)
  PROVE  \E in \in Build : Accepts(in, link, c)
<1>1. ib \in CustomRows /\ ValidCombination(ib)
  BY DEF RowsValid
<1>2. ServerCustom(ib) \in Build /\ c \in CustomUsers(ib.tag)
  BY DEF Build, CustomUsers, Member
<1>3. Accepts(ServerCustom(ib), link, c)
  <2>1. CASE ib.security = "reality"
    <3>1. PICK at \in realityEndpoint(ib) :
            link = Link("vless", ib.network, "reality", Vision(ib.network), ib.path, at)
      BY <2>1 DEF CustomLinks
    <3>2. \/ at = [host |-> "tcp2", port |-> "tcp2port"] /\ ib.port = TCP2AppPort
          \/ at = [host |-> "addr", port |-> ib.port]
      BY DEF realityEndpoint
    <3>3. ib.protocol = "vless"
      BY <1>1, <2>1 DEF ValidCombination
    <3>. QED
      BY <1>2, <2>1, <3>1, <3>2, <3>3 DEF Accepts, Arrives, ServerCustom, Link
  <2>2. CASE ib.security # "reality"
    <3>1. ib.security = "tls"
      BY <1>1, <2>2, LinksAssumption
    <3>2. link = Link(ib.protocol, ib.network, "tls", "", ib.path, AtEdge)
      BY <2>2 DEF CustomLinks
    <3>. QED
      BY <1>2, <2>2, <3>1, <3>2 DEF Accepts, Arrives, ServerCustom, Link, AtEdge
  <2>. QED
    BY <2>1, <2>2
<1>. QED
  BY <1>2, <1>3

\* No share link is dead: the server's config that Build renders from the same
\* state lets its client in, on the same transport (links.go:113-214,
\* config.go:206-275).
THEOREM LinksAlwaysAccepted == Spec => []LinksAccepted
<1>1. ASSUME TypeOK, RowsValid
      PROVE  LinksAccepted
  <2>. SUFFICES ASSUME NEW c \in active, NEW link \in BuildLinks(c)
                PROVE  \E in \in Build : Accepts(in, link, c)
    BY DEF LinksAccepted
  <2>1. ASSUME NEW key \in Allowed(c), key = "vless-reality" => tcpReady,
               link = BuiltinLink(key)
        PROVE  \E in \in Build : Accepts(in, link, c)
    BY <1>1, <2>1, BuiltinAccepted
  <2>2. ASSUME NEW ib \in ToSet(customs), Member(c, ib), link \in CustomLinks(ib)
        PROVE  \E in \in Build : Accepts(in, link, c)
    BY <1>1, <2>2, CustomAccepted
  <2>. QED
    BY <2>1, <2>2 DEF BuildLinks
<1>. QED
  BY <1>1, TypeCorrect, RowsAlwaysValid, PTL

\* The panel shows a custom inbound as reachable exactly when it gives links
\* (server.go:927-931, links.go:101-111).
THEOREM ReachableFlagAlways == Spec => []ReachableFlag
<1>1. ASSUME TypeOK, RowsValid
      PROVE  ReachableFlag
  <2>. SUFFICES ASSUME NEW ib \in ToSet(customs)
                PROVE  Reachable(ib) <=> CustomLinks(ib) # {}
    BY DEF ReachableFlag
  <2>1. CASE ib.security = "reality"
    <3>1. Reachable(ib) <=> realityEndpoint(ib) # {}
      BY <2>1 DEF Reachable, realityEndpoint, tcpReady
    <3>. QED
      BY <2>1, <3>1 DEF CustomLinks
  <2>2. CASE ib.security # "reality"
    BY <2>2 DEF CustomLinks, Reachable
  <2>. QED
    BY <2>1, <2>2
<1>. QED
  BY <1>1, TypeCorrect, RowsAlwaysValid, PTL

-----------------------------------------------------------------------------
(* The client's JSON *)

\* Five built-in keys, each once, all but Reality.
LEMMA OrderFacts ==
  /\ Len(JSONOrder) = 5
  /\ \A i \in 1..5 : JSONOrder[i] \in Builtins \ {"vless-reality"}
  /\ \A i, j \in 1..5 : JSONOrder[i] = JSONOrder[j] => i = j
  /\ \A key \in Builtins \ {"vless-reality"} : \E i \in 1..5 : JSONOrder[i] = key
<1>1. /\ Len(JSONOrder) = 5
      /\ JSONOrder[1] = "vless-ws" /\ JSONOrder[2] = "vless-hu"
      /\ JSONOrder[3] = "vless-xhttp" /\ JSONOrder[4] = "vmess-ws"
      /\ JSONOrder[5] = "trojan-ws"
  BY DEF JSONOrder
<1>2. 1..5 = {1, 2, 3, 4, 5}
  OBVIOUS
<1>3. \A i, j \in 1..5 : JSONOrder[i] = JSONOrder[j] => i = j
  BY <1>1, <1>2
<1>4. \A key \in Builtins \ {"vless-reality"} : \E i \in 1..5 : JSONOrder[i] = key
  BY <1>1, <1>2 DEF Builtins
<1>. QED
  BY <1>1, <1>2, <1>3, <1>4 DEF Builtins

\* Where tag is called: a built-in key or a custom inbound the client may use.
LEMMA PlaceFacts ==
  ASSUME TypeOK, NEW c \in Clients, NEW i \in TagCalls(c)
  PROVE  /\ i \in Nat \ {0}
         /\ i <= 5 => JSONOrder[i] \in Allowed(c)
         /\ ~ (i <= 5) => /\ i - 5 \in DOMAIN customs
                          /\ customs[i - 5] \in ToSet(customs)
                          /\ Member(c, customs[i - 5])
<1>1. Len(customs) \in Nat /\ DOMAIN customs = 1..Len(customs)
  BY DEF TypeOK
<1>2. /\ i \in 1..(5 + Len(customs))
      /\ IF i <= 5 THEN JSONOrder[i] \in Allowed(c) ELSE Member(c, customs[i - 5])
  BY OrderFacts DEF TagCalls
<1>3. ~ (i <= 5) => i - 5 \in DOMAIN customs
  BY <1>1, <1>2
<1>. QED
  BY <1>1, <1>2, <1>3 DEF ToSet

\* A TLS protocol is dialled by the JSON as its link says.
LEMMA SameTLS ==
  ASSUME NEW key \in Builtins \ {"vless-reality"}
  PROVE  TLSOutbound(key) = BuiltinLink(key)
<1>1. BuiltinLink(key) = Link(LinkTLS(key).protocol, LinkTLS(key).network, "tls", "",
                             LinkTLS(key).path, AtEdge)
  BY DEF BuiltinLink
<1>2. CASE key = "vless-ws"
  BY <1>1, <1>2 DEF TLSOutbound, LinkTLS
<1>3. CASE key = "vless-hu"
  BY <1>1, <1>3 DEF TLSOutbound, LinkTLS
<1>4. CASE key = "vless-xhttp"
  BY <1>1, <1>4 DEF TLSOutbound, LinkTLS
<1>5. CASE key = "vmess-ws"
  BY <1>1, <1>5 DEF TLSOutbound, LinkTLS
<1>6. CASE key = "trojan-ws"
  BY <1>1, <1>6 DEF TLSOutbound, LinkTLS
<1>. QED
  BY <1>2, <1>3, <1>4, <1>5, <1>6 DEF Builtins

\* A custom inbound has the same host and port in the links and in the JSON.
LEMMA SameCustom ==
  ASSUME NEW ib
  PROVE  CustomOutbounds(ib) = CustomLinks(ib)
BY DEF CustomOutbounds, CustomLinks

\* The Reality outbounds are the links, unless the port carries a sign.
LEMMA SameReality ==
  ASSUME NEW c, env.tcp # "+8443"
  PROVE  RealityOutbounds(c) =
           IF tcpReady /\ "vless-reality" \in Allowed(c)
           THEN {BuiltinLink("vless-reality")} ELSE {}
<1>1. tcpReady => PortNumber(TCPPort) = TCPPort
  BY DEF tcpReady, TCPPort, PortOrEmpty, PortNumber
<1>. QED
  BY <1>1 DEF RealityOutbounds, BuiltinLink

\* What is dialled at one of the places is in the file.
LEMMA DialledIn ==
  ASSUME NEW c
  PROVE  /\ \A d \in RealityOutbounds(c) : \E o \in ClientJSON(c) : o.dial = d
         /\ \A i \in TagCalls(c) : \A d \in DialAt(i) : \E o \in ClientJSON(c) : o.dial = d
<1>1. ASSUME NEW d \in RealityOutbounds(c)
      PROVE  \E o \in ClientJSON(c) : o.dial = d
  <2>. DEFINE o == [at |-> 0, tag |-> <<"proxy">>, dial |-> d]
  <2>1. o \in ClientJSON(c)
    BY DEF ClientJSON
  <2>. QED
    BY <2>1
<1>2. ASSUME NEW i \in TagCalls(c), NEW d \in DialAt(i)
      PROVE  \E o \in ClientJSON(c) : o.dial = d
  <2>. DEFINE o == [at |-> i, tag |-> NextTag(c, i), dial |-> d]
  <2>1. o \in ClientJSON(c)
    BY DEF ClientJSON
  <2>. QED
    BY <2>1
<1>. QED
  BY <1>1, <1>2

\* The JSON has an outbound for each link, and no other.
LEMMA JSONAsLinks ==
  ASSUME TypeOK, env.tcp # "+8443", NEW c \in Clients
  PROVE  {o.dial : o \in ClientJSON(c)} = BuildLinks(c)
<1>0. Allowed(c) \subseteq Builtins
  BY DEF TypeOK, Allowed
<1>1. ASSUME NEW o \in ClientJSON(c)
      PROVE  o.dial \in BuildLinks(c)
  <2>1. ASSUME NEW dial \in RealityOutbounds(c),
               o = [at |-> 0, tag |-> <<"proxy">>, dial |-> dial]
        PROVE  o.dial \in BuildLinks(c)
    <3>1. o.dial = BuiltinLink("vless-reality") /\ tcpReady /\ "vless-reality" \in Allowed(c)
      BY <2>1, SameReality
    <3>. QED
      BY <3>1 DEF BuildLinks
  <2>2. ASSUME NEW i \in TagCalls(c), NEW dial \in DialAt(i),
               o = [at |-> i, tag |-> NextTag(c, i), dial |-> dial]
        PROVE  o.dial \in BuildLinks(c)
    <3>0. o.dial = dial
      BY <2>2
    <3>1. CASE i <= 5
      <4>1. JSONOrder[i] \in Allowed(c) /\ JSONOrder[i] \in Builtins \ {"vless-reality"}
        BY <3>1, PlaceFacts, OrderFacts
      <4>2. dial = BuiltinLink(JSONOrder[i])
        BY <2>2, <3>1, <4>1, SameTLS, OrderFacts DEF DialAt
      <4>. QED
        BY <3>0, <4>1, <4>2 DEF BuildLinks
    <3>2. CASE ~ (i <= 5)
      <4>1. customs[i - 5] \in ToSet(customs) /\ Member(c, customs[i - 5])
        BY <3>2, PlaceFacts
      <4>2. dial \in CustomLinks(customs[i - 5])
        BY <2>2, <3>2, SameCustom, OrderFacts DEF DialAt
      <4>. QED
        BY <3>0, <4>1, <4>2 DEF BuildLinks
    <3>. QED
      BY <3>1, <3>2
  <2>. QED
    BY <2>1, <2>2 DEF ClientJSON
<1>2. ASSUME NEW link \in BuildLinks(c)
      PROVE  \E o \in ClientJSON(c) : o.dial = link
  <2>1. ASSUME NEW key \in Allowed(c), key = "vless-reality" => tcpReady,
               link = BuiltinLink(key)
        PROVE  \E o \in ClientJSON(c) : o.dial = link
    <3>1. CASE key = "vless-reality"
      <4>1. link \in RealityOutbounds(c)
        BY <2>1, <3>1, SameReality
      <4>. QED
        BY <4>1, DialledIn
    <3>2. CASE key # "vless-reality"
      <4>1. PICK i \in 1..5 : JSONOrder[i] = key
        BY <1>0, <3>2, OrderFacts
      <4>2. i \in TagCalls(c)
        BY <4>1, OrderFacts DEF TagCalls, TypeOK
      <4>3. link \in DialAt(i)
        BY <1>0, <2>1, <3>2, <4>1, SameTLS, OrderFacts DEF DialAt
      <4>. QED
        BY <4>2, <4>3, DialledIn
    <3>. QED
      BY <3>1, <3>2
  <2>2. ASSUME NEW ib \in ToSet(customs), Member(c, ib), link \in CustomLinks(ib)
        PROVE  \E o \in ClientJSON(c) : o.dial = link
    <3>1. PICK n \in DOMAIN customs : customs[n] = ib
      BY DEF ToSet
    <3>2. n \in 1..Len(customs) /\ Len(customs) \in Nat
      BY DEF TypeOK
    <3>3. n + 5 \in 1..(5 + Len(customs)) /\ ~ (n + 5 <= 5) /\ (n + 5) - 5 = n
      BY <3>2
    <3>4. n + 5 \in TagCalls(c)
      BY <2>2, <3>1, <3>3, OrderFacts DEF TagCalls
    <3>5. link \in DialAt(n + 5)
      BY <2>2, <3>1, <3>3, SameCustom, OrderFacts DEF DialAt
    <3>. QED
      BY <3>4, <3>5, DialledIn
  <2>. QED
    BY <2>1, <2>2 DEF BuildLinks
<1>. QED
  BY <1>1, <1>2

\* The client's JSON and the share links dial the same servers with the same
\* transports, unless TCP_PORT carries a sign, which strconv.Atoi takes and the
\* atoi of clientjson.go does not (clientjson.go:42-171, links.go:113-214).
THEOREM JSONAgrees == Spec => [](env.tcp # "+8443" => JSONMatchesLinks)
<1>1. TypeOK => (env.tcp # "+8443" => JSONMatchesLinks)
  BY JSONAsLinks DEF JSONMatchesLinks
<1>. QED
  BY <1>1, TypeCorrect, PTL

\* The column tag is UNIQUE.
TagsUnique == \A i, j \in DOMAIN customs : customs[i].tag = customs[j].tag => i = j

\* The tags of the rows differ throughout.
LEMMA TagsAlwaysUnique == Spec => []TagsUnique
<1>1. Init => TagsUnique
  BY DEF Init, TagsUnique
<1>2. TypeOK /\ TagsUnique /\ [Next]_vars => TagsUnique'
  <2>. SUFFICES ASSUME TypeOK, TagsUnique, [Next]_vars
                PROVE  TagsUnique'
    OBVIOUS
  <2>1. ASSUME NEW ib \in CustomRows, CreateInbound(ib)
        PROVE  TagsUnique'
    <3>1. customs' = Append(customs, ib) /\ ib.tag \notin Tags
      BY <2>1 DEF CreateInbound
    <3>2. /\ Len(customs) \in Nat
          /\ DOMAIN customs = 1..Len(customs)
          /\ DOMAIN customs' = 1..(Len(customs) + 1)
          /\ \A i \in 1..Len(customs) : customs'[i] = customs[i]
          /\ customs'[Len(customs) + 1] = ib
      BY <3>1 DEF TypeOK
    <3>3. \A i \in 1..Len(customs) : customs[i].tag # ib.tag
      BY <3>1, <3>2 DEF Tags, ToSet
    <3>. QED
      BY <3>2, <3>3 DEF TagsUnique
  <2>2. ASSUME NEW k \in DOMAIN customs, DeleteInbound(k)
        PROVE  TagsUnique'
    <3>1. customs' = RemoveAt(customs, k)
      BY <2>2 DEF DeleteInbound
    <3>2. /\ DOMAIN customs' = 1..(Len(customs) - 1)
          /\ \A i \in 1..(Len(customs) - 1) :
               customs'[i] = IF i < k THEN customs[i] ELSE customs[i + 1]
      BY <3>1, RemovePlaces DEF TypeOK
    <3>3. Len(customs) \in Nat /\ DOMAIN customs = 1..Len(customs) /\ k \in 1..Len(customs)
      BY DEF TypeOK
    <3>. SUFFICES ASSUME NEW i \in 1..(Len(customs) - 1), NEW j \in 1..(Len(customs) - 1),
                         customs'[i].tag = customs'[j].tag
                  PROVE  i = j
      BY <3>2 DEF TagsUnique
    <3>. DEFINE at(n) == IF n < k THEN n ELSE n + 1
    <3>4. at(i) \in DOMAIN customs /\ at(j) \in DOMAIN customs
      BY <3>3
    <3>5. customs[at(i)].tag = customs[at(j)].tag
      BY <3>2
    <3>6. at(i) = at(j)
      BY <3>4, <3>5 DEF TagsUnique
    <3>. QED
      BY <3>3, <3>6
  <2>3. CASE UNCHANGED customs
    BY <2>3 DEF TagsUnique
  <2>. QED
    BY <2>1, <2>2, <2>3 DEF Next, PutSettings, PatchClient, Lapse, vars
<1>. QED
  BY <1>1, <1>2, TypeCorrect, PTL DEF Spec

\* Every place of the file appends one outbound at most.
LEMMA OneDial ==
  ASSUME TypeOK, NEW c \in Clients, NEW i \in TagCalls(c),
         NEW d1 \in DialAt(i), NEW d2 \in DialAt(i)
  PROVE  d1 = d2
<1>1. \A ib : \A e1, e2 \in realityEndpoint(ib) : e1 = e2
  BY DEF realityEndpoint
<1>2. CASE i <= Len(JSONOrder)
  BY <1>2 DEF DialAt
<1>3. CASE ~ (i <= Len(JSONOrder))
  <2>. DEFINE ib == customs[i - Len(JSONOrder)]
  <2>1. d1 \in CustomOutbounds(ib) /\ d2 \in CustomOutbounds(ib)
    BY <1>3 DEF DialAt
  <2>. HIDE DEF ib
  <2>. QED
    <3>1. CASE ib.security = "reality"
      <4>1. PICK e1 \in realityEndpoint(ib) :
              d1 = Link("vless", ib.network, "reality", Vision(ib.network), ib.path, e1)
        BY <2>1, <3>1 DEF CustomOutbounds
      <4>2. PICK e2 \in realityEndpoint(ib) :
              d2 = Link("vless", ib.network, "reality", Vision(ib.network), ib.path, e2)
        BY <2>1, <3>1 DEF CustomOutbounds
      <4>. QED
        BY <1>1, <4>1, <4>2
    <3>2. CASE ib.security # "reality"
      BY <2>1, <3>2 DEF CustomOutbounds
    <3>. QED
      BY <3>1, <3>2
<1>. QED
  BY <1>2, <1>3

\* No two calls of nextTag give one name.
LEMMA BasesDistinct ==
  ASSUME TypeOK, RowsValid, TagsUnique, NEW c \in Clients,
         NEW i \in TagCalls(c), NEW j \in TagCalls(c), TagBase(i) = TagBase(j)
  PROVE  i = j
<1>1. ASSUME NEW n \in TagCalls(c), ~ (n <= 5)
      PROVE  TagBase(n) = customs[n - 5].tag /\ TagBase(n) \notin Builtins
  <2>1. TagBase(n) = customs[n - 5].tag
    BY <1>1, OrderFacts DEF TagBase
  <2>2. customs[n - 5] \in CustomRows
    BY <1>1, PlaceFacts DEF RowsValid
  <2>. QED
    BY <2>1, <2>2, LinksAssumption
<1>2. ASSUME NEW n \in TagCalls(c), n <= 5
      PROVE  n \in 1..5 /\ TagBase(n) = JSONOrder[n] /\ TagBase(n) \in Builtins
  <2>1. n \in 1..5
    BY <1>2, PlaceFacts
  <2>. QED
    BY <1>2, <2>1, OrderFacts DEF TagBase
<1>3. CASE i <= 5
  <2>1. j <= 5
    BY <1>1, <1>2, <1>3
  <2>. QED
    BY <1>2, <1>3, <2>1, OrderFacts
<1>4. CASE ~ (i <= 5)
  <2>1. ~ (j <= 5)
    BY <1>1, <1>2, <1>4
  <2>2. i - 5 = j - 5
    BY <1>1, <1>4, <2>1, PlaceFacts DEF TagsUnique
  <2>3. i \in Nat /\ j \in Nat
    BY PlaceFacts
  <2>. QED
    BY <2>2, <2>3
<1>. QED
  BY <1>3, <1>4

\* Xray takes the client's file: no two of its outbounds have one tag, whatever
\* the toggles, the client's list and the table (clientjson.go:50-57, 126-139).
THEOREM OutboundTagsAlwaysDistinct == Spec => []OutboundTagsDistinct
<1>1. ASSUME TypeOK, RowsValid, TagsUnique
      PROVE  OutboundTagsDistinct
  <2>. SUFFICES ASSUME NEW c \in Clients, NEW o \in ClientJSON(c), NEW p \in ClientJSON(c),
                       o.tag = p.tag
                PROVE  o = p
    BY DEF OutboundTagsDistinct
  <2>. DEFINE IsReality(q) == \E dial \in RealityOutbounds(c) :
                                q = [at |-> 0, tag |-> <<"proxy">>, dial |-> dial]
              IsAt(q, i) == \E dial \in DialAt(i) :
                              q = [at |-> i, tag |-> NextTag(c, i), dial |-> dial]
  <2>0. \A base : <<"proxy">> # <<"alt", base>>
    OBVIOUS
  <2>1. \A q \in ClientJSON(c) : IsReality(q) \/ \E i \in TagCalls(c) : IsAt(q, i)
    BY DEF ClientJSON
  <2>2. ASSUME NEW q, NEW r, NEW i \in TagCalls(c), IsReality(q), IsAt(r, i)
        PROVE  q.tag # r.tag
    <3>1. q.tag = <<"proxy">> /\ r.tag = <<"alt", TagBase(i)>>
      BY <2>2 DEF NextTag
    <3>. QED
      BY <2>0, <3>1
  <2>3. CASE IsReality(o) /\ IsReality(p)
    <3>1. \A d1, d2 \in RealityOutbounds(c) : d1 = d2
      BY DEF RealityOutbounds
    <3>. QED
      BY <2>3, <3>1
  <2>4. ASSUME NEW i \in TagCalls(c), NEW j \in TagCalls(c), IsAt(o, i), IsAt(p, j)
        PROVE  o = p
    <3>1. NextTag(c, i) = NextTag(c, j)
      BY <2>4
    <3>2. i = j
      <4>1. CASE NextTag(c, i) = <<"proxy">>
        <5>1. FirstCall(c, i) /\ FirstCall(c, j)
          BY <2>0, <3>1, <4>1 DEF NextTag
        <5>2. i <= j /\ j <= i /\ i \in Nat /\ j \in Nat
          BY <5>1, PlaceFacts, <1>1 DEF FirstCall
        <5>. QED
          BY <5>2
      <4>2. CASE NextTag(c, i) # <<"proxy">>
        <5>1. <<"alt", TagBase(i)>> = <<"alt", TagBase(j)>>
          BY <3>1, <4>2 DEF NextTag
        <5>2. TagBase(i) = TagBase(j)
          BY <5>1
        <5>. QED
          BY <1>1, <5>2, BasesDistinct
      <4>. QED
        BY <4>1, <4>2
    <3>. QED
      BY <1>1, <2>4, <3>2, OneDial
  <2>. QED
    BY <2>1, <2>2, <2>3, <2>4
<1>. QED
  BY <1>1, TypeCorrect, RowsAlwaysValid, TagsAlwaysUnique, PTL
=============================================================================
