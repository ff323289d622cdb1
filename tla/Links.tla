--------------------------------- MODULE Links ---------------------------------
(***************************************************************************)
(* Three renderings of one set of settings: the server's config            *)
(* (xray/config.go), the share links (xray/links.go) and the client's JSON *)
(* (xray/clientjson.go).  Each is translated from its own source file; the *)
(* properties say that they agree, whatever the admin has stored.          *)
(*                                                                         *)
(* Simplifications.                                                        *)
(*  - A request reads one state of the database; a query that fails makes  *)
(*    the request fail.  The Reality keys exist: boot dies without them.   *)
(*  - Of a link and of an outbound only what the server compares is kept:  *)
(*    protocol, transport, flow, path or service, and the address and port *)
(*    it dials.  Xray drops "?ed=2048" from a WebSocket path.              *)
(*  - The stored toggles always name the six protocols, as the seed does.  *)
(*  - MaxCustoms bounds the custom inbounds (20 in the code).              *)
(***************************************************************************)
EXTENDS Integers, SequencesExt

CONSTANTS
  Clients,
  CustomRows, \* the custom inbounds a request may ask for
  Spellings,  \* the strings a request may list as protocols
  Trim,       \* strings.TrimSpace of each of them
  Envs,       \* the environments the program may boot in
  AppPort, TCP2AppPort,
  MaxCustoms  \* bound

Builtins == {"vless-reality", "vless-ws", "vless-xhttp", "vless-hu", "vmess-ws", "trojan-ws"}

ASSUME LinksAssumption ==
  /\ CustomRows \subseteq [tag: STRING, protocol: STRING, network: STRING,
                          security: {"tls", "reality"}, port: Nat, path: STRING]
  /\ \A ib \in CustomRows : ib.tag \notin Builtins \* "ib-" and a random number
  /\ \A k \in Spellings : Trim[k] \in STRING
  /\ Envs \subseteq [tcp: STRING, tcp2: BOOLEAN, net: STRING]
  /\ AppPort \in Nat /\ TCP2AppPort \in Nat
  /\ MaxCustoms \in Nat

VARIABLES
  global,  \* the protocols that are switched on in the panel settings
  customs, \* the table inbounds, ORDER BY id
  protos,  \* clients.protocols
  active,  \* the clients that LoadClients returns
  env      \* the environment of this boot

vars == <<global, customs, protos, active, env>>

TypeOK ==
  /\ global \subseteq Builtins
  /\ customs \in Seq(CustomRows) /\ Len(customs) <= MaxCustoms
  /\ protos \in [Clients -> SUBSET Spellings]
  /\ active \subseteq Clients
  /\ env \in Envs

Tags == {ib.tag : ib \in ToSet(customs)}

\* "tcp" unless the environment says "grpc".
RealityNet == IF env.net = "grpc" THEN "grpc" ELSE "tcp"
RealityPath == IF RealityNet = "grpc" THEN "svc" ELSE ""

\* Vision is TCP only.
Vision(network) == IF network = "tcp" THEN "vision" ELSE ""

-----------------------------------------------------------------------------
(* The server's config *)

\* A non-empty list of one's own wins; the toggles apply to both.
UserProtocols(c) ==
  IF protos[c] # {} THEN protos[c] \cap global ELSE global

ServerTLS(key) ==
  CASE key = "vless-xhttp" -> [protocol |-> "vless", network |-> "xhttp", path |-> "XHTTPPath"]
    [] key = "vless-hu" -> [protocol |-> "vless", network |-> "httpupgrade", path |-> "HUPath"]
    [] key = "vless-ws" -> [protocol |-> "vless", network |-> "ws", path |-> "WSPath"]
    [] key = "vmess-ws" -> [protocol |-> "vmess", network |-> "ws", path |-> "VmessPath"]
    [] key = "trojan-ws" -> [protocol |-> "trojan", network |-> "ws", path |-> "TrojanPath"]

\* A TLS inbound listens behind the edge, which ends TLS and routes by path.
ServerBuiltin(key) ==
  IF key = "vless-reality"
  THEN [protocol |-> "vless", network |-> RealityNet, security |-> "reality",
        flow |-> Vision(RealityNet), path |-> RealityPath, port |-> AppPort,
        users |-> {c \in active : key \in UserProtocols(c)}]
  ELSE [protocol |-> ServerTLS(key).protocol, network |-> ServerTLS(key).network,
        security |-> "tls", flow |-> "", path |-> ServerTLS(key).path, port |-> 443,
        users |-> {c \in active : key \in UserProtocols(c)}]

CustomUsers(tag) == {c \in active : protos[c] # {} => tag \in protos[c]}

ServerCustom(ib) ==
  [protocol |-> ib.protocol, network |-> ib.network, security |-> ib.security,
   flow |-> IF ib.security = "reality" THEN Vision(ib.network) ELSE "",
   path |-> ib.path,
   port |-> IF ib.security = "reality" THEN ib.port ELSE 443,
   users |-> CustomUsers(ib.tag)]

Build ==
  {ServerBuiltin(key) : key \in Builtins \cap global}
    \cup {ServerCustom(ib) : ib \in ToSet(customs)}

-----------------------------------------------------------------------------
(* What links and client config share *)

Allowed(c) == IF protos[c] # {} THEN protos[c] \cap global ELSE global

\* Mutant of Member: the link is emitted anyway.
AnyMember(c, ib) == TRUE

\* A list of one's own must contain the tag of a custom inbound.
Member(c, ib) == protos[c] = {} \/ ib.tag \in protos[c]

\* Mutant of PortOrEmpty: garbage is passed on, as it "used to be".
PortUnchecked(text) == text

\* The public port of the TCP proxy: a text strconv.Atoi takes, or none.
PortOrEmpty(text) ==
  IF text \in {"8443", "+8443"} THEN text ELSE ""

\* atoi of clientjson.go knows digits only; no number means 443.
PortNumber(text) == IF text = "8443" THEN "8443" ELSE "443"

TCPPort == PortOrEmpty(env.tcp)

tcpReady == TCPPort # ""

\* Host and port of a custom Reality inbound, or none.
realityEndpoint(ib) ==
  IF env.tcp2 /\ ib.port = TCP2AppPort THEN {[host |-> "tcp2", port |-> "tcp2port"]}
  ELSE IF ~tcpReady THEN {[host |-> "addr", port |-> ib.port]}
  ELSE {}

-----------------------------------------------------------------------------
(* Share links *)

LinkTLS(key) ==
  CASE key = "vless-ws" -> [protocol |-> "vless", network |-> "ws", path |-> "WSPath"]
    [] key = "vless-xhttp" -> [protocol |-> "vless", network |-> "xhttp", path |-> "XHTTPPath"]
    [] key = "vless-hu" -> [protocol |-> "vless", network |-> "httpupgrade", path |-> "HUPath"]
    [] key = "vmess-ws" -> [protocol |-> "vmess", network |-> "ws", path |-> "VmessPath"]
    [] key = "trojan-ws" -> [protocol |-> "trojan", network |-> "ws", path |-> "TrojanPath"]

AtEdge == [host |-> "addr", port |-> 443]

Link(protocol, network, security, flow, path, at) ==
  [protocol |-> protocol, network |-> network, security |-> security,
   flow |-> flow, path |-> path, host |-> at.host, port |-> at.port]

BuiltinLink(key) ==
  IF key = "vless-reality"
  THEN Link("vless", RealityNet, "reality", Vision(RealityNet), RealityPath,
            [host |-> "tcp", port |-> TCPPort])
  ELSE Link(LinkTLS(key).protocol, LinkTLS(key).network, "tls", "", LinkTLS(key).path, AtEdge)

CustomLinks(ib) ==
  IF ib.security = "reality"
  THEN {Link("vless", ib.network, "reality", Vision(ib.network), ib.path, at)
          : at \in realityEndpoint(ib)}
  ELSE {Link(ib.protocol, ib.network, "tls", "", ib.path, AtEdge)}

BuildLinks(c) ==
  {BuiltinLink(key) : key \in {k \in Allowed(c) : k = "vless-reality" => tcpReady}}
    \cup UNION {CustomLinks(ib) : ib \in {i \in ToSet(customs) : Member(c, i)}}

-----------------------------------------------------------------------------
(* The client's JSON: its outbounds, each with a tag of its own *)

JSONOrder == <<"vless-ws", "vless-hu", "vless-xhttp", "vmess-ws", "trojan-ws">>

RealityOutbounds(c) ==
  IF tcpReady /\ "vless-reality" \in Allowed(c)
  THEN {Link("vless", RealityNet, "reality", Vision(RealityNet), RealityPath,
             [host |-> "tcp", port |-> PortNumber(TCPPort)])}
  ELSE {}

TLSOutbound(key) ==
  CASE key = "vless-ws" -> Link("vless", "ws", "tls", "", "WSPath", AtEdge)
    [] key = "vless-hu" -> Link("vless", "httpupgrade", "tls", "", "HUPath", AtEdge)
    [] key = "vless-xhttp" -> Link("vless", "xhttp", "tls", "", "XHTTPPath", AtEdge)
    [] key = "vmess-ws" -> Link("vmess", "ws", "tls", "", "VmessPath", AtEdge)
    [] key = "trojan-ws" -> Link("trojan", "ws", "tls", "", "TrojanPath", AtEdge)

\* customOutbound, which is nil for an inbound without an endpoint.
CustomOutbounds(ib) ==
  IF ib.security = "reality"
  THEN {Link("vless", ib.network, "reality", Vision(ib.network), ib.path, at)
          : at \in realityEndpoint(ib)}
  ELSE {Link(ib.protocol, ib.network, "tls", "", ib.path, AtEdge)}

\* The places at which nextTag is called: the TLS protocols in the order of the
\* code, then the custom inbounds in the order of the table.
TagCalls(c) ==
  {i \in 1..(Len(JSONOrder) + Len(customs)) :
     IF i <= Len(JSONOrder) THEN JSONOrder[i] \in Allowed(c)
     ELSE Member(c, customs[i - Len(JSONOrder)])}

TagBase(i) ==
  IF i <= Len(JSONOrder) THEN JSONOrder[i] ELSE customs[i - Len(JSONOrder)].tag

DialAt(i) ==
  IF i <= Len(JSONOrder) THEN {TLSOutbound(JSONOrder[i])}
  ELSE CustomOutbounds(customs[i - Len(JSONOrder)])

FirstCall(c, i) == \A j \in TagCalls(c) : i <= j

\* Mutant of NextTag: order is not advanced for the built-in Reality outbound.
NextTagFromOne(c, i) == IF FirstCall(c, i) THEN <<"proxy">> ELSE <<"alt", TagBase(i)>>

\* "proxy" for the first outbound, "alt-" and its name for every other.
NextTag(c, i) ==
  IF RealityOutbounds(c) = {} /\ FirstCall(c, i) THEN <<"proxy">> ELSE <<"alt", TagBase(i)>>

\* The proxy outbounds of the file, each at its place: a custom inbound that is
\* passed over has used up its tag.
ClientJSON(c) ==
  {[at |-> 0, tag |-> <<"proxy">>, dial |-> dial] : dial \in RealityOutbounds(c)}
    \cup UNION {{[at |-> i, tag |-> NextTag(c, i), dial |-> dial] : dial \in DialAt(i)}
                 : i \in TagCalls(c)}

\* The flag of listInbounds.
Reachable(ib) ==
  \/ ib.security # "reality"
  \/ TCPPort = ""
  \/ env.tcp2 /\ ib.port = TCP2AppPort

-----------------------------------------------------------------------------
(* Operations *)

Init ==
  /\ global = Builtins /\ customs = <<>>
  /\ protos = [c \in Clients |-> {}]
  /\ active = Clients
  /\ env \in Envs

PutSettings(key) ==
  /\ global' \in {global \cup {key}, global \ {key}}
  /\ UNCHANGED <<customs, protos, active, env>>

\* validProtocolTags.
ValidProtocolTags(ks) == \A k \in ks : Trim[k] \in Builtins \cup Tags

\* createClient and patchClient: the list is stored as it came.
PatchClient(c, ks) ==
  /\ ValidProtocolTags(ks)
  /\ protos' = [protos EXCEPT ![c] = ks]
  /\ UNCHANGED <<global, customs, active, env>>

\* The combinations createInbound lets through.
ValidCombination(ib) ==
  IF ib.security = "reality"
  THEN ib.protocol = "vless" /\ ib.network \in {"tcp", "xhttp", "grpc"}
  ELSE ib.network # "tcp" /\ ~ (ib.protocol = "vmess" /\ ib.network = "xhttp")

BelowLimit == Len(customs) < MaxCustoms

CreateInbound(ib) ==
  /\ BelowLimit /\ ib.tag \notin Tags
  /\ ValidCombination(ib)
  /\ customs' = Append(customs, ib)
  /\ UNCHANGED <<global, protos, active, env>>

\* The tag stays in the lists of the clients.
DeleteInbound(i) ==
  /\ customs' = RemoveAt(customs, i)
  /\ UNCHANGED <<global, protos, active, env>>

\* A client is disabled, expires or reaches its quota, or is let in again.
Lapse(c) ==
  /\ active' \in {active \cup {c}, active \ {c}}
  /\ UNCHANGED <<global, customs, protos, env>>

Next ==
  \/ \E key \in Builtins : PutSettings(key)
  \/ \E c \in Clients, ks \in SUBSET Spellings : PatchClient(c, ks)
  \/ \E ib \in CustomRows : CreateInbound(ib)
  \/ \E i \in DOMAIN customs : DeleteInbound(i)
  \/ \E c \in Clients : Lapse(c)

Spec == Init /\ [][Next]_vars

-----------------------------------------------------------------------------
(* Properties *)

\* Where a connection ends up: the proxies forward to their inbound's port, and
\* an address is the edge at 443 or the machine itself.
Arrives(link, in) ==
  CASE link.host = "tcp" -> in.port = AppPort
    [] link.host = "tcp2" -> in.port = TCP2AppPort
    [] OTHER -> in.port = link.port

Accepts(in, link, c) ==
  /\ c \in in.users /\ Arrives(link, in)
  /\ in.protocol = link.protocol /\ in.network = link.network
  /\ in.security = link.security /\ in.flow = link.flow /\ in.path = link.path

\* "emitting the link anyway hands the user a config that can never connect":
\* every link of a client that is let in leads to an inbound of the rendered
\* config that has the client's credentials and speaks the same transport.
LinksAccepted ==
  \A c \in active : \A link \in BuildLinks(c) : \E in \in Build : Accepts(in, link, c)

\* "so the two can never diverge": the client's JSON dials what the links dial.
JSONMatchesLinks ==
  \A c \in Clients : {o.dial : o \in ClientJSON(c)} = BuildLinks(c)

\* Xray refuses a config with two outbounds of one tag.
OutboundTagsDistinct ==
  \A c \in Clients : \A o, p \in ClientJSON(c) : o.tag = p.tag => o = p

\* The panel's reachable flag is set exactly for the custom inbounds that give
\* links.
ReachableFlag == \A ib \in ToSet(customs) : Reachable(ib) <=> CustomLinks(ib) # {}
=============================================================================
