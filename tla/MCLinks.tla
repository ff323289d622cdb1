------------------------------- MODULE MCLinks -------------------------------
\* Small instances of Links.
EXTENDS Links

Row(tag, protocol, network, security, port) ==
  [tag |-> tag, protocol |-> protocol, network |-> network, security |-> security,
   port |-> port, path |-> IF network = "tcp" THEN "" ELSE tag]

\* TLS, Reality on a port of its own and on the port of the second proxy, and
\* one that createInbound refuses.
MCCustomRows == {
  Row("ib1", "trojan", "grpc", "tls", 0),
  Row("ib2", "vless", "tcp", "reality", 7000),
  Row("ib3", "vless", "grpc", "reality", 9001),
  Row("ib4", "trojan", "xhttp", "reality", 7001)}

MCSpellings == {"vless-reality", "vless-ws", "ib1", "ib2", "ib3"}
MCTrim == [k \in MCSpellings |-> k]

MCTexts == {"", "8443", "abc"}
MCEnvs == [tcp: MCTexts, tcp2: BOOLEAN, net: {"tcp", "grpc", "h2"}]
=============================================================================
