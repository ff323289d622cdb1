\* Five logins over two and a half windows; a
\* session, two requests with it and a restart; three setups; two PUTs at a time; a
\* client with two requests at a time; broadcasts to two sockets; every order of
\* the dashboard's events.
CONSTANTS
  Keys = {k1, k2}
  Max = 2
  Window = 2
  Large = 1
  MaxTime = 4
  MaxLogins = 5
  Tokens = {t1}
  Requests = {q1, q2}
  Ttl = 1
  SweepEvery = 2
  MaxClock = 2
  MaxBoots = 1
  Applicants = {r1, r2, r3}
  Names = {n1, n2}
  Handlers = {h1, h2}
  Toggles = {"vless-ws", "vmess-ws"}
  Texts = {"reality_sni"}
  Values = {blank, v1}
  Blank = blank
  Invalid = invalid
  Other = other
  Ids = {c1}
  Builtins = {"vless-ws"}
  Tags = {"0a1b"}
  Forms <- FormsOf
  Nil = nil
  MaxQuota = 2
  MaxInt = 2
  MaxDays = 2
  MaxUsage = 3
  Conns = {s1, s2}
  Casters = {ticker}
  MaxInFlight = 4
SYMMETRY Symmetric
SPECIFICATION PanelSpec
\* requests, logins and the clock are counted; a dashboard may be unmounted
CHECK_DEADLOCK FALSE
INVARIANTS ListsGrant
