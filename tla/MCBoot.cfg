\* Three migrations, two of them known to the old container; three faults in a boot,
\* and three of downloads, disk, engine and process.  Up to three custom inbounds, two
\* configurations of the built-in paths.  Ticker and hook broadcast to a socket with its
\* pinger.
CONSTANTS
  Instances = {"old", "new"}
  Versions = {1, 2, 10}
  Newest <- NewestOf
  MaxFaults = 3
  Minute = 2
  Conns = {s1}
  Casters = {ticker, hook}
  Char <- MCChar
  Slash = "/"
  Lower <- MCLower
  Reserved <- MCReserved
  Builtins <- MCFlat
  Paths <- MCPaths
  Requests <- MCRequests
  Legacy <- MCPaths
  MaxRows = 3
SPECIFICATION AllSpec
INVARIANTS SchemaSound BinaryTrusted PanelReachable InboundReachable BuiltinReachable
PROPERTIES SeedsOnlyFirst ServesInTheEnd EngineComesUp NothingLeft CastReturns
