\* Two requests at a time, and one query that fails.
CONSTANTS
  Handlers = {h1, h2}
  Paths = {a, b}
  NoPath = NoPath
  LastLocal = 2
  Ports <- MCPorts
  Limit = 2
  MaxTags = 4
  MaxFailures = 1
SPECIFICATION HistorySpec
SYMMETRY Symmetric
INVARIANTS PortClashOverlaps PathClashOverlaps StaleRoutesOverlap
