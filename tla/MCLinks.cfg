\* Every toggle, every list of a client, up to two custom inbounds, every environment.
CONSTANTS
  Clients = {c1}
  CustomRows <- MCCustomRows
  Spellings <- MCSpellings
  Trim <- MCTrim
  Envs <- MCEnvs
  AppPort = 9000
  TCP2AppPort = 9001
  MaxCustoms = 2
SPECIFICATION Spec
INVARIANTS LinksAccepted JSONMatchesLinks OutboundTagsDistinct
