SPECIFICATION FairSpec
CONSTANTS
  c1 = c1
  c2 = c2
  a1 = a1
  a2 = a2
  a3 = a3
  plain = plain
  routed = routed
  nat = nat
  rdr = rdr
  badRule = badRule
  badAddr = badAddr
  badPort = badPort
  x = x
  y = y
  Addrs = {x, y}
  RuleKind <- MCRuleKind
  RulePool <- MCRulePool
  Defect <- MCDefect
  Anchors = {a1}
  Rules = {routed, plain, nat}
  Clients = {c1, c2}
  Changes <- ConcurrentChanges
  LongNames = {}
  FaultsPossible = TRUE
  MaxCalls = 1
INVARIANTS TypeOK PoolsMatch TicketsExclusive StagedPrefix
PROPERTIES AtomicStore CallsReturn
CHECK_DEADLOCK FALSE
