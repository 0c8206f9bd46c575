SPECIFICATION Spec
CONSTANTS
  c1 = c1
  c2 = c2
  a1 = a1
  a2 = a2
  a3 = a3
  plain = plain
  routed = routed
  nat = nat
  rdr = rdr
  badRule = badRule
  badAddr = badAddr
  badPort = badPort
  x = x
  y = y
  Addrs = {x, y}
  RuleKind <- MCRuleKind
  RulePool <- MCRulePool
  Defect <- MCDefect
  Anchors = {a1, a2, a3}
  Rules = {plain, routed, nat, rdr, badRule, badAddr, badPort}
  Clients = {c1}
  Changes <- SoloChanges
  LongNames = {a3}
  FaultsPossible = FALSE
  MaxCalls = 2
INVARIANTS NoSelfConflict PoolsMatch
PROPERTY AtomicStore
CHECK_DEADLOCK FALSE
