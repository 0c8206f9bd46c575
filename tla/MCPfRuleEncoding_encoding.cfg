SPECIFICATION Spec
CONSTANTS
  Byte = 3
  Words = 2
  NatLower = 4
  NatUpper = 6
  NameSize = 2
  LabelSize = 3
  Callers = {"actions", "families", "ports", "targets", "fields"}
  Values <- MCValues
  Packets <- MCPackets
INVARIANTS MatchesAsMeant VerdictAsMeant RefusedForCause RefusedRulesAreVoid TextKept PoolAsMeant StateReadsBack
