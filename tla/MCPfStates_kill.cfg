SPECIFICATION Spec
CONSTANTS
  c1 = c1
  c2 = c2
  s1 = s1
  s2 = s2
  s3 = s3
  first = first
  second = second
  udp = udp
  tcp = tcp
  lo = lo
  en = en
  NoFlow = NoFlow
  long = long
  Names = {first, second}
  LongNames = {}
  Kinds = {"filter"}
  Classes = {udp, tcp}
  Iface <- MCIface
  InitialAnchors <- BothAnchors
  Flows = {s1, s2}
  Owner <- MCOwner
  Class <- MCClass
  InitialTable <- TwoStates
  Operations = {"get", "kill"}
  Clients = {c1}
  FaultsPossible = FALSE
  MaxCalls <- TwoCallsEach
PROPERTY KillsOnlySpecified
CHECK_DEADLOCK FALSE
