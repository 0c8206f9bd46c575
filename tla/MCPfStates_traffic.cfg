SPECIFICATION Spec
CONSTANTS
  c1 = c1
  c2 = c2
  s1 = s1
  s2 = s2
  s3 = s3
  first = first
  second = second
  udp = udp
  tcp = tcp
  lo = lo
  en = en
  NoFlow = NoFlow
  long = long
  Names = {first, second, long}
  LongNames = {long}
  Kinds = {"filter"}
  Classes = {udp, tcp}
  Iface <- MCIface
  InitialAnchors <- BothAnchors
  Flows = {s1, s2, s3}
  Owner <- MCOwner
  Class <- MCClass
  InitialTable <- OneState
  Operations <- ClearAndAnchors
  Clients = {c1, c2}
  FaultsPossible = FALSE
  MaxCalls <- OneCallEach
SYMMETRY ClientSymmetry
INVARIANT ClearSparesOthers
PROPERTIES ClearCompletesUnlessMoved CountExactIfItFits
CHECK_DEADLOCK FALSE
