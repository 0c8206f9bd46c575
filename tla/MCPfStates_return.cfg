SPECIFICATION FairSpec
CONSTANTS
  c1 = c1
  c2 = c2
  s1 = s1
  s2 = s2
  s3 = s3
  first = first
  second = second
  udp = udp
  tcp = tcp
  lo = lo
  en = en
  NoFlow = NoFlow
  long = long
  Names = {first, second}
  LongNames = {}
  Kinds = {"filter", "nat"}
  Classes = {udp, tcp}
  Iface <- MCIface
  InitialAnchors <- BothAnchors
  Flows = {s1}
  Owner <- MCOwner
  Class <- MCClass
  InitialTable <- NoStates
  Operations <- AllOperations
  Clients = {c1, c2}
  FaultsPossible = TRUE
  MaxCalls <- TwoCallsAndOne
INVARIANT TypeOK
PROPERTIES LookupExact CallsReturn
CHECK_DEADLOCK FALSE
