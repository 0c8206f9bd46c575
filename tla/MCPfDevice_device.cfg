SPECIFICATION Spec
CONSTANTS
  c1 = c1
  c2 = c2
  en0 = en0
  lo0 = lo0
  utun0 = utun0
  Clients = {c1, c2}
  Interfaces = {en0, lo0, utun0}
  Unreadable = {utun0}
  InitialPresent = {en0, lo0}
  InitialCapacity = 1
  MaxRetries = 2
  FaultsPossible = TRUE
  MaxCalls = 1
INVARIANTS TypeOK ListIsReal CompleteUnlessOvertaken
PROPERTIES SwitchAnswers CallsReturn
CHECK_DEADLOCK FALSE
