SPECIFICATION Spec
CONSTANTS
  Msgs = {m1}
  Calls = {c1}
  WithHuman = {m1, c1}
  WithAgent = {m1, c1}
  ToAgent = {m1}
  PushSize = 1
  PullSize = 1
  MaxRecords = 1
  MaxIdents = 1
  MaxTime = 2
  MaxFaults = 1
PROPERTIES NothingTakenBack MirrorsConverge
CHECK_DEADLOCK FALSE
