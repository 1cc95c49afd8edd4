SPECIFICATION Spec
CONSTANTS
  Msgs = {m1, m2}
  Calls = {}
  WithHuman = {}
  WithAgent = {m1, m2}
  ToAgent = {m1, m2}
  PushSize = 2
  PullSize = 1
  MaxRecords = 2
  MaxIdents = 1
  MaxTime = 2
  MaxFaults = 1
INVARIANTS CursorCovers PushedIsMirrored ReadsForwarded
CHECK_DEADLOCK FALSE
