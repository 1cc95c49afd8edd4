SPECIFICATION Spec
CONSTANTS
  a1 = a1
  a2 = a2
  h1 = h1
  c1 = c1
  c2 = c2
  None = None
  Agents = {a1}
  Humans = {h1}
  Calls = {c1, c2}
  Caller <- MCCrossCaller
  Callee <- MCCrossCallee
  MaxSays = 2
  MaxWaits = 2
  MaxDrops = 0
  MaxCrashes = 1
INVARIANTS HangupReaches
