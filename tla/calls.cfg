SPECIFICATION Spec
CONSTANTS
  a1 = a1
  a2 = a2
  h1 = h1
  c1 = c1
  c2 = c2
  None = None
  Agents = {a1, a2}
  Humans = {}
  Calls = {c1}
  Caller <- MCFromAgent
  Callee <- MCToAgent
  MaxSays = 3
  MaxWaits = 1
  MaxDrops = 1
  MaxCrashes = 0
INVARIANTS TranscriptFaithful HeardInOrder AnsweredIffSpoken
CHECK_DEADLOCK FALSE
