SPECIFICATION Spec
CONSTANTS
  a1 = a1
  s1 = s1
  s2 = s2
  m1 = m1
  m2 = m2
  m3 = m3
  c1 = c1
  c2 = c2
  None = None
  Human = Human
  Peer = Peer
  Agents = {a1}
  Sockets = {s1, s2}
  AgentOf <- MCAgentOf
  Msgs = {m1, m2, m3}
  Calls = {c1, c2}
  From <- MCFrom
  To <- MCTo
  ByName = {m2}
  WithFiles = {m1}
  MaxSent = 2
  MaxLines = 2
  MaxFaults = 1
INVARIANTS TypeOK QueuedIsCarried RingIsCarried RingIsTakenBack ShownOnce
PROPERTIES EventuallyDelivered
CHECK_DEADLOCK FALSE
