SPECIFICATION FairSpec
CONSTANTS
  a1 = a1
  a2 = a2
  h1 = h1
  s1 = s1
  s2 = s2
  n1 = n1
  n2 = n2
  m1 = m1
  m2 = m2
  None = None
  Remote = Remote
  Agents = {a1, a2}
  Humans = {h1}
  Sockets = {s1, s2}
  Nicks = {n1, n2}
  Msgs = {m1, m2}
  AgentOf <- MCOneEach
  From <- MCFromHumanAndRemote
  To <- MCToNameAndAgent
  MaxFails = 1
  MaxCrashes = 1
  MaxInjects = 2
INVARIANTS NoLoss DeliveredTruth RightRecipient
PROPERTIES OrderKept EventuallyTicked
