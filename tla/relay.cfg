SPECIFICATION FairSpec
CONSTANTS
  a1 = a1
  a2 = a2
  m1 = m1
  m2 = m2
  None = None
  Agents = {a1}
  Msgs = {m1, m2}
  Files = {m1}
  From <- MCOneSender
  MaxDrops = 1
  MaxTimeouts = 1
  MaxCrashes = 2
  MaxDiskErrors = 2
  MaxFlips = 1
  MaxFaults = 2
INVARIANTS QueuedIsDurable HistoryFollows SentImpliesStored
PROPERTIES PromiseKept EventuallySettled
