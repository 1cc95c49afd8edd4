SPECIFICATION GraphSpec
CONSTANTS
    acc1 = acc1
    acc2 = acc2
    a1 = a1
    b1 = b1
    k1 = k1
    NoAgent = NoAgent
    Accounts = {acc1, acc2}
    Agents = {a1, b1, k1}
    Connectors = {k1}
    Owner <- MCOwner
    Pairs <- MCPairs
    Configured = {b1, k1}
    MaxWaiting = 2
INVARIANTS ReachIsAgreed ListedIsReachable DeletedIsForgotten
CHECK_DEADLOCK FALSE
