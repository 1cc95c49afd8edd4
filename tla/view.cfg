SPECIFICATION FairSpec
CONSTANTS
    mine = mine
    theirs = theirs
    byId = byId
    other = other
    m1 = m1
    c1 = c1
    o1 = o1
    None = None
    Threads = {mine, theirs}
    Own = {mine}
    Keys = {byId, other}
    ThreadOf <- MCThreadOf
    HandleOf <- MCHandleOf
    Rows = {m1, c1, o1}
    Calls = {c1}
    RowsOf <- MCRowsOf
    Inbound = {m1}
    Imported = {c1}
    Submitted = {o1}
    Stamp <- MCStamp
    Rank <- MCRank
    Limit = 1
    MaxOpens = 2
    MaxLosses = 1
    MaxFlight = 2
INVARIANTS TypeOK LateAnswersIgnored NoSkip SubmissionsKept
CHECK_DEADLOCK FALSE
PROPERTIES KeepsUpToDate
