SPECIFICATION Spec
CONSTANTS
    f1 = f1
    f2 = f2
    a1 = a1
    Files = {f1, f2}
    Accounts = {a1}
    Members = {m1}
    OwnerOf <- OneOwner
    Quota = 1
    FileTtl = 2
    PurgeEvery = 2
    RetryAfter = 1
    Batch = 1
    MaxFaults = 1
INVARIANTS AlarmCoversWork BlobIsNamed
PROPERTIES BlobsGo


CHECK_DEADLOCK FALSE
