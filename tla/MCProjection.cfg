\* Two accounts, one schema, two ledgers, four transactions; three registrations with
\* at most one ancestor each.
CONSTANTS
    a1 = a1
    a2 = a2
    f1 = f1
    f2 = f2
    Accounts = {a1, a2}
    Uids = {"uid"}
    Foreign = "other"
    Expirations = {1}
    NoExpiration = 99
    MaxTime = 1
    MaxLedger = 2
    MaxTxs = 4
    HistoryLimit = 3
    TimelineLimit = 3
    PageLimit = 1
    FieldNames = {f1, f2}
    MaxFields = 2
    MaxDepth = 2
    MaxEntries = 2
    ListLimit = 1
    MaxRegistrations = 3
SYMMETRY Symmetry
SPECIFICATION ProjectionSpec
CHECK_DEADLOCK FALSE
INVARIANTS
    NeverHalts
    Mirror
    CausesTruthful
    HistoryReplays
    ReadsTrue
    SchemaTrue
    AcceptedServed
    CollectionsComplete
