\* Two runs of the command for one blob that may be applied in the second ledger, while
\* up to three are validated: the last ledger is reached, closed without validation, and
\* passed. Two captures, bundles of one to three ledgers in chunks of two, two faults.
\* Two stages of the ceremony in five ledgers.
CONSTANTS
    o1 = o1
    o2 = o2
    Runs = {o1, o2}
    LastLedgerSequence = 2
    MaxLedger = 3
    Captures = {o1, o2}
    From = 2
    Tip = 4
    PerChunk = 2
    MaxFaults = 2
    Operators = {o1, o2}
    LastLedger = 5
    MaxOwn = 1
    OwnKinds <- MCOwnKinds
    Gaps = TRUE
SYMMETRY Symmetry
SPECIFICATION MCToolsSpec
CHECK_DEADLOCK FALSE
INVARIANTS
    CliTruthful
    BundlesGenuine
    RegistrySealed
PROPERTY
    ReportsFinal
