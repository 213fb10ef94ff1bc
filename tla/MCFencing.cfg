\* Two writers, sources that fork at ledger 2, every kind of fault; see MCFencing for
\* the replay.
CONSTANTS
    w1 = w1
    w2 = w2
    w3 = w3
    w4 = w4
    h1 = h1
    h2 = h2
    h2f = h2f
    h2o = h2o
    h3 = h3
    Writers = {w1, w2, w3, w4}
    NoWriter = NoWriter
    NoHash = NoHash
    Ledgers <- MCForked
    PrimaryServes <- MCForked
    SecondaryServes <- MCForked
    TipAnswers <- MCTipsShort
    ActivationHash = h1
    Target <- MCBoth
    Activation = 1
    MaxIndex = 2
    MaxEpoch = 3
    BatchSize = 2
    MaxFaults = 2
SYMMETRY MCWriterSymmetry
SPECIFICATION FencingSpec
INVARIANTS
    OneWriter
    EpochsOrdered
    CatalogComplete
    StatusNeverAhead
    ReadyMeansCaughtUp
    IncidentPerEpoch
    StatusAccepted
    ReplayBounded
PROPERTIES
    ImplementsChain
