\* A replay beside a service: does it only extend what it wrote itself?
CONSTANTS
    w1 = w1
    w2 = w2
    w3 = w3
    w4 = w4
    h1 = h1
    h2 = h2
    h2f = h2f
    h2o = h2o
    h3 = h3
    Writers = {w1, w2}
    NoWriter = NoWriter
    NoHash = NoHash
    Ledgers <- MCHonest
    PrimaryServes <- MCHonest
    SecondaryServes <- MCHonest
    TipAnswers <- MCTipsTop
    ActivationHash = h1
    Target <- MCReplay
    Activation = 1
    MaxIndex = 3
    MaxEpoch = 3
    BatchSize = 2
    MaxFaults = 2
SPECIFICATION Spec
INVARIANTS
    ReplayCreateOnly
