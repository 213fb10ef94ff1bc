\* Two calls and one janitor, without faults.
CONSTANTS
    c1 = c1  c2 = c2  c3 = c3
    h1 = h1  h2 = h2
    w1 = w1  w2 = w2  p1 = p1  p2 = p2  d1 = d1  d2 = d2  j1 = j1  j2 = j2
    Challenges = {h1, h2}
    Calls = {c1, c2}
    Janitors = {j1}
    Wallets = {w1, w2}
    Ips = {p1, p2}
    Cids = {d1, d2}
    ChallengeTtl = 1
    PinTtl = 2
    Day = 1
    DailyLimit = 1
    BatchSize = 1
    RequestTime = 1
    MaxTime = 4
    MaxFaults = 0
SYMMETRY MCPinningSymmetry
SPECIFICATION Spec
INVARIANT RetainedUntilExpiry
