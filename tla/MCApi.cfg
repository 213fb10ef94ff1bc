\* Requests: one at a time of every kind, two ledgers, two time units. Limiter: budgets
\* of two and one, room for two windows. Payloads: one redirect, a body of two chunks.
CONSTANTS
    Networks = {n1}
    Unknown = unknown
    Readers = {r1}
    Activation = 1
    MaxIndex = 2
    MaxTime = 2
    LeaseTime = 1
    MaxAge = 1
    Skew = 1
    c1 = c1  c2 = c2  p1 = p1  p2 = p2  t1 = t1  t2 = t2
    Modes = {"none", "local", "resolve"}
    Kinds = {"https", "ipfs"}
    Tuples = {t1, t2}
    Contents <- MCContents
    Names = {name}
    Public = {public}
    Private = {private}
    MaxRedirects = 1
    Limit = 2
    MaxShared = 2
    MaxRoute = 1
    Window = 3
    Forget = 4
    MaxWindows = 2
    Second = 2
    MaxTicks = 6
    MaxHits = 4
    Clients = {c1, c2}
    Proxies = {p1, p2}
    Junk = junk
    BodyLimit = 1
SPECIFICATION MCApiSpec
SYMMETRY Symmetry
CHECK_DEADLOCK FALSE
INVARIANTS
    AnswerAuthoritative
    LimiterFair
    GatewaySafe
    VerifiedMeansBound
    FetchContained
