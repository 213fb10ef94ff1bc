\* A short session of the issuer's page, with another tab that publishes to the store of
\* one record at the same time (two events from outside). On the subject's page two
\* accounts of a wallet, two profiles, and one of two URIs whose bytes are not a valid
\* payload.
CONSTANTS
    MaxEdits = 5
    MaxOutside = 2
    MaxEntries = 1
    Ttl = 1
    OtherTabs = {t1}
    t1 = t1  a1 = a1  a2 = a2  p1 = p1  p2 = p2  u1 = u1  u2 = u2
    Accounts = {a1, a2}
    Profiles = {p1, p2}
    Uris = {u1, u2}
    ValidUris = {u1}
    Actions = {"accept", "reject", "remove"}
    MaxGen = 3
    MaxChanges = 2
    MaxEvents = 1
SYMMETRY Symmetry
SPECIFICATION MCPagesSpec
CHECK_DEADLOCK FALSE
INVARIANTS
    IssueConsistent
    PreviewReviewed
    RelayedReviewed
PROPERTY
    SubmittedAsDescribed
