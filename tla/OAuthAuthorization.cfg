CONSTANTS
    Tab = {t1, t2}
    User = {u1, u2}
    Version = {v1, v2}
    App = {a1, a2}
    SessionId = {s1, s2, s3}
    Csrf = {c1, c2, c3}
    Persistent = TRUE
    Keep = Keep
    Clear = Clear
    None = None
    MaxSent = 3
    MaxChanges = 1
SPECIFICATION Spec
SYMMETRY Symmetry
INVARIANTS GrantsWithinConsent SignedOutStaysOut AccountsDoNotMix RefusedOnlyAfterOverlap
PROPERTY SessionDelivered
CHECK_DEADLOCK FALSE
