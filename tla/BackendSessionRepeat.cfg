SPECIFICATION FairSpec
CONSTANTS
    r1 = r1
    r2 = r2
    r3 = r3
    c1 = c1
    c2 = c2
    s1 = s1
    s2 = s2
    v1 = v1
    v2 = v2
    Request = {r1, r2}
    Contact = {c1, c2}
    SessionId = {s1}
    Version = {v1}
    TTL = 1
    IdsRepeat = TRUE
    None = None
PROPERTIES
    UntouchedByOthers
    LogoutTakesEffect
