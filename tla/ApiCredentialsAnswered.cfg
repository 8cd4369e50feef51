SPECIFICATION FairSpec
CONSTANTS
    r1 = r1
    r2 = r2
    u1 = u1
    a1 = a1
    a2 = a2
    x1 = x1
    x2 = x2
    k1 = k1
    t1 = t1
    t2 = t2
    Request = {r1, r2}
    Subject = {u1}
    Client = {a1}
    Scope = {x1, x2}
    Code = {k1}
    Token = {t1}
    Lifetime = 0
    Horizon = 0
    MaxAttempts = 2
    Isolations = {"snapshot"}
    Dispositions = {"consume"}
    Repeat = TRUE
    None = None
PROPERTIES
    EveryoneIsAnswered
