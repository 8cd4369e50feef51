CONSTANTS
    Request = {r1, r2}
    Address = {a1}
    Group = {g1}
    Category = {}
    Token = {t1, t2, t3, t4}
    TokenLimit = 2
    None = None
    MaxContact = 1
    MaxTime = 1
    MaxStarted = 3
    MaxChanges = 0
SPECIFICATION Spec
SYMMETRY Symmetry
PROPERTY NewestAreRetained
CHECK_DEADLOCK FALSE
