CONSTANTS
    Request = {r1, r2}
    Address = {a1}
    Group = {g1}
    Category = {vip}
    Token = {t1, t2, t3, t4}
    TokenLimit = 1
    None = None
    MaxContact = 2
    MaxTime = 1
    MaxStarted = 2
    MaxChanges = 1
SPECIFICATION Spec
SYMMETRY Symmetry
INVARIANTS GroupsWithinRights TokensBounded HandedOverLives NothingOutlivesItsContact CountsHonest
PROPERTY NoSecondContact
CHECK_DEADLOCK FALSE
