SPECIFICATION Spec
CONSTANTS
    r1 = r1
    r2 = r2
    r3 = r3
    ann = ann
    bob = bob
    cyd = cyd
    staff = staff
    temps = temps
    Request = {r1, r2}
    Contact = {ann, bob, cyd}
    Group = {staff, temps}
    App = {"webasyst", "blog"}
    Name = {"backend", "edit.own", "edit.all"}
    Fallback <- MCFallback
    Commands <- OneGroup
    Directories <- MCDirectories
    Guests = Guests
    None = None
SYMMETRY Symmetry
INVARIANTS
    NoOrphanOfGroup
CHECK_DEADLOCK FALSE
