SPECIFICATION Spec
CONSTANTS
    k1 = k1
    k2 = k2
    h1 = h1
    h2 = h2
    Procs = {p1, p2}
    Syncs = {d1, d2}
    Codes = {k1, k2}
    Tools = {t1}
    Schemas = {h1, h2}
    Fits <- TwoCodes
    Absent = Absent
    Nobody = Nobody
    Discoveries = 2
SYMMETRY StoreSymmetry
INVARIANTS
    StoreIsWhole
    OkIsStored
    CheckedAsPinned
PROPERTY ImplementsArchive
CHECK_DEADLOCK FALSE
