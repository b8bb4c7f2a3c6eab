SPECIFICATION Spec
CONSTANTS
    Runs = {r1}
    Tools = {t1}
    Schemas = {h1, h2}
    Ai = Ai
    NoSync = NoSync
    Absent = Absent
    Null = Null
    Edits = 2
SYMMETRY ConsentSymmetry
INVARIANTS
    ConsentHolds
    OnlyNewsEscapes
CHECK_DEADLOCK FALSE
