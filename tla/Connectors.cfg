SPECIFICATION Spec
CONSTANTS
    Procs = {p1, p2}
    Names <- MCNames
    Attr <- MCAttr
    Reserved = {"ai"}
    Slots <- MCSlots
    Headers <- MCHeaders
    Recognised <- MCRecognised
    Commands <- MCCommands
    MaxCommands = 3
SYMMETRY MCSymmetry
INVARIANTS
    FileIsSound
    QuietHomeAgrees
PROPERTIES
    NothingSilentlyDropped
    WorkingCredentialSurvives
CHECK_DEADLOCK FALSE
