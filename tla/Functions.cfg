SPECIFICATION Spec
CONSTANTS
    Stem <- MCStem
    Words = {"from"}
    Unspellable = {"c-t"}
    Long <- MCLong
    MaxDepth = 5
    StandInDepth = 3
    MaxItems = 2
    Connectors <- MCConnectors
    Universe <- MCUniverse
    Numeric = {"7"}
    Programs <- MCPrograms
    Allowed = {"json", "typing", "runlace_types"}
    Dunders = {"__dict__"}
    Private = {"_channel", "_name", "_1p"}
    Dynamic = {"getattr", "locals"}
    Forbidden = {"open", "eval"}
    Offered <- MCOffered
INVARIANTS
    
    StandInIsTyped
    
    TrimKeepsTheShape
    
CHECK_DEADLOCK FALSE
