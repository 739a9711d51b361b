SPECIFICATION Spec
CONSTANTS
    Calls = {c1, c2, c3}
    NoKey = NoKey
    HmacKey = HmacKey
    MaxRestarts = 1
SYMMETRY CallSymmetry
INVARIANTS
    LastHashIsTail
    SerialLogIsChained
    VerdictIsOfPrefix
    NoFalseAlarm
PROPERTIES
    RestoredIsPrefix
CHECK_DEADLOCK FALSE
