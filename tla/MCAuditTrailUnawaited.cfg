SPECIFICATION Spec
CONSTANTS
    Calls = {c1, c2, c3}
    NoKey = NoKey
    HmacKey = HmacKey
    MaxRestarts = 1
SYMMETRY CallSymmetry
INVARIANT
    UntamperedIsValid
CHECK_DEADLOCK FALSE
