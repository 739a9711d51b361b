SPECIFICATION Spec
CONSTANTS
    N = 5
    Truths <- MCTruths
    MaxDegree <- MCMaxDegree
    Knowledge <- MCKnowledge
INVARIANT
    CollidersAreUnshielded
CHECK_DEADLOCK FALSE
