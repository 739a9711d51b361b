SPECIFICATION Spec
CONSTANTS
    N = 5
    Truths <- MCTruths
    MaxDegree <- MCMaxDegree
    Knowledge <- MCKnowledge
INVARIANTS
    GraphOperationsAreRight
    SkeletonIsRight
    NoDirectedCycle
PROPERTIES
    OrientationsAreRight
CHECK_DEADLOCK FALSE
