SPECIFICATION MCSpec
CONSTANT N = 4
INVARIANTS
    DependencesSurvive
    LaggedEffectsAreFound
    DataAreExplained
    ComparisonsAreSound
    IdentificationIsSound
    InferenceIsExact
    DiagnosesAreGrounded
PROPERTIES
    
    DivergencesAreAsFound
CHECK_DEADLOCK FALSE
