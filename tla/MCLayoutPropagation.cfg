CONSTANTS
    Suite = "sound"
    Programs <- MCPrograms
    UpperFrontier = TRUE
    LowerFrontier = TRUE
    ParallelsOnly = TRUE
SPECIFICATION Spec
INVARIANTS
    MeaningPreserved
    ShapesAgree
CHECK_DEADLOCK FALSE
