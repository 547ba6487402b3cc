CONSTANTS
    Nothing = Nothing
    Patterns <- AllPatterns
    Inspected <- Requests1
    Variants <- Variants1
    Categories <- AllCategories
    Order <- DefaultOrder
    Weight <- DefaultWeights
    Thresholds = {0, 30, 50, 101}
    HighConfidence = 90
SPECIFICATION InspectionSpec
INVARIANTS AnyHighConfidenceBlocks
CHECK_DEADLOCK FALSE
