SPECIFICATION FairSpec
CONSTANTS
    NDisks = 1
    MaxFaults = 1
    Specs <- LiveSpecs
    FaultKinds <- AllFaults
PROPERTIES EventuallySettled DeletionEnds
CHECK_DEADLOCK FALSE
