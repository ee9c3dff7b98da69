SPECIFICATION FairSpec
CONSTANTS
    NDisks = 1
    MaxFaults = 1
    Specs <- PersistentSpecs
    FaultKinds <- OnlyCrashes
PROPERTIES DeletionCompletes
CHECK_DEADLOCK FALSE
