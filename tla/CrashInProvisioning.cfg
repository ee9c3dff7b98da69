SPECIFICATION Spec
CONSTANTS
    NDisks = 1
    MaxFaults = 1
    Specs <- PersistentSpecs
    FaultKinds <- OnlyCrashes
INVARIANTS ReadyHasUserData
CHECK_DEADLOCK FALSE
