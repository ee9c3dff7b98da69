SPECIFICATION Spec
CONSTANTS
    NDisks = 1
    MaxFaults = 1
    Specs <- PersistentSpecs
    FaultKinds <- OnlyRefusal
INVARIANTS FailedIsNotReady
CHECK_DEADLOCK FALSE
