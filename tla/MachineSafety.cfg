SPECIFICATION Spec
CONSTANTS
    NDisks = 1
    MaxFaults = 2
    Specs <- MCSpecs
    FaultKinds <- AllFaults
INVARIANTS TypeOK  DomainBacked ReadyHasDomain  ReadyIsWhole TmpfsTornDown
PROPERTIES FailureSticks 
CHECK_DEADLOCK FALSE
