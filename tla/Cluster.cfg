SPECIFICATION FairSpec
CONSTANTS
    Endpoints = {e1, e2}
    Unset = Unset
    MaxFaults = 3
INVARIANTS ClusterTypeOK Attended
PROPERTIES  StatusConverges
CHECK_DEADLOCK FALSE
