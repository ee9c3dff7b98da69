SPECIFICATION NodeFairSpec
CONSTANTS
    c1 = c1
    n1 = n1
    n2 = n2
    CSRs = {c1}
    Requests <- MCRequests
    Nodes = {n1, n2}
    Me = n1
    Stranger = n2
    Keys = {1}
    None = None
    MaxFaults = 1
INVARIANTS LabelTypeOK ForeignKeysKept KeysTracked OneDecision ApprovedForItsNode
PROPERTIES EventuallyLabelled BootstrapDecided
