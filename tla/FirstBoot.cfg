SPECIFICATION FairSpec
CONSTANTS
    p1 = p1
    p2 = p2
    Machines = {m1, m2}
    Hosts = {h1}
    Published = {p1, p2}
    HostPaths = {d1}
    Sources <- MCSources
    Templates <- MCTemplates
    None = None
    Absent = Absent
    Cut = Cut
    MaxFaults = 1
INVARIANTS TypeOK PinsHonoured PairUnmixed ContentAddressed LaunchedWhole ConfigComplete OneDelivery RefusedOnlyForCdrom
 
CHECK_DEADLOCK FALSE
