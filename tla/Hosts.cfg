SPECIFICATION FleetFairSpec
CONSTANTS
    m1 = m1
    h1 = h1
    Machines = {m1}
    Hosts = {h1}
    Sizes = {0, 3}
    None = None
    Total = 2
    Reserves = {1, 3}
    MaxFaults = 1
INVARIANTS FleetTypeOK AutoSizedFits
PROPERTIES StatusConverges
