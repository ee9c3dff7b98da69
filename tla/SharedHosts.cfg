SPECIFICATION FleetSpec
CONSTANTS
    m1 = m1
    m2 = m2
    h1 = h1
    Machines = {m1, m2}
    Hosts = {h1}
    Sizes = {0}
    None = None
    Total = 2
    Reserves = {1, 3}
    MaxFaults = 0
SYMMETRY Symmetry
INVARIANTS OnlyRacesShareAHost
 
