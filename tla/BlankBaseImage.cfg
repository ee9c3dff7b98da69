SPECIFICATION StagingSpec
CONSTANTS
    w1 = w1
    w2 = w2
    s1 = s1
    d1 = d1
    d2 = d2
    h1 = h1
    Workers = {w1, w2}
    Sources = {s1}
    Digests = {d1, d2}
    Hosts = {h1}
    None = None
    Absent = Absent
    Blank = Blank
    MaxFaults = 0
SYMMETRY Symmetry
INVARIANTS NothingMadeFromBlank
CHECK_DEADLOCK FALSE
