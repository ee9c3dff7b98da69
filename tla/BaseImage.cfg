SPECIFICATION StagingFairSpec
CONSTANTS
    w1 = w1
    w2 = w2
    s1 = s1
    d1 = d1
    d2 = d2
    h1 = h1
    h2 = h2
    Workers = {w1, w2}
    Sources = {s1}
    Digests = {d1, d2}
    Hosts = {h1, h2}
    None = None
    Absent = Absent
    Blank = Blank
    MaxFaults = 1
INVARIANTS StagingTypeOK PinnedImageOnly RacesDoNotFail
PROPERTIES EventuallyBuilt
CHECK_DEADLOCK FALSE
