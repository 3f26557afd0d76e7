CONSTANTS
    l1 = l1  l2 = l2  blank = blank  blankTtl = blankTtl
    NoList = NoList
    Lists = {l1, l2}
    Blanks = {blank, blankTtl}
    ListTtl <- MCListTtl
    Latencies = {0, 8}
    DegradedMs = 1
    DownAfter = 2
    Interval = 1
    MaxProbes = 2
SPECIFICATION ProbeSpec
PROPERTIES StableListReachesIndex DeadIsDown LatencyShows
