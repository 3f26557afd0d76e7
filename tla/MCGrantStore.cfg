CONSTANTS
    g1 = g1  g2 = g2  a1 = a1  b1 = b1  b2 = b2  w1 = w1  w2 = w2
    Grants = {g1, g2}
    Agents = {a1}
    AgentOf <- MCAgentOf
    elevationMax = 2
    RankOf <- MCRankOf
    LevelOfAgent <- MCLevelOfAgent
    Backends = {b1, b2}
    LevelOf <- MCLevelOf
    Workers = {w1, w2}
    Ttl = 2
    Overrides = {1}
    PoolMayFill = TRUE
    CoarseMtime = FALSE
    MaxApprovals = 2
    MaxTime = 2
SPECIFICATION GSpec
INVARIANT CallsAreApproved
PROPERTY FileReachesTable
