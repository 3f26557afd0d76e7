CONSTANTS
    r1 = r1  r2 = r2  r3 = r3  r4 = r4  t1 = t1  a1 = a1  b1 = b1  k1 = k1  k2 = k2  k3 = k3
    None = None
    Requests = {r1, r3}
    Tools = {t1}
    Agents = {a1}
    Backends = {b1}
    Keys = {k1, k2, k3}
    KeyOf <- MCKeyOf
    ToolOf <- MCToolOf
    AgentOf <- MCAgentOf
    BackendOf <- MCBackendOf
    Configured = {}
    CfgMax <- MCUnset
    CfgWait <- MCUnset
    QueueWait = 1
    CallerWaits = {0, 1}
    Idempotent = {t1}
    Retryable = {"Timeout", "Unavailable", "Upstream"}
    Never = {"Authz", "Cancelled", "Protocol", "Throttled", "Capability"}
    PerTool = 1
    PerPrincipal = 2
    MaxTime = 3
    OpenAfter = 1
    Cooldown = 1
    HalfOpenProbes = 1
    MaxAttempts = 2
    MaxTasks = 1
    DownAfter = 1
    TasksCap = {r1}
    TtlRunsOut = TRUE
    Results = {"Ok", "Unavailable", "Timeout"}
SPECIFICATION PSpec
INVARIANT UpstreamBounded
PROPERTIES EveryRequestReplied EveryCallEnds RunningTaskEnds
