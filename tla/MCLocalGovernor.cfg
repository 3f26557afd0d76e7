CONSTANTS
    r1 = r1  r2 = r2  r3 = r3  r4 = r4
    t1 = t1  t2 = t2  a1 = a1  a2 = a2  b1 = b1
    Requests <- MCRequests
    Tools = {t1, t2}
    Agents = {a1, a2}
    Backends = {b1}
    ToolOf <- MCToolOf
    AgentOf <- MCAgentOf
    BackendOf <- MCBackendOf
    Configured = {t1}
    CfgMax <- MCCfgMax
    CfgWait <- MCCfgWait
    PerTool = 1
    PerPrincipal = 1
    QueueWait = 1
    CallerWaits = {0, 2}
    MaxTime = 4
SPECIFICATION Spec
INVARIANT PermitAccounting
PROPERTIES ImplementsPermitPool EveryAcquireAnswered
