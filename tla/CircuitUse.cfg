CONSTANTS
    OpenAfter = 2
    Cooldown = 2
    HalfOpenProbes = 2
    MaxCalls = 3
SPECIFICATION CSpec
INVARIANTS ClosedBelowThreshold CloseNeedsProbes
PROPERTY CircuitRecovers
