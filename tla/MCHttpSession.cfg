CONSTANTS
    c1 = c1  c2 = c2  f1 = f1  f2 = f2
    Nobody = Nobody
    Conns = {c1, c2}
    Fds = {f1, f2}
    MaxRequests <- MCMaxRequests
SPECIFICATION HSpec
INVARIANTS HTypeOK RepliesInOrder NothingStranded TableOwnsConnected
PROPERTIES GoodRequestAnswered ClosedIsFreed
ACTION_CONSTRAINT NameFd
CHECK_DEADLOCK FALSE
