SPECIFICATION Spec
CONSTANTS
    Tasks = {t1, t2}
    Conns = {c1, c2, c3}
    host = host
    Keys = {k1, k2, k3}
    Hosts = {host}
    HostOf <- SameHost
    Matching <- SameHostMatching
    None = None
    MaxConnections = 1
    MaxRetries = 2
    MaxChannels = 1
    MaxSweeps = 0
    FailureThreshold = 1
SYMMETRY Symmetry
INVARIANTS
    CapacityDrift
    NoLeakWhileLocksKept
    PooledNotClosed
    CircuitCounts
