SPECIFICATION LiveSpec
CONSTANTS
    Tasks = {t1, t2}
    Conns = {c1, c2}
    host = host
    Keys = {k1, k2}
    Hosts = {host}
    HostOf <- SameHost
    Matching <- SameHostMatching
    None = None
    MaxConnections = 1
    MaxRetries = 1
    MaxChannels = 1
    MaxSweeps = 1
    FailureThreshold = 1
PROPERTIES
    CallsEnd
