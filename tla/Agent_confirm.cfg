SPECIFICATION Spec
CHECK_DEADLOCK FALSE
CONSTANTS
    Tasks = {e1, e2}
    MaxPasswordRetries = 3
    Callers = {t1, t2}
    Hosts = {h1}
    Unknown = {h2}
    Commands = {a1, a2, a3}
    Classes = {a}
    MaxSameFingerprint = 2
    PatternWindowSize = 2
    MaxCategoryCommands = 2
    MaxTotalCalls = 3
    MaxCalls = 3
    Roles = {brain, fast}
    Convs = {c1, c2}
    MaxMessages = 3
    HardMax = 6
    MaxAttempts = 3
    MaxTasks = 2
    MaxRounds = 4
    HostCount = 3
    MaxConcurrent = 2
    MaxTimeout = 2
    IdleTimeout = 1
    None = None
INVARIANTS
    AnswersWhatIsShown
