SPECIFICATION Spec
CHECK_DEADLOCK FALSE
SYMMETRY Acting
CONSTANTS
    None = None
    a1 = a1
    a2 = a2
    Emptied = Emptied
    MaxTasks = 1
    Callers = {a1, a2}
    Words = {w1, w2}
    MaxSameQuestion = 2
    MaxAsked = 3
    Width <- Widths
    Qualified = {"colon"}
    Keywords = {"key"}
    MaxParts = 2
    Stems = {web}
    Addresses = {ip1, ip2}
    Operators = {a1, a2}
    MaxEdits = 3
    Logins = {a1, a2}
    Machines = {h}
    Keys = {k1, k2}
    MaxLogins = 2
    Names = {a1, a2}
    MaxHosts = 5
    MaxChecks = 1
    Tools = {a1, a2}
    Entries = {e1, e2}
    MaxCommands = 2
    Contents = {x, y}
    Binary = Binary
    Mangled = Mangled
    Torn = Torn
    Elevations = {s1, s2}
    OtherNames = {}
    Values = {v, w}
    Clients = {a1, a2}
    Resources = {r1}
    Configs = {c1, c2}
    MaxRequests = 5
    Threads = {a1, a2}
    TemplateNames = {n}
    MaxVersion = 2
    Loaders = {l}
    MaxUses = 4
    Latest = Latest
INVARIANTS
    NothingUnexpected
    KeptCanBeHad
    
    UsedForItsOwn
    ReportedIsFound
