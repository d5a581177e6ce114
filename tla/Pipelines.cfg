SPECIFICATION Spec
CHECK_DEADLOCK FALSE
CONSTANTS
    Commands = 3
    Rollbacks = 3
    Checks = 2
    Wanted = 2
    MaxReplicas = 3
    Heading = Heading
    Resources = {r1, r2}
    None = None
INVARIANTS
    ChangedOnlyIfApproved
    SuccessMeansAchieved
    FailureIsRolledBack
    
PROPERTIES
    Terminates
