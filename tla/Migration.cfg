SPECIFICATION FairSpec
CONSTANTS
    Process = {p1, p2, p3}
    None = None
    InitialVersions <- AnyVersion
    MaxTries = 2
    MaxMessages = 2
INVARIANTS
    
    UpMeansMigrated
    NothingOverwritten
PROPERTIES
    ImplementsSchemaFile
    EventuallyMigrated
