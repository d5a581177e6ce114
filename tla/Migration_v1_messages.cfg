SPECIFICATION Spec
CONSTANTS
    Process = {p1, p2}
    None = None
    InitialVersions <- FromV1
    MaxTries = 3
    MaxMessages = 1
PROPERTIES
    MessagesKept
