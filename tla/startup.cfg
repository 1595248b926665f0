SPECIFICATION Spec
CONSTANTS
    server = server
    tool = tool
    Server = server
    Tools = {tool}
    Newest = 3
    MaxFaults = 2
    MaxDeploys = 2
INVARIANTS
    TypeOK
    BackupIsPreUpgrade
PROPERTIES
    SecretSurvives
    ServerComesUp
    ImplementsUpgrade
