CONSTANTS
    Names = {"farm", "coop"}
    Program = "program"
    Processes = {"farm", "coop", "program"}
    DatabaseServers = {"mongodb", "localhost", "outside", "file"}
    Files = {"file"}
    Ports = {1, 2}
    Databases <- MCDatabases
    Endpoints <- MCEndpoints
    EmbeddedConfigs <- MCEmbeddedConfigs
    Declarations <- MCDeclarations
    Addable <- MCAddable
    MaxCalls = 2
    MaxOverrides = 1
    MaxOutages = 1
    MaxInits = 3
SPECIFICATION Spec
CHECK_DEADLOCK FALSE
INVARIANTS
    TypeOK
    ReadyMeansEachAnswered
    EndpointsOnTheirDatabase
    CleanedLeavesOnlyFilesOpen
    ResolversReachAService
    MongoSharedByPrefixAndName
PROPERTY
    SoundDeploymentsComeUp
