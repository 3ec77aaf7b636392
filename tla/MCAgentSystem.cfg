SPECIFICATION FairSpec
CONSTANTS
    Clients = {c1, c2}
    Messages <- MCMessages
    LateMessages <- LateMCMessages
    AgentIds = {"a1", "a2", "a3"}
    Defaults <- MCDefaults
    BuiltIn = {"w"}
    Retrieval = TRUE
INVARIANTS
    TypeOK
    ErrorMeansUnchanged
    
    
    AnnouncedRoutesReach
    FunctionsDegrade
    RetriesStop
    
    ReloadOnlyForgets
    LastDefinitionCounts
PROPERTIES
    ShutdownOnlyWaits
CHECK_DEADLOCK FALSE
