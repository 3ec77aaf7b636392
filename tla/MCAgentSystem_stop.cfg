SPECIFICATION StopsSpec
CONSTANTS
    Clients = {c1, c2}
    Messages <- LateMCMessages
    LateMessages <- LateMCMessages
    AgentIds = {"a1", "a2", "a3"}
    Defaults <- MCDefaults
    BuiltIn = {"w"}
    Retrieval = TRUE
PROPERTIES
    ServerStopsWithSystem
CHECK_DEADLOCK FALSE
