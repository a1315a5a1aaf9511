SPECIFICATION FairSpec
CONSTANTS
    Requests = {r1, r2}
    NoOne = NoOne
    MaxClients = 1
    MaxTokens = 2
    MaxCalls = 2
    MaxLogouts = 1
    HasPassword = FALSE
PROPERTIES
    RequestsReturn
    LogoutEnds
CHECK_DEADLOCK FALSE
