SPECIFICATION Spec
CONSTANTS
    Requests = {r1, r2}
    NoOne = NoOne
    MaxClients = 2
    MaxTokens = 3
    MaxCalls = 3
    MaxLogouts = 1
    HasPassword = TRUE
SYMMETRY RequestSymmetry
INVARIANTS
    TypeOK
    RotationStaysInItsLogin
    SingleFlight
    SuccessIsDurable
PROPERTIES
    RowNeverGoesBack
CHECK_DEADLOCK FALSE
