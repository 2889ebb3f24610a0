SPECIFICATION FairSpec
CONSTANTS
    Packages = {nginx, telnetd}
    Allowlist = {nginx}
    EXEC_TIMEOUT = 2
    PEER_READ_TIMEOUT = 1
    READ_TIMEOUT = 3
    FRAME = 2
    MaxRequests = 2
    None = None
INVARIANTS SuccessIsReal UnavailableIsUntouched OperationsDoNotOverlap
PROPERTIES HelperReturns
