SPECIFICATION Spec
CONSTANTS
    l1 = l1
    l2 = l2
    main = main
    mirror = mirror
    None = None
    Operator = Operator
    Email = {"ada"}
    Login = {l1, l2}
    Port = {1}
    OIDC = TRUE
    authDisabled = FALSE
    codeTTL = 0
    SessionMaxAge = 0
    pendingMaxAge = 0
    MaxCodes = 2
    MaxTokens = 2
    MaxStates = 1
    MaxNow = 1
    MaxRequests = 2
    MaxSends = 2
    ServerOf <- McServerOf
INVARIANTS
    
    TokenIsFromItsOwnLogin
    DeletedTokenIsRefused
    
CHECK_DEADLOCK FALSE
