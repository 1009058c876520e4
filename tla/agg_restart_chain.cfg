SPECIFICATION Spec
CONSTANTS
    Calls <- MCCalls
    Claims <- MCClaims
    ClaimsOf <- MCValidClaimsOf
    GroupOf <- MCGroupOf
    ContentOf <- MCContentOf
    KindOf <- MCKindOf
    MaxBatchSize = 0
    MaxErrors = 0
    MaxCrashes = 1
INVARIANT ResumedChainVerifies
