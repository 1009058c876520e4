SPECIFICATION FairSpec
CONSTANTS
    Files <- MCMixedFiles
    Claims <- MCMixedClaims
    ClaimOf <- MCMixedClaimOf
    ProducerOf <- MCMixedProducerOf
    KindOf <- MCMixedKindOf
    Keys = {k1}
    NoKey = noKey
    MaxBatch = 0
    RequireCheckpoints = FALSE
    Times = {1}
    MaxFaults = 2
INVARIANTS TypeOK RepeatsAreMissed ProofsMatchEntries ProcessedIsPublished
PROPERTIES OpensOnlyVerifiedChain PendingIsAnchored
