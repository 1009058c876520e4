SPECIFICATION Spec
CONSTANTS
    Files <- MCFiles
    Claims <- MCClaims
    ClaimOf <- MCClaimOf
    ProducerOf <- MCProducerOf
    KindOf <- MCAllValid
    Keys = {k1}
    NoKey = noKey
    MaxBatch = 0
    RequireCheckpoints = FALSE
    Times <- MCTimes
    MaxFaults = 1
INVARIANT PublishedIsCovered
