SPECIFICATION FairPipelineSpec
CONSTANTS
    Files <- MCFiles
    Claims <- MCClaims
    ClaimOf <- MCClaimOf
    ProducerOf <- MCProducerOf
    KindOf <- MCKindOf
    Keys = {k1, k2}
    NoKey = noKey
    MaxBatch = 0
    RequireCheckpoints = TRUE
    Times <- MCTimes
    MaxFaults = 2
INVARIANTS PublishedTreeConsistent
PROPERTIES PublishesRegistryLog NothingPublishedIsLost NothingPublishedBesideABadClaim ClaimsArePublished
