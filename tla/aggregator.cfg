SPECIFICATION FairSpec
CONSTANTS
    Calls <- MCCalls
    Claims <- MCClaims
    ClaimsOf <- MCClaimsOf
    GroupOf <- MCGroupOf
    ContentOf <- MCContentOf
    KindOf <- MCKindOf
    MaxBatchSize = 2
    MaxErrors = 1
    MaxCrashes = 1
INVARIANTS JobHeldOnce ProofsAreOfEntries PublishedRootsNest
PROPERTIES JobsAreDecided CallsAreAnswered
