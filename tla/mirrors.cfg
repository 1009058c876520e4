SPECIFICATION FairSpec
CONSTANTS
    Mirrors <- MCMirrors
    MaxCommit = 4
INVARIANTS PassedMeansHeld
PROPERTIES PassesNest LossIsReported MirrorsCatchUp
