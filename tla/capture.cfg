SPECIFICATION Spec
CONSTANTS
    Checkpoints <- MCCheckpoints
    Published <- MCPublished
    Accepted <- MCAccepted
    NoCheckpoint = "none"
    MaxRuns = 2
CHECK_DEADLOCK FALSE
INVARIANTS TypeOK ExitZeroIsObserved VerifiedIsWitnessed
