SPECIFICATION ReaderSpec
CONSTANTS
    Files <- MCFiles
    SubjectOf <- MCSubjectOf
    MaxClaims = 6
    Producers <- MCProducers
    OwnId = "i"
    Ids <- MCIds
    NamedIn <- MCNamedIn
    SignedWith <- MCSignedWith
    KeysOf <- MCKeysOf
    Others <- MCOthers
    MaxBatch = 2
    MaxLines = 2
CHECK_DEADLOCK FALSE
INVARIANTS RootIsRfc6962 VerdictIsExact ProofFilesVerify PassIsEarned GenuinePasses
