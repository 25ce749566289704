\* Six words, all record sizes a ring of that capacity can hold.
CONSTANTS
    Capacity = 6
    MaxRecord = 5
    IdSpan = 4
    ShortCommits = FALSE
SPECIFICATION FairSpec
INVARIANTS
    UnreadIntact
    TailFindsOldest
    EmptyRingAccepts
PROPERTIES
    ImplementsQueue
    SubmissionCommitted
