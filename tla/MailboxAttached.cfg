\* The worker attached to the shared memory with a mutex of its own.
CONSTANTS
    MessageSpan = 3
    SeqSpan = 4
    OneMutex = FALSE
    Empty = Empty
SPECIFICATION MailboxSpec
INVARIANT RecordWhole
