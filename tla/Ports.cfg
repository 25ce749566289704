\* The port between two threads, a frame pipeline on either target, and the
\* endpoint of each service: short rings that fill up, a budget that is spent.
CONSTANTS
    MessageSpan = 3
    SeqSpan = 4
    OneMutex = TRUE
    Empty = Empty
    SlotCount = 2
    EventCap = 1
    FrameCount = 6
    DrainBudget = 1
    Targets = {"native", "wasm"}
    RingCap = 2
    ReplyCap = 2
    QueueCap = 3
    PollBudget = 2
    SendCap = 3
    GroupsSent = {0}
SPECIFICATION PortsSpec
CHECK_DEADLOCK FALSE
INVARIANTS
    InOrder
    MessagesIntact
    OutcomesExact
PROPERTIES
    ImplementsLatest
    UnreadIsTaken
    NativeAllDrained
