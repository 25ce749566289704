\* The types, which hold, and statements of the documentation and of comments, each
\* of which is violated. TLC stops at the first it finds: leave one in at a time.
SPECIFICATION Spec
CONSTANTS
    Groups = {g}
    LaneCounts = {1, 2}
    SlotCount = 3
    HasBootRom = FALSE
    ScrollSteps = 3
    FrameDelay = 2
    PauseFrames = 2
    Capacity = 4
    DrainBudget = 3
    EraCap = 1
    FrameCap = 3
    Commands = {"TickDisplay", "LoadRom"}
CHECK_DEADLOCK FALSE
INVARIANTS
    TypeOK
    OneFramePerTick
    QueueBounded
    FrameIdsGrow
PROPERTIES
    LosslessAnswersKept
