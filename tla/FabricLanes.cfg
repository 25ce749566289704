SPECIFICATION Spec
CONSTANTS
    IntentBudget = 3
    AutoPump = TRUE
    Grid = TRUE
    DisplayLanes = {0}
    Numbered = {"LoadRom"}
    AskCap = 1
    Lanes = 8
    SlotCount = 8
    CommandRing = 128
    RomSize = 32
    ReplyRing = 512
    InlineSize = 91
    KernelCapacity = 64
    EngineBudget = 32
    ReportBudget = 32
INVARIANT LanesReported
