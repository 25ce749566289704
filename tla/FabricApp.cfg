SPECIFICATION Spec
CONSTANTS
    IntentBudget = 3
    AutoPump = TRUE
    Grid = TRUE
    DisplayLanes = {0}
    Numbered = {"LoadRom"}
    AskCap = 3
    Lanes = 8
    SlotCount = 8
    CommandRing = 128
    RomSize = 48
    ReplyRing = 512
    InlineSize = 91
    KernelCapacity = 64
    EngineBudget = 32
    ReportBudget = 32
INVARIANTS SlotsAccounted PumpsBounded DisplayReported
PROPERTY LoadsComplete
