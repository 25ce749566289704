\* Statements of the documentation and of comments; each is violated. TLC stops at
\* the first it finds: leave one in at a time.
SPECIFICATION Spec
CONSTANTS
    IntentBudget = 3
    AutoPump = TRUE
    Grid = TRUE
    DisplayLanes = {0}
    Numbered = {"LoadRom", "DebugStepFrame"}
    AskCap = 1
    Lanes = 2
    KernelCapacity = 6
    GpuCapacity = 2
    ReportBudget = 4
    StartCap = 2
CHECK_DEADLOCK FALSE
INVARIANTS
    OnePumpPerFrame
PROPERTIES
    GpuDrained
    DisplayUploaded
