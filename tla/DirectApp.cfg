SPECIFICATION Spec
CONSTANTS
    IntentBudget = 3
    AutoPump = TRUE
    Grid = FALSE
    DisplayLanes = {0, 1}
    Numbered = {"LoadRom", "DebugStepFrame"}
    AskCap = 3
    Lanes = 2
    KernelCapacity = 6
    GpuCapacity = 2
    ReportBudget = 4
    StartCap = 2
INVARIANTS CadenceKept LosslessInOrder FrontConserved
PROPERTY LoadsServed
CHECK_DEADLOCK FALSE
