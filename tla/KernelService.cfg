\* Farms of one lane, with the boot animation, and of two, without it; three
\* slots, so that a second tick already carries frames inline.
SPECIFICATION Spec
CONSTANTS
    Groups = {g}
    LaneCounts = {1, 2}
    SlotCount = 3
    HasBootRom = FALSE
    ScrollSteps = 2
    FrameDelay = 1
    PauseFrames = 0
    Capacity = 3
    DrainBudget = 2
    EraCap = 1
    FrameCap = 5
    Commands = {"TickDisplay", "LoadRom", "LoadBlank", "SetInputs", "Terminate", "StepInstruction", "StepFrame"}
INVARIANTS BootFollowsFrames SpansPublished FramesInOrder OverrunBounded
CHECK_DEADLOCK FALSE
