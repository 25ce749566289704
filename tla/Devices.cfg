\* A divider of 32 steps with two clocks and counters of three values; frames
\* of four lines of five dots; bytes of two bits of three cycles; ROMs of up
\* to three banks.
CONSTANTS
    DivSpan = 32
    TimaSpan = 3
    Clocks = {0, 1}
    FirstClock = 0
    Weight <- SmallWeight
    InitDiv = 8
    PostBootDiv = 8
    PushCycles = {12}
    TotalLines = 4
    VBlankLine = 3
    Dots = 5
    Mode2Cycles = 1
    Mode3Cycles = 2
    LycValues = {0, 1}
    Sources = {1, 3}
    PpuSteps = {1, 4}
    PushSteps = {7}
    ByteBits = 2
    BitCycles = 3
    SerialSteps = {1, 2, 4}
    OutCap = 2
    BankCounts = {1, 2, 3}
    BankNumbers = {0, 2, 3}
    Keys = {1}
    MemoryValues = {0}
    BootPresent = TRUE
SPECIFICATION DevicesSpec
INVARIANTS OverflowServed FramesExact LycOncePerLine
    TransferExact BankMapped
PROPERTY EdgesCounted
