\* Statements of the documentation and of comments; each is violated. TLC stops at
\* the first it finds: leave one in at a time.
CONSTANTS
    DivSpan = 32
    TimaSpan = 3
    Clocks = {0, 1}
    FirstClock = 0
    Weight <- SmallWeight
    InitDiv = 8
    PostBootDiv = 8
    PushCycles = {12}
    TotalLines = 4
    VBlankLine = 3
    Dots = 5
    Mode2Cycles = 1
    Mode3Cycles = 2
    LycValues = {0, 1}
    Sources = {1, 3}
    PpuSteps = {1, 4}
    PushSteps = {7}
    ByteBits = 2
    BitCycles = 3
    SerialSteps = {1, 2, 4}
    OutCap = 2
    BankCounts = {1, 2, 3}
    BankNumbers = {0, 2, 3}
    Keys = {1}
    MemoryValues = {0}
    BootPresent = TRUE
SPECIFICATION DevicesSpec
INVARIANTS
    TransferShown
PROPERTIES
    InputsKept
    RestoreExact
