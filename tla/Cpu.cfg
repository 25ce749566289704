\* Two interrupt lines, and programs that write every value of the lines to
\* IE; two lanes, every opcode with four operands, five decimal digits, stacks
\* in work RAM and across a page.
CONSTANTS
    Lines = {0, 1}
    Upper = {2}
    IeBits = {0, 1}
    LaneCount = 2
    Samples = {0, 15, 128, 255}
    Digits = {0, 1, 5, 8, 9}
    Immediates = {129, 127}
    Stacks = {57342, 49922}
    Programs <- AllPrograms
SPECIFICATION BothSpec
INVARIANTS Masked HaltBugShadowed CyclesExact LanesMatchScalar ArithmeticExact CallsReturn
PROPERTIES EiAfterOne SleepersWake
CHECK_DEADLOCK FALSE
