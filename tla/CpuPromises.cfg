\* Statements of the documentation and of comments; each is violated. TLC stops at
\* the first it finds: leave one in at a time.
CONSTANTS
    Lines = {0, 1}
    Upper = {2}
    IeBits = {0, 1}
SPECIFICATION Spec
INVARIANTS
    DiImmediate
    HandlerMasked
PROPERTIES
    HaltBugLocal
    CleanStart
