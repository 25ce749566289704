\* Statements of the documentation and of comments; each is violated. TLC stops at
\* the first it finds: leave one in at a time.
CONSTANTS
    SlotCount = 2
    EventCap = 2
    FrameCount = 5
    DrainBudget = 1
    Targets = {"wasm"}
SPECIFICATION Spec
CHECK_DEADLOCK FALSE
INVARIANTS
    ReturnsAllEvents
PROPERTIES
    AllDrained
