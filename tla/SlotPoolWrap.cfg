\* The counter span is no multiple of the slot count, as 2^32 is none of the
\* six slots of the audio pool.
CONSTANTS
    SlotCount = 3
    CounterSpan = 8
SPECIFICATION Spec
INVARIANT SlotsConserved
