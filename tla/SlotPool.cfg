\* Three slots; the counters wrap after two laps of a ring.
CONSTANTS
    SlotCount = 3
    CounterSpan = 6
SPECIFICATION Spec
INVARIANTS
    SlotsConserved
    NoEntryRace
PROPERTY ImplementsExchange
