\* A key of each row, held and released, and every selection of rows.
CONSTANTS
    BankCounts = {1, 2, 3}
    BankNumbers = {0, 2, 3}
    Keys = {1}
    MemoryValues = {0}
    BootPresent = TRUE
SPECIFICATION BusSpec
INVARIANT JoypadActiveLow
