\* A flush that raises ends the monitor: refuted.
SPECIFICATION OutageSpec
CONSTANTS
    A = A  B = B  a1 = a1  a2 = a2  b1 = b1  h1 = h1
    Submissions = {a1}
    Ids <- MCIds
    IdOf <- MCIdOf
    Board = Board
    Hardcore = {}
    Legacy = {}
    Retired = {}
    Corruptible = {}
    Windows = FALSE
    Times = {1}
    NoRow = NoRow
    Genesis = Genesis
    Faults = {}
PROPERTIES
    NetworkFailuresAreRetried
