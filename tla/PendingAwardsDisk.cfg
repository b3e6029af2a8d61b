\* A clock that jumps, damaged rows, Clear database, and a hardcore award an earlier release queued.
SPECIFICATION Spec
CONSTANTS
    A = A  B = B  a1 = a1  a2 = a2  b1 = b1  h1 = h1  h2 = h2  l1 = l1  l2 = l2
    Submissions = {h1, h2, b1}
    Ids <- MCIds
    IdOf <- MCIdOf
    Board = Board
    Hardcore = {h1, h2}
    Legacy = {h2}
    Retired = {}
    Corruptible = {A, B}
    Windows = TRUE
    Times = {1, 2}
    NoRow = NoRow
    Genesis = Genesis
INVARIANTS
    RepairHeals
    HardcoreNeverSent
PROPERTIES
    PendingNeverVanishes
