\* One achievement earned twice, another once: every interleaving of handlers, flush, menu and restarts.
SPECIFICATION Spec
CONSTANTS
    A = A  B = B  a1 = a1  a2 = a2  b1 = b1  h1 = h1  h2 = h2  l1 = l1  l2 = l2
    Submissions = {a1, a2, b1}
    Ids <- MCIds
    IdOf <- MCIdOf
    Board = Board
    Hardcore = {}
    Legacy = {}
    Retired = {}
    Corruptible = {}
    Windows = FALSE
    Times = {1}
    NoRow = NoRow
    Genesis = Genesis
INVARIANTS
    NoAwardLost
    FlushedMeansAccepted
PROPERTIES
    KeepsPromise
    FlushedNeverRequeued
