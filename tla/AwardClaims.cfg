\* Claims about the queue that TLC refutes (tlc -continue reports them all): a removed award stays removed, what is
\* acknowledged is stored, an acknowledged entry of a board is in the queue until it is sent.
SPECIFICATION Spec
CONSTANTS
    A = A  B = B  a1 = a1  a2 = a2  b1 = b1  h1 = h1  h2 = h2  l1 = l1  l2 = l2
    Submissions = {a1, a2, l1, l2}
    Ids <- MCIds
    IdOf <- MCIdOf
    Board = Board
    Hardcore = {}
    Legacy = {}
    Retired = {}
    Corruptible = {}
    Windows = FALSE
    Times = {1}
    NoRow = NoRow
    Genesis = Genesis
PROPERTIES
    DeletedStaysDeleted
    AnsweredMeansStored
INVARIANT EntryKept
