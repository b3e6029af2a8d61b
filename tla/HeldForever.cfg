\* An award whose answer was lost stays in the queue for good: refuted.
SPECIFICATION SteadySpec
CONSTANTS
    A = A  B = B  a1 = a1  a2 = a2  b1 = b1  h1 = h1
    Submissions = {a1}
    Ids <- MCIds
    IdOf <- MCIdOf
    Board = Board
    Hardcore = {}
    Legacy = {}
    Retired = {}
    Corruptible = {}
    Windows = FALSE
    Times = {1}
    NoRow = NoRow
    Genesis = Genesis
    Faults = {"noanswer", "stopped"}
PROPERTIES
    QueueEmpties
