\* Sessions of a handheld, with every fault and the menu: what is acknowledged is delivered.
SPECIFICATION SteadySpec
CONSTANTS
    A = A  B = B  a1 = a1  a2 = a2  b1 = b1  h1 = h1
    Submissions = {a1, b1}
    Ids <- MCIds
    IdOf <- MCIdOf
    Board = Board
    Hardcore = {}
    Legacy = {}
    Retired = {B}
    Corruptible = {}
    Windows = FALSE
    Times = {1}
    NoRow = NoRow
    Genesis = Genesis
    Faults = {"noanswer", "refused", "abandoned", "stopped", "deleted"}
PROPERTIES
    EventuallyDelivered
