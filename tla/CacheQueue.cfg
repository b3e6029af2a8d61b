\* A bulk run, a ROM cached by hand and the service; two dumps of one game.
SPECIFICATION Spec
CONSTANTS
    k1 = k1  k2 = k2  k3 = k3  G1 = G1  G2 = G2  G3 = G3
    bulk = bulk  add = add  watch = watch
    Roms = {k1, k2, k3}
    Games = {G1, G2}
    GameOf <- MCTwoDumps
    NoGame = NoGame
    NoRom = NoRom
    Nobody = Nobody
    Worker = Worker
    Bulks = {bulk}
    Scans = {}
    Adds = {add}
    Wants <- MCApart
    CacheNow = {bulk}
    Removable = {G1}
    Limit = 2
    Window = 2
    Burst = 1
    PauseTicks = 1
    MaxAttempts = 1
    MaxFaults = 1
INVARIANTS
    OneDrain
    NoRomForgotten
    NeverOverdrawn
    BudgetKept
PROPERTIES
    PauseKept
    FetchedOnce
