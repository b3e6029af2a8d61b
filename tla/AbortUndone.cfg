\* The claim that an aborted run takes its ROMs back: refuted.
SPECIFICATION Spec
CONSTANTS
    k1 = k1  k2 = k2  k3 = k3  G1 = G1  G2 = G2  G3 = G3
    bulk = bulk  add = add  watch = watch
    Roms = {k1, k2}
    Games = {G1, G2}
    GameOf <- MCDistinct
    NoGame = NoGame
    NoRom = NoRom
    Nobody = Nobody
    Worker = Worker
    Bulks = {bulk}
    Scans = {}
    Adds = {add}
    Wants <- MCApart
    CacheNow = {bulk}
    Removable = {}
    Limit = 2
    Window = 2
    Burst = 1
    PauseTicks = 1
    MaxAttempts = 2
    MaxFaults = 0
INVARIANTS
    AbortedAreGone
