\* A run and a folder's scan that wait for the lock and for their pace; a ROM nobody knows.
SPECIFICATION FairSpec
CONSTANTS
    k1 = k1  k2 = k2  k3 = k3  G1 = G1  G2 = G2  G3 = G3
    bulk = bulk  add = add  watch = watch
    Roms = {k1, k2}
    Games = {G1}
    GameOf <- MCOneUnknown
    NoGame = NoGame
    NoRom = NoRom
    Nobody = Nobody
    Worker = Worker
    Bulks = {bulk}
    Scans = {watch}
    Adds = {}
    Wants <- MCWatched
    CacheNow = {bulk}
    Removable = {}
    Limit = 2
    Window = 1
    Burst = 1
    PauseTicks = 1
    MaxAttempts = 1
    MaxFaults = 1
PROPERTIES
    RunsEnd
