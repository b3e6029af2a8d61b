\* A file that was copied into a watched folder is queued: refuted.
SPECIFICATION WatchSpec
CONSTANTS
    k1 = k1  k2 = k2  k3 = k3  G1 = G1  G2 = G2  G3 = G3
    bulk = bulk  add = add  watch = watch
    Roms = {k1, k2}
    Games = {G1}
    GameOf <- MCOneUnknown
    NoGame = NoGame
    NoRom = NoRom
    Nobody = Nobody
    Worker = Worker
    Bulks = {}
    Scans = {watch}
    Adds = {}
    Wants <- MCShared
    CacheNow = {}
    Removable = {G1}
    Limit = 1
    Window = 2
    Burst = 1
    PauseTicks = 1
    MaxAttempts = 2
    MaxFaults = 1
    Files <- MCFiles
    Content <- MCContent
    Name <- MCName
    MaxEntries = 2
    Interval = 1
    ManualRuns = TRUE
    Rewatches = TRUE
    MaxStops = 1
INVARIANT CopiedIsQueued
