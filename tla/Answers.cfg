\* What an emulator is answered and shown, on four parts of what can happen.
SPECIFICATION MCSpec
CONSTANTS
    Games = {"g", "h"}
    Hashes = {"disc1", "disc2", "disc3"}
    Achievements = {"a"}
    GameOfHash <- MCGameOfHash
    GameOf <- MCGameOf
    Warning = "warning"
    NoEntry = NoEntry
    Workers = {"caching", "periodic", "flush", "award", "menu"}
INVARIANTS CacheHoldsTruth NoAwardDropped ShownIsTrue
PROPERTIES CachedIsServed CatchesUp
