\* Claims about answers that TLC refutes: a cached launch survives an outage that starts during
\* it; a ROM counts as cached only with all that its game needs.
SPECIFICATION MCSpec
CONSTANTS
    Games = {"g", "h"}
    Hashes = {"disc1", "disc2", "disc3"}
    Achievements = {"a"}
    GameOfHash <- MCGameOfHash
    GameOf <- MCGameOf
    Warning = "warning"
    NoEntry = NoEntry
    Workers = {"caching", "periodic", "flush", "award", "menu"}
PROPERTIES
    LaunchSurvives
    CachedIsComplete
