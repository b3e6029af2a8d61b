\* Claims of the components that TLC refutes: the app's data are always preserved across an
\* upgrade, any game that was played makes the menu offer Smart Cache, a listed game that was
\* moved is found at its new place, a cached image is complete, a backup copy is never started
\* instead.
SPECIFICATION ComponentsSpec
CONSTANTS
    x = x y = y
    Awards <- MCAwards
    Service = Service Menu = Menu
    StoreFaults = 0
    NoFile = NoFile NoIncident = NoIncident
    Versions <- MCVersions
    UpdateFaults = 1
    NoVersion = NoVersion NoDir = NoDir
    LastBuild = 3
    ScriptFaults = 3
    Broken = Broken Absent = Absent
    PowerCuts = 0 Edits = 1 NoState = NoState
    ImageFaults = 1
    Folders <- MCFolders
    First = "folder"
    Volumes = {"stick", "disk"}
    Letters <- MCLetters
    Paths = {"games"}
    Upgrades = TRUE
    TwiceUnpacked = FALSE
    Cuts = 1
    Counters = {s, m}
    Asker = m
    MaxRequests = 2
    MaxDay = 2
    UsageFaults = 1
    Background <- MCBackground
    MaxRetries = 1
    Attempts = 2
    Interval = 2
    ShortPause = 1
    LongPause = 2
    Library <- MCGames
    Ids <- MCIds
    GameOf <- MCGameOf
    FakeId <- MCWarning
    Spellings <- MCSpellings
    Key <- MCKey
    RomFiles <- MCRomFiles
    RomName <- MCRomName
    Rom <- MCRom
    Header <- MCHeader
    Setups <- MCSetups
    Recently = 1
    Limit = 1
    MaxClock <- MCClock
    MaxGone = 1
INVARIANTS
    AlwaysPreserved
    OfferedWhenFound
    MovedIsFound
    CachedIsWhole
    BackupNotStarted
CHECK_DEADLOCK FALSE
