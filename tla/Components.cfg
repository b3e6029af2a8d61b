\* The components that share no state: what each keeps through crashes and second writers.
SPECIFICATION ComponentsSpec
CONSTANTS
    x = x y = y
    Awards <- MCAwards
    Service = Service Menu = Menu
    StoreFaults = 1
    NoFile = NoFile NoIncident = NoIncident
    Versions <- MCVersions
    UpdateFaults = 2
    NoVersion = NoVersion NoDir = NoDir
    LastBuild = 3
    ScriptFaults = 3
    Broken = Broken Absent = Absent
    PowerCuts = 1 Edits = 1 NoState = NoState
    ImageFaults = 1
    Folders <- MCFolders
    First = "folder"
    Volumes = {"stick", "disk"}
    Letters <- MCLetters
    Paths = {"games"}
    Upgrades = TRUE
    TwiceUnpacked = FALSE
    Cuts = 1
    Counters = {s, m}
    Asker = m
    MaxRequests = 2
    MaxDay = 2
    UsageFaults = 1
    Background <- MCBackground
    MaxRetries = 1
    Attempts = 2
    Interval = 1
    ShortPause = 1
    LongPause = 2
    Library <- MCGames
    Ids <- MCIds
    GameOf <- MCGameOf
    FakeId <- MCWarning
    Spellings <- MCSpellings
    Key <- MCKey
    RomFiles <- MCRomFiles
    RomName <- MCRomName
    Rom <- MCRom
    Header <- MCHeader
    Setups <- MCSetups
    Recently = 1
    Limit = 1
    MaxClock <- MCClock
    MaxGone = 1
INVARIANTS
    AwardsSafe
    UpdateSafe
    FolderSafe
    EmulatorsFollow
    ImagesGetDone
    CheckAsChosen
    CountsKept
    LinkKept
    CountsAgree
    RecentFound
PROPERTY DeliveredStaysOut
\* An update that was given up, an image that is there and the last report are the end
\* of their components' work.
CHECK_DEADLOCK FALSE
