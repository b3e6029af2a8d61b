\* Two service processes, a menu and a shell; two accounts.
SPECIFICATION ProcessesSpec
CONSTANTS
    Processes = {p, q}
    MenuCaller = menu
    ShellCaller = shell
    LastPort = 3
    Operations = 3
    Mishaps = 1
    Accounts <- MCAccounts
    Resets = 1
    SignIns = 2
INVARIANTS
    StopStops
    EmulatorsReachIt
    StartedIsKnown
PROPERTIES
    StartServes
    RejectedHeals
\* A stopped service may stay stopped, and nobody may sign in again.
CHECK_DEADLOCK FALSE
