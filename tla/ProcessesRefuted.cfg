\* Claims about processes that TLC refutes: the proxy put in front of ours is not left behind;
\* the account signed in with on the menu is the one used; a refused token is got over
\* whatever is cached.
SPECIFICATION ProcessesSpec
CONSTANTS
    Processes = {p, q}
    MenuCaller = menu
    ShellCaller = shell
    LastPort = 3
    Operations = 3
    Mishaps = 1
    Accounts <- MCAccounts
    Resets = 1
    SignIns = 1
INVARIANTS
    ChainGoesToo
PROPERTIES
    MenuLoginUsed
    AlwaysHeals
CHECK_DEADLOCK FALSE
