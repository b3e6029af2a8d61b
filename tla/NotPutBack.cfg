\* Claims about a stop that TLC refutes, both with -continue: the values captured first come
\* back, and no emulator is left pointing at a stopped proxy.
SPECIFICATION PatchSpec
CONSTANTS PowerCuts = 1  Edits = 0  NoState = NoState
INVARIANTS
    FirstCaptureKept
    SecondaryDisconnects
