\* A start that succeeds leaves a service that runs: refuted.
SPECIFICATION LifeSpec
CONSTANTS
  Processes = {p, q, r}
  MenuCaller = menu
  ShellCaller = shell
  LastPort = 3
  Operations = 3
  Mishaps = 1
INVARIANT StartedRuns
CHECK_DEADLOCK FALSE
