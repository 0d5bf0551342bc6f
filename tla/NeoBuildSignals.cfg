\* One program and its tools, which are stopped and continued while time passes.
SPECIFICATION FairSpec
CONSTANTS
  Pid <- MCPid
  Root = 2
  Faults = {"stop", "refuse", "fork"}
  MaxCopies = 1
  Sources = {a}
  NoSource = NoSource
  MaxClock = 2
  MaxVer = 1
INVARIANTS TypeOK
PROPERTIES CallReturns
\* The caller may stop calling, and the clock and the editor are bounded.
CHECK_DEADLOCK FALSE
