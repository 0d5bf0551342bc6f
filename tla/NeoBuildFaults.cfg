\* Every fault at once; a failed execv makes a second copy of the program.
SPECIFICATION Spec
CONSTANTS
  Pid <- MCPid
  Root = 2
  Faults = {"fork", "execv", "stat", "refuse", "stop", "kill", "fail"}
  MaxCopies = 2
  Sources = {a}
  NoSource = NoSource
  MaxClock = 1
  MaxVer = 1
INVARIANTS ToolAwaited ChildrenAccounted WaitsForOwnFork RootHasItsChild
\* The caller may stop calling, and the clock and the editor are bounded.
CHECK_DEADLOCK FALSE
