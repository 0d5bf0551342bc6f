\* What neocmd_run_sync reports in the copy of the program that a failed execv makes (neobuild.h:187).
SPECIFICATION Spec
CONSTANTS
  Pid <- MCPid
  Root = 2
  Faults = {"execv"}
  MaxCopies = 2
  Sources = {a}
  NoSource = NoSource
  MaxClock = 1
  MaxVer = 1
INVARIANTS LinkTrueMeansWaited
\* The caller may stop calling, and the clock and the editor are bounded.
CHECK_DEADLOCK FALSE
