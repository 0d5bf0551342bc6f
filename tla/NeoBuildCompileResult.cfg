\* What a compilation reports when its tool fails (neobuild.h:287).
SPECIFICATION Spec
CONSTANTS
  Pid <- MCPid
  Root = 2
  Faults = {"fail"}
  MaxCopies = 2
  Sources = {a}
  NoSource = NoSource
  MaxClock = 1
  MaxVer = 1
INVARIANTS CompileTrueMeansCompiled
\* The caller may stop calling, and the clock and the editor are bounded.
CHECK_DEADLOCK FALSE
