\* Passes over two sources with edits, failures and interrupts.
SPECIFICATION FairScriptSpec
CONSTANTS
  Pid <- MCPid
  Root = 2
  Faults = {"fork", "stat", "refuse", "fail"}
  MaxCopies = 1
  Sources = {a, b}
  NoSource = NoSource
  MaxClock = 4
  MaxVer = 2
INVARIANTS ScriptTypeOK StampsSound PassSound
PROPERTIES NoNeedlessWork KeepsPromise PassEnds
\* The clock and the editor are bounded, and the user may stop building.
CHECK_DEADLOCK FALSE
