\* Two terminals, three versions of neo.c, everything may go wrong.
SPECIFICATION RebuildFairSpec
CONSTANTS
  Terminals = {t1, t2}
  NoRebuild = NoRebuild
  Args = {a}
  ArgLists <- MCArgLists
  Faults = {"stat", "system", "compile", "link", "run", "interrupt"}
  MaxVer = 3
  MaxClock = 3
INVARIANTS RebuildTypeOK StampsTell WorksCurrent NewIsNew NestsOnce SameArguments
PROPERTIES HandsOver StartsEnd
\* Nobody need start neo again once the clock stands still.
CHECK_DEADLOCK FALSE
