----------------------------- MODULE NeoRebuild -----------------------------
(***************************************************************************)
(* The self rebuild of neobuild: a build program neo, made of neo.c by the  *)
(* script buildneo, calls neorebuild first.  If neo.c is newer than neo it   *)
(* runs buildneo, then the new ./neo with the arguments it was given and    *)
(* --no-rebuild, waits for it and exits.                                    *)
(*                                                                          *)
(* Several terminals may start ./neo in the same directory.  Of a terminal  *)
(* we keep the stack of copies of the program, each waiting for the one     *)
(* above it.  A version number stands for the contents of neo.c and for the *)
(* program made of it.                                                      *)
(***************************************************************************)
EXTENDS Naturals, Sequences, SequencesExt

CONSTANTS Terminals,
          NoRebuild,  \* the argument --no-rebuild
          Args,       \* other arguments
          ArgLists,   \* the argument lists neo is started with
          Faults,     \* what may go wrong: "stat", "system", "compile", "link", "run", "interrupt"
          MaxVer,     \* bound: versions of neo.c
          MaxClock    \* bound: seconds

ASSUME RebuildAssumption ==
  /\ NoRebuild \notin Args
  /\ ArgLists \subseteq Seq(Args \cup {NoRebuild})
  /\ Faults \subseteq {"stat", "system", "compile", "link", "run", "interrupt"}
  /\ MaxVer \in Nat \ {0} /\ MaxClock \in Nat \ {0}

VARIABLES clock,
          srcVer, srcTime,  \* neo.c: contents and st_mtime
          exeVer, exeTime,  \* neo, Absent when there is none
          copies            \* per terminal, the running copies of neo

rebuildVars == <<clock, srcVer, srcTime, exeVer, exeTime, copies>>

Absent == 0
Versions == 1..MaxVer
Times == 0..MaxClock

\* Where a copy is: in neorebuild, in buildneo (called by system()), waiting for the
\* copy it has run, or working, that is, back in its main program.
InScript == {"script", "compiled", "linking"}
Places == {"called", "stated", "rebuilt", "waiting", "work"} \cup InScript

Copy == [at     : Places,
         loaded : Versions,             \* the program it runs
         args   : Seq(Args \cup {NoRebuild}),
         argc   : Nat,                  \* arguments its main program sees
         mtime  : Times,                \* st_mtime of neo.c
         read   : Versions,             \* what the compiler has read of neo.c
         asked  : Versions,             \* history: version of neo.c at the stat
         told   : BOOLEAN,              \* what neorebuild returned
         built  : BOOLEAN,              \* history: buildneo made a new neo
         mine   : BOOLEAN]              \* history: neo is still the file it was loaded from

RebuildTypeOK == /\ clock \in Times
                 /\ srcVer \in Versions /\ srcTime \in Times
                 /\ exeVer \in Versions \cup {Absent} /\ exeTime \in Times
                 /\ copies \in [Terminals -> Seq(Copy)]

RebuildInit == /\ clock = 1
               /\ srcVer = 1 /\ srcTime = 0
               /\ exeVer = 1 /\ exeTime = 1
               /\ copies = [t \in Terminals |-> <<>>]

Started(args) == [at |-> "called", loaded |-> exeVer, args |-> args, argc |-> Len(args),
                  mtime |-> 0, read |-> 1, asked |-> 1,
                  told |-> FALSE, built |-> FALSE, mine |-> TRUE]

-----------------------------------------------------------------------------
(* The copy that runs in a terminal                                         *)

Runs(t, place) == copies[t] # <<>> /\ Last(copies[t]).at = place

\* It goes on as copy c.
Becomes(t, c) == copies' = [copies EXCEPT ![t] = Append(Front(@), c)]

Goes(t, place) == Becomes(t, [Last(copies[t]) EXCEPT !.at = place])

Returns(t, result) == Becomes(t, [Last(copies[t]) EXCEPT !.at = "work", !.told = result])

Files == <<clock, srcVer, srcTime, exeVer, exeTime>>

\* The user starts neo.
Start(t) ==
  /\ copies[t] = <<>> /\ exeVer # Absent
  /\ \E args \in ArgLists : copies' = [copies EXCEPT ![t] = <<Started(args)>>]
  /\ UNCHANGED Files

IsNested(c) == NoRebuild \in ToSet(c.args)

\* Mutant: the program name is taken off the count too.
MutSeesFlag(t) ==
  /\ Runs(t, "called")
  /\ LET c == Last(copies[t])
     IN  /\ IsNested(c)
         /\ Becomes(t, [c EXCEPT !.at = "work", !.told = TRUE, !.argc = @ - 2])
  /\ UNCHANGED Files

\* The flag is taken for the last argument and hidden from the main program.
SeesFlag(t) ==
  /\ Runs(t, "called")
  /\ LET c == Last(copies[t])
     IN  /\ IsNested(c)
         /\ Becomes(t, [c EXCEPT !.at = "work", !.told = TRUE, !.argc = @ - 1])
  /\ UNCHANGED Files

StatSource(t) ==
  /\ Runs(t, "called")
  /\ ~ IsNested(Last(copies[t]))
  /\ \/ Becomes(t, [Last(copies[t]) EXCEPT !.at = "stated", !.mtime = srcTime,
                                           !.asked = srcVer])
     \/ "stat" \in Faults /\ Returns(t, FALSE)
  /\ UNCHANGED Files

\* Mutant: a neo one second older than neo.c passes for current.
MutOutOfDate(mtime) == exeTime + 1 < mtime

OutOfDate(mtime) == exeTime < mtime

\* The stat of neo, the test, and the call of system().
StatProgram(t) ==
  /\ Runs(t, "stated")
  /\ LET old == OutOfDate(Last(copies[t]).mtime)
     IN  \/ exeVer # Absent /\ old /\ Goes(t, "script")
         \/ exeVer # Absent /\ ~ old /\ Returns(t, TRUE)
         \/ /\ \/ exeVer = Absent
               \/ "stat" \in Faults
               \/ "system" \in Faults /\ old
            /\ Returns(t, FALSE)
  /\ UNCHANGED Files

-----------------------------------------------------------------------------
(* buildneo                                                                 *)

\* The compiler reads neo.c, after the objects of the library have been made.
ScriptCompiles(t) ==
  /\ Runs(t, "script")
  /\ Becomes(t, [Last(copies[t]) EXCEPT !.at = "compiled", !.read = srcVer])
  /\ UNCHANGED Files

\* Mutants: the script touches neo when it fails too; neorebuild begins again.
MutScriptFails(t) ==
  /\ Runs(t, "script") \/ Runs(t, "compiled")
  /\ "compile" \in Faults
  /\ Goes(t, "rebuilt")
  /\ exeTime' = clock
  /\ UNCHANGED <<clock, srcVer, srcTime, exeVer>>
MutScriptFails2(t) ==
  /\ Runs(t, "script") \/ Runs(t, "compiled")
  /\ "compile" \in Faults
  /\ Goes(t, "called")
  /\ UNCHANGED Files

\* The library or neo.c does not compile: exit 1, which system() returns.
ScriptFails(t) ==
  /\ Runs(t, "script") \/ Runs(t, "compiled")
  /\ "compile" \in Faults
  /\ Goes(t, "rebuilt")
  /\ UNCHANGED Files

\* The linker replaces the file neo.
ScriptLinks(t) ==
  /\ Runs(t, "compiled")
  /\ exeVer' = Absent
  /\ copies' = [u \in Terminals |->
                  [k \in DOMAIN copies[u] |->
                     [copies[u][k] EXCEPT !.mine = FALSE,
                        !.at = IF u = t /\ k = Len(copies[t]) THEN "linking" ELSE @]]]
  /\ UNCHANGED <<clock, srcVer, srcTime, exeTime>>

ScriptDone(t) ==
  /\ Runs(t, "linking")
  /\ exeVer' = Last(copies[t]).read /\ exeTime' = clock
  /\ Becomes(t, [Last(copies[t]) EXCEPT !.at = "rebuilt", !.built = TRUE])
  /\ UNCHANGED <<clock, srcVer, srcTime>>

LinkFails(t) ==
  /\ Runs(t, "linking")
  /\ "link" \in Faults
  /\ Goes(t, "rebuilt")
  /\ UNCHANGED Files

-----------------------------------------------------------------------------
(* The new program                                                          *)

\* Mutants: the flag is left out, or put first.
MutNewArgs(args) == args
MutNewArgs2(args) == <<NoRebuild>> \o args

NewArgs(args) == Append(args, NoRebuild)

\* Mutant: the program runs itself, not the file neo.
MutRunNew(t) ==
  /\ Runs(t, "rebuilt")
  /\ LET c == Last(copies[t])
     IN  copies' = [copies EXCEPT ![t] =
                      Front(@) \o <<[c EXCEPT !.at = "waiting"],
                                    [Started(NewArgs(c.args)) EXCEPT !.loaded = c.loaded]>>]
  /\ UNCHANGED Files

\* neocmd_run_sync of ./neo with the arguments.  It fails when the command cannot be
\* made or fork fails.  When the shell cannot be run or finds no ./neo, no new
\* program runs, and neocmd_run_sync returns true nevertheless.
RunNew(t) ==
  /\ Runs(t, "rebuilt")
  /\ LET c == Last(copies[t])
         stack == Append(Front(copies[t]), [c EXCEPT !.at = "waiting"])
     IN  \/ /\ exeVer # Absent
            /\ copies' = [copies EXCEPT ![t] = Append(stack, Started(NewArgs(c.args)))]
         \/ /\ exeVer = Absent \/ "run" \in Faults
            /\ copies' = [copies EXCEPT ![t] = stack]
         \/ "run" \in Faults /\ Returns(t, FALSE)
  /\ UNCHANGED Files

\* Mutant: neorebuild returns where it should exit.
MutExitAfterNew(t) ==
  /\ Runs(t, "waiting")
  /\ Returns(t, TRUE)
  /\ UNCHANGED Files

\* exit(EXIT_SUCCESS), whatever became of the new program.
ExitAfterNew(t) ==
  /\ Runs(t, "waiting")
  /\ copies' = [copies EXCEPT ![t] = Front(@)]
  /\ UNCHANGED Files

\* External: the main program of neo comes to its end.
WorkEnds(t) ==
  /\ Runs(t, "work")
  /\ copies' = [copies EXCEPT ![t] = Front(@)]
  /\ UNCHANGED Files

\* Ctrl-C ends the programs of the terminal, except that the caller of system()
\* ignores it: then only the script ends.
Interrupt(t) ==
  /\ "interrupt" \in Faults /\ copies[t] # <<>>
  /\ LET c == Last(copies[t])
     IN  copies' = [copies EXCEPT ![t] = IF c.at \in InScript
                                           THEN <<[c EXCEPT !.at = "rebuilt"]>>
                                           ELSE <<>>]
  /\ UNCHANGED Files

-----------------------------------------------------------------------------
(* External: clock, editor, user                                            *)

Tick == /\ clock < MaxClock /\ clock' = clock + 1
        /\ UNCHANGED <<srcVer, srcTime, exeVer, exeTime, copies>>

\* neo.c is not edited in the second in which neo was made, nor while a compiler
\* that has read it has not yet written neo.
Edit == /\ srcVer < MaxVer
        /\ clock > exeTime
        /\ \A t \in Terminals : ~ Runs(t, "compiled") /\ ~ Runs(t, "linking")
        /\ srcVer' = srcVer + 1 /\ srcTime' = clock
        /\ UNCHANGED <<clock, exeVer, exeTime, copies>>

\* The user runs buildneo by hand to have a neo at all.
Bootstrap == /\ exeVer = Absent
             /\ \A t \in Terminals : ~ Runs(t, "linking")
             /\ exeVer' = srcVer /\ exeTime' = clock
             /\ UNCHANGED <<clock, srcVer, srcTime, copies>>

-----------------------------------------------------------------------------
InProgram(t) == \/ SeesFlag(t) \/ StatSource(t) \/ StatProgram(t)
                \/ ScriptCompiles(t) \/ ScriptFails(t) \/ ScriptLinks(t)
                \/ ScriptDone(t) \/ LinkFails(t)
                \/ RunNew(t) \/ ExitAfterNew(t) \/ WorkEnds(t)

RebuildNext == \/ \E t \in Terminals : Start(t) \/ InProgram(t) \/ Interrupt(t)
               \/ Tick \/ Edit \/ Bootstrap

RebuildSpec == RebuildInit /\ [][RebuildNext]_rebuildVars

\* Compilers, linkers and the main program come to their ends.
RebuildFairSpec == RebuildSpec /\ \A t \in Terminals : WF_rebuildVars(InProgram(t))

-----------------------------------------------------------------------------
(* Properties                                                               *)

\* The time stamps tell: a neo that is not older than neo.c was made of it (the
\* test at neobuild.c:772).
StampsTell == exeVer # Absent /\ ~ OutOfDate(srcTime) => exeVer = srcVer

\* A copy that goes on because no rebuild is required is a program of the neo.c it
\* has looked at, unless another terminal has replaced neo since it was loaded.
WorksCurrent ==
  \A t \in Terminals : Runs(t, "work") =>
    LET c == Last(copies[t])
    IN  c.told /\ ~ IsNested(c) /\ c.mine => c.loaded = c.asked

\* The program run after a good rebuild is made of the neo.c its caller has looked
\* at, or of a later one, whatever other terminals do in between.
NewIsNew ==
  \A t \in Terminals : Len(copies[t]) = 2 /\ copies[t][1].built =>
    copies[t][2].loaded >= copies[t][1].asked

\* However rebuilds fail, a new program never rebuilds again.
NestsOnce ==
  \A t \in Terminals : /\ Len(copies[t]) <= 2
                       /\ Len(copies[t]) = 2 => copies[t][1].at = "waiting"
                                                /\ copies[t][2].at \in {"called", "work"}

\* The main program of the new neo sees the arguments the user gave to the old one:
\* neither --no-rebuild nor fewer arguments (the comment at neobuild.c:716).
SameArguments ==
  \A t \in Terminals : Runs(t, "work") /\ Len(copies[t]) = 2 =>
    SubSeq(copies[t][2].args, 1, copies[t][2].argc) = copies[t][1].args

\* A copy that has run the new program never goes on to build as well, whatever
\* became of the new program.
HandsOver ==
  [][\A t \in Terminals : copies[t] # <<>> /\ copies[t][1].at = "waiting" =>
       copies'[t] = <<>> \/ copies'[t][1].at = "waiting"]_rebuildVars

\* Each start of neo comes to its end, without an interrupt too.
StartsEnd == \A t \in Terminals : copies[t] # <<>> ~> copies[t] = <<>>
=============================================================================
