---------------------------- MODULE BuildScript ----------------------------
(***************************************************************************)
(* A build program as the README shows it, with time-stamp caching on:      *)
(* compile every source, then link every object; run again and again, with  *)
(* edits in between.                                                        *)
(*                                                                          *)
(* st_mtime counts seconds, so caching is right only for a user who is slow *)
(* enough.  The module makes that precise: an edit comes between passes and *)
(* in a later second than the object of its source (Edited), and a pass     *)
(* starts in a later second than the executable was written (StartPass).    *)
(***************************************************************************)
EXTENDS NeoBuild

VARIABLES phase,    \* of the pass: "idle", "compiling", "linking", "done"
          todo,     \* sources the pass has still to compile
          good      \* every call of the pass so far ran its tool well or skipped it

scriptVars == <<phase, todo, good>>
allVars    == <<vars, scriptVars>>

\* Calls that report their failures and tools that clean up after themselves;
\* the other faults are in NeoBuild.
ASSUME ScriptAssumption == Faults \cap {"execv", "stop", "kill"} = {}

ScriptTypeOK == /\ TypeOK
                /\ phase \in {"idle", "compiling", "linking", "done"}
                /\ todo \subseteq Sources
                /\ good \in BOOLEAN

ScriptInit == Init /\ phase = "idle" /\ todo = {} /\ good = FALSE

InPass == phase \in {"compiling", "linking"}

\* The last call of the pass, if there was one yet, did its work.
WentWell == frame[Root].how \in {"none", "skip", "ok"}

-----------------------------------------------------------------------------
StartPass ==
  /\ ~ InPass
  /\ clock > execTime
  /\ phase' = "compiling" /\ todo' = Sources /\ good' = TRUE
  /\ frame' = [frame EXCEPT ![Root] = Idle]
  /\ Quiet

CompileNext ==
  /\ phase = "compiling"
  /\ \E s \in todo : CallCompile(Root, s, FALSE) /\ todo' = todo \ {s}
  /\ good' = (good /\ WentWell)
  /\ UNCHANGED phase

LinkAll ==
  /\ phase = "compiling" /\ todo = {}
  /\ CallLink(Root, FALSE)
  /\ phase' = "linking"
  /\ good' = (good /\ WentWell)
  /\ UNCHANGED todo

EndPass ==
  /\ phase = "linking"
  /\ At(Root, "idle")
  /\ phase' = "done"
  /\ good' = (good /\ WentWell)
  /\ UNCHANGED <<todo, frame>> /\ Quiet

\* An interrupt from the keyboard ends the program and the tool it waits for,
\* which may remove its unfinished output; the next pass is a new process.
Interrupt ==
  /\ InPass
  /\ UNCHANGED files \/ \E c \in Pid : Executing(c) /\ Writes(c, Absent, Blank)
  /\ run' = [p \in Pid |-> IF p = Root THEN "user" ELSE "free"]
  /\ parent' = [p \in Pid |-> IF p = Root THEN InitPid ELSE NoPid]
  /\ ended' = [p \in Pid |-> "none"]
  /\ frame' = [p \in Pid |-> Idle]
  /\ snap' = [p \in Pid |-> Blank]
  /\ phase' = "idle" /\ todo' = {} /\ good' = FALSE
  /\ UNCHANGED <<clock, job>>

Edited(s) ==
  /\ ~ InPass
  /\ clock > objTime[s]
  /\ Edit(s)
  /\ phase' = "idle"
  /\ UNCHANGED <<todo, good>>

PassStep == /\ CallStep(Root) \/ \E c \in Pid : ToolStep(c)
            /\ UNCHANGED scriptVars

Passing == Tick /\ UNCHANGED scriptVars

ScriptNext == \/ StartPass \/ CompileNext \/ LinkAll \/ EndPass \/ Interrupt
              \/ \E s \in Sources : Edited(s)
              \/ PassStep \/ Passing

\* Of the program and its tools only: passes need not be started, and the
\* clock, the editor and the keyboard do as they please.
ScriptFairness == /\ WF_allVars(CompileNext) /\ WF_allVars(LinkAll) /\ WF_allVars(EndPass)
                  /\ WF_allVars(PassStep)

ScriptSpec     == ScriptInit /\ [][ScriptNext]_allVars
FairScriptSpec == ScriptSpec /\ ScriptFairness

-----------------------------------------------------------------------------
(* Safety                                                                   *)

\* The two time-stamp tests are sound on what is on disk: an object that is
\* not older than its source was compiled from that very version of it, and an
\* executable that no object is newer than was linked from these very objects.
StampsSound ==
  \A s \in Sources :
    /\ objTime[s] # Absent /\ objTime[s] >= srcTime[s] => objVer[s] = srcVer[s]
    /\ execTime # Absent /\ objTime[s] # Absent /\ objTime[s] <= execTime =>
         execOf[s] = objVer[s]

\* A pass all of whose calls ran their tools well or skipped them leaves the
\* executable made of the current versions, whatever failed or was interrupted
\* in earlier passes.
PassSound == phase = "done" /\ good => execTime # Absent /\ execOf = srcVer

\* Caching saves what can be saved: a tool is run only when its output is
\* missing or does not hold what its inputs hold now.
NoNeedlessWork ==
  [][ frame[Root].pc = "spawn" /\ frame'[Root].pc = "wait" =>
        IF frame[Root].op = "compile"
        THEN objTime[frame[Root].src] = Absent \/ objVer[frame[Root].src] # srcVer[frame[Root].src]
        ELSE execTime = Absent \/ execOf # objVer ]_allVars

\* The script keeps the promise of an incremental build.
StaleSources == {s \in Sources : execTime = Absent \/ execOf[s] # srcVer[s]}
Report == CASE phase # "done" -> "none"
            [] phase = "done" /\ good -> "uptodate"
            [] phase = "done" /\ ~ good -> "failed"
Promise == INSTANCE BuildPromise WITH stale <- StaleSources, report <- Report
KeepsPromise == Promise!Spec

(* Liveness                                                                 *)

\* A pass comes to an end, whatever fails in it.
PassEnds == InPass ~> ~ InPass
=============================================================================
