-------------------------- MODULE BuildScript_proofs --------------------------
(***************************************************************************)
(* The build program of BuildScript is safe for any sources, tools and      *)
(* processes: its time-stamp caching is sound, a pass that reports success  *)
(* leaves an executable of the current sources, no tool is run in vain, and *)
(* the whole script implements BuildPromise.                                *)
(***************************************************************************)
EXTENDS BuildScript, NeoBuild_proofs

(* The inductive invariant.                                                 *)

Compiled(s) == objTime[s] # Absent /\ objVer[s] = srcVer[s]
Linked      == execTime # Absent /\ execOf = objVer

\* The only process beside the program is the tool its call waits for.
OneTool ==
  /\ run[Root] = "user"
  /\ \A c \in Pid \ {Root} :
       /\ run[c] \in {"free", "forked", "tool", "zombie"}
       /\ run[c] # "free" =>
            /\ frame[Root].pc = "wait" /\ frame[Root].child = c /\ parent[c] = Root
            /\ frame[c].op = frame[Root].op /\ frame[c].src = frame[Root].src
       /\ run[c] = "tool" => frame[c].pc \in {"start", "read"}
       /\ run[c] = "zombie" => ended[c] \in {"ok", "fail"}
  /\ frame[Root].pc = "wait" =>
       frame[Root].child \in Pid \ {Root} /\ run[frame[Root].child] # "free"

\* The call the program is in is one the pass makes in this phase.
CallOfPhase ==
  /\ frame[Root].pc # "idle" => InPass
  /\ frame[Root].pc \in {"idle", "stat_src", "stat_out", "stat_exec", "stat_objs",
                         "spawn", "wait"}
  /\ frame[Root].pc \in {"stat_src", "stat_out"} =>
       frame[Root].op = "compile" /\ ~ frame[Root].forced
  /\ frame[Root].pc \in {"stat_exec", "stat_objs"} => frame[Root].op = "link"
  /\ phase = "compiling" =>
       \/ /\ frame[Root].op = "compile" /\ frame[Root].src \in Sources \ todo
          /\ frame[Root].pc = "idle" => frame[Root].how # "none"
       \/ frame[Root] = Idle /\ todo = Sources
  /\ phase = "linking" =>
       /\ frame[Root].op = "link" /\ todo = {}
       /\ frame[Root].pc = "idle" => frame[Root].how # "none"

\* No file is from the future, in time or in version.
NoFuture ==
  /\ clock # 0 /\ execTime <= clock
  /\ phase = "compiling" => execTime < clock
  /\ \A s \in Sources : /\ srcTime[s] <= clock /\ objTime[s] <= clock
                        /\ objVer[s] <= srcVer[s] /\ execOf[s] <= srcVer[s]

\* What a stamp that is too old tells: the contents are too old as well.
StampsTell ==
  \A s \in Sources :
    /\ objTime[s] # Absent /\ objTime[s] < srcTime[s] => objVer[s] < srcVer[s]
    /\ execTime # Absent /\ srcTime[s] # Absent /\ (objTime[s] = Absent \/ objTime[s] < srcTime[s])
         => execOf[s] < srcVer[s]
    /\ execTime # Absent /\ objTime[s] > execTime => execOf[s] < objVer[s]

\* What the call has found out by its stats still holds.
StatsHold ==
  /\ frame[Root].pc = "stat_out" =>
       frame[Root].mtime = srcTime[frame[Root].src] /\ frame[Root].mtime # Absent
  /\ frame[Root].pc \in {"spawn", "wait"} /\ frame[Root].op = "compile"
       /\ (\A c \in Pid : run[c] # "zombie") =>
         LET s == frame[Root].src
         IN  srcTime[s] # Absent /\ (objTime[s] = Absent \/ objTime[s] < srcTime[s])
  /\ frame[Root].pc = "stat_exec" => frame[Root].left = Sources
  /\ frame[Root].pc = "stat_objs" =>
       /\ frame[Root].mtime = execTime
       /\ IF frame[Root].requires
          THEN execTime = Absent \/ execOf # objVer
          ELSE /\ execTime # Absent
               /\ \A s \in Sources \ frame[Root].left :
                    objTime[s] # Absent /\ objTime[s] <= execTime
  /\ frame[Root].pc = "spawn" /\ frame[Root].op = "link" => execTime = Absent \/ execOf # objVer

\* What a tool has read is what is there, and what it made is of that.
ToolReadsWell ==
  \A c \in Pid \ {Root} :
    /\ run[c] = "tool" /\ frame[c].pc = "read" =>
         /\ frame[c].op = "compile" => snap[c][frame[c].src] = srcVer[frame[c].src]
         /\ frame[c].op = "link" => snap[c] = objVer /\ \A s \in Sources : objTime[s] # Absent
    /\ run[c] = "zombie" /\ ended[c] = "ok" =>
         /\ frame[c].op = "compile" => Compiled(frame[c].src)
         /\ frame[c].op = "link" => Linked

\* What the pass has done so far, if all went well.
Progress ==
  /\ frame[Root].pc = "idle" /\ frame[Root].how \in {"skip", "ok"} =>
       /\ phase = "compiling" => Compiled(frame[Root].src)
       /\ phase = "linking" => Linked
  /\ good => CASE phase = "compiling" ->
                    \A s \in Sources \ todo : s # frame[Root].src => Compiled(s)
               [] phase = "linking" -> \A s \in Sources : Compiled(s)
               [] phase = "done" -> Linked /\ \A s \in Sources : Compiled(s)
               [] OTHER -> TRUE

ScriptInv == /\ TypeInv /\ ScriptTypeOK
             /\ OneTool /\ CallOfPhase /\ NoFuture
             /\ StampsSound /\ StampsTell /\ StatsHold /\ ToolReadsWell /\ Progress

-----------------------------------------------------------------------------
\* The fields of the frames that calls and tools leave behind.
LEMMA FrameFields ==
  ASSUME TypeInv, NEW p \in Pid
  PROVE  /\ frame[p] \in Frames /\ frame \in [Pid -> Frames]
         /\ Idle.pc = "idle" /\ Idle.op = "none" /\ Idle.src = NoSource /\ Idle.how = "none"
         /\ \A how \in Outcomes, ret \in BOOLEAN :
              /\ Returned(p, how, ret).pc = "idle" /\ Returned(p, how, ret).op = frame[p].op
              /\ Returned(p, how, ret).src = frame[p].src /\ Returned(p, how, ret).how = how
         /\ \A step \in {"spawn", "wait"} :
              /\ [Request(p) EXCEPT !.pc = step].pc = step
              /\ [Request(p) EXCEPT !.pc = step].op = frame[p].op
              /\ [Request(p) EXCEPT !.pc = step].src = frame[p].src
         /\ [Request(p) EXCEPT !.how = frame[p].how].op = frame[p].op
         /\ [Request(p) EXCEPT !.how = frame[p].how].src = frame[p].src
<1>1. frame[p] \in Frames /\ frame \in [Pid -> Frames]
  BY DEF TypeInv, TypeOK
<1>2. /\ Idle.pc = "idle" /\ Idle.op = "none" /\ Idle.src = NoSource /\ Idle.how = "none"
      /\ Idle \in Frames
  BY DEF Idle, Frames, Steps, Ops, Outcomes, NoPid
<1>3. /\ Request(p).pc = "idle" /\ Request(p).op = frame[p].op
      /\ Request(p).src = frame[p].src /\ Request(p) \in Frames
  BY <1>1, <1>2 DEF Request, Frames
<1>4. \A how \in Outcomes, ret \in BOOLEAN :
        /\ Returned(p, how, ret).pc = "idle" /\ Returned(p, how, ret).op = frame[p].op
        /\ Returned(p, how, ret).src = frame[p].src /\ Returned(p, how, ret).how = how
  BY <1>3 DEF Returned, Frames
<1>5. /\ \A step \in {"spawn", "wait"} :
           /\ [Request(p) EXCEPT !.pc = step].pc = step
           /\ [Request(p) EXCEPT !.pc = step].op = frame[p].op
           /\ [Request(p) EXCEPT !.pc = step].src = frame[p].src
      /\ [Request(p) EXCEPT !.how = frame[p].how].op = frame[p].op
      /\ [Request(p) EXCEPT !.how = frame[p].how].src = frame[p].src
  BY <1>1, <1>3 DEF Frames, Steps
<1> QED
  BY <1>1, <1>2, <1>4, <1>5

\* In a step of the program alone, with no tool before or after it, what was
\* known of the files and the tools is still known.
LEMMA LocalStep ==
  ASSUME ScriptInv, NEW f, Quiet, frame' = [frame EXCEPT ![Root] = f],
         frame[Root].pc # "wait", f.pc # "wait",
         phase' = "compiling" => execTime < clock
  PROVE  /\ OneTool' /\ NoFuture' /\ StampsSound' /\ StampsTell' /\ ToolReadsWell'
         /\ frame'[Root] = f
         /\ \A s \in Sources : Compiled(s)' <=> Compiled(s)
         /\ Linked' <=> Linked
         /\ StatsHold /\ Progress /\ CallOfPhase
<1> USE DEF ScriptInv, Quiet, shellVars, files
<1>1. Root \in Pid /\ frame'[Root] = f /\ \A c \in Pid \ {Root} : frame'[c] = frame[c]
  BY ShellAssumption DEF TypeInv
<1>2. \A c \in Pid \ {Root} : run[c] = "free"
  BY DEF OneTool
<1>3. OneTool'
  BY <1>1, <1>2 DEF OneTool
<1>4. ToolReadsWell'
  BY <1>1, <1>2 DEF ToolReadsWell
<1>5. NoFuture' /\ StampsSound' /\ StampsTell'
  BY DEF NoFuture, StampsSound, StampsTell
<1>6. (\A s \in Sources : Compiled(s)' <=> Compiled(s)) /\ (Linked' <=> Linked)
  BY DEF Compiled, Linked
<1> QED
  BY <1>1, <1>3, <1>4, <1>5, <1>6

\* The steps of the script itself keep the invariant.
LEMMA ScriptStepInv ==
  ASSUME ScriptInv, StartPass \/ CompileNext \/ LinkAll \/ EndPass
  PROVE  ScriptInv'
<1> USE DEF ScriptInv
<1> DEFINE R == frame[Root]
<1>0. /\ Root \in Pid /\ R \in Frames /\ frame \in [Pid -> Frames]
      /\ Idle.pc = "idle" /\ Idle.op = "none" /\ Idle.src = NoSource /\ Idle.how = "none"
      /\ NoSource \notin Sources
  BY ShellAssumption, BuildAssumption, FrameFields
<1>1. CASE StartPass
  <2>1. frame' = [frame EXCEPT ![Root] = Idle] /\ Quiet /\ R.pc = "idle"
    BY <1>1 DEF StartPass, CallOfPhase
  <2>2. TypeInv'
    <3>1. Idle \in SoundFrames
      BY <1>0, FrameTypes
    <3> QED
      BY <2>1, <3>1, FilesTypes, ShellTypes, TypeParts, <1>0 DEF TypeInv, TypeOK, Quiet
  <2>3. ScriptTypeOK'
    BY <1>1, <2>2 DEF ScriptTypeOK, TypeInv, StartPass
  <2>4. execTime < clock
    BY <1>1 DEF StartPass, TypeInv, TypeOK
  <2>5. /\ OneTool' /\ NoFuture' /\ StampsSound' /\ StampsTell' /\ ToolReadsWell'
        /\ frame'[Root] = Idle
    BY <1>0, <2>1, <2>4, LocalStep
  <2>6. CallOfPhase' /\ StatsHold' /\ Progress'
    BY <1>0, <1>1, <2>5 DEF StartPass, CallOfPhase, StatsHold, Progress, InPass
  <2> QED
    BY <2>2, <2>3, <2>5, <2>6
<1>2. CASE CompileNext
  <2> DEFINE Call(s) == [Idle EXCEPT !.pc = "stat_src", !.op = "compile", !.src = s,
                                     !.forced = FALSE]
  <2>1. PICK s \in todo : CallCompile(Root, s, FALSE) /\ todo' = todo \ {s}
    BY <1>2 DEF CompileNext
  <2>2. s \in Sources /\ phase = "compiling" /\ phase' = "compiling"
    BY <1>2, <2>1 DEF CompileNext, ScriptTypeOK
  <2>3. frame' = [frame EXCEPT ![Root] = Call(s)] /\ Quiet /\ R.pc = "idle"
    BY <2>1 DEF CallCompile, At
  <2>4. /\ Call(s).pc = "stat_src" /\ Call(s).op = "compile" /\ Call(s).src = s
        /\ Call(s).forced = FALSE /\ Call(s).how = "none"
    BY DEF Idle
  <2>5. TypeInv'
    BY <1>0, <2>1, <2>2, CallTypes
  <2>6. ScriptTypeOK'
    BY <1>2, <2>1, <2>5 DEF ScriptTypeOK, TypeInv, CompileNext
  <2>7. execTime < clock
    BY <2>2 DEF NoFuture
  <2>8. /\ OneTool' /\ NoFuture' /\ StampsSound' /\ StampsTell' /\ ToolReadsWell'
        /\ frame'[Root] = Call(s) /\ \A t \in Sources : Compiled(t)' <=> Compiled(t)
    BY <2>3, <2>4, <2>7, LocalStep
  <2> HIDE DEF Call
  <2>9. CallOfPhase' /\ StatsHold'
    BY <2>1, <2>2, <2>4, <2>8 DEF CallOfPhase, StatsHold, InPass
  <2>10. Progress'
    <3>1. SUFFICES ASSUME good', NEW t \in Sources \ todo', t # s PROVE Compiled(t)
      BY <2>2, <2>4, <2>8 DEF Progress
    <3>2. good /\ R.how \in {"none", "skip", "ok"} /\ t \in Sources \ todo
      BY <1>2, <2>1, <3>1 DEF CompileNext, WentWell
    <3> QED
      BY <1>0, <2>2, <2>3, <3>2 DEF CallOfPhase, Progress
  <2> QED
    BY <2>5, <2>6, <2>8, <2>9, <2>10
<1>3. CASE LinkAll
  <2> DEFINE Call == [Idle EXCEPT !.pc = "stat_exec", !.op = "link", !.left = Sources]
  <2>1. /\ CallLink(Root, FALSE) /\ todo = {} /\ todo' = {}
        /\ phase = "compiling" /\ phase' = "linking"
    BY <1>3 DEF LinkAll
  <2>2. frame' = [frame EXCEPT ![Root] = Call] /\ Quiet /\ R.pc = "idle"
    BY <2>1 DEF CallLink, At
  <2>3. Call.pc = "stat_exec" /\ Call.op = "link" /\ Call.how = "none" /\ Call.left = Sources
    BY DEF Idle
  <2>4. TypeInv'
    BY <1>0, <2>1, CallTypes
  <2>5. ScriptTypeOK'
    BY <1>3, <2>1, <2>4 DEF ScriptTypeOK, TypeInv, LinkAll
  <2>6. /\ OneTool' /\ NoFuture' /\ StampsSound' /\ StampsTell' /\ ToolReadsWell'
        /\ frame'[Root] = Call /\ \A t \in Sources : Compiled(t)' <=> Compiled(t)
    BY <2>1, <2>2, <2>3, LocalStep
  <2> HIDE DEF Call
  <2>7. CallOfPhase' /\ StatsHold'
    BY <2>1, <2>3, <2>6 DEF CallOfPhase, StatsHold, InPass
  <2>8. Progress'
    <3>1. SUFFICES ASSUME good', NEW t \in Sources PROVE Compiled(t)
      BY <2>1, <2>3, <2>6 DEF Progress
    <3>2. good /\ R.how \in {"none", "skip", "ok"} /\ t \in Sources \ todo
      BY <1>3, <2>1, <3>1 DEF LinkAll, WentWell
    <3> QED
      BY <1>0, <2>1, <2>2, <3>2 DEF CallOfPhase, Progress
  <2> QED
    BY <2>4, <2>5, <2>6, <2>7, <2>8
<1>4. CASE EndPass
  <2>1. /\ phase = "linking" /\ phase' = "done" /\ R.pc = "idle" /\ UNCHANGED <<todo, frame>>
        /\ Quiet /\ good' = (good /\ WentWell) /\ frame' = [frame EXCEPT ![Root] = R]
    BY <1>0, <1>4 DEF EndPass, At
  <2>2. TypeInv'
    BY <2>1, SurroundingsTypes DEF Quiet, vars
  <2>3. ScriptTypeOK'
    BY <2>1, <2>2 DEF ScriptTypeOK, TypeInv
  <2>4. /\ OneTool' /\ NoFuture' /\ StampsSound' /\ StampsTell' /\ ToolReadsWell'
        /\ (\A t \in Sources : Compiled(t)' <=> Compiled(t)) /\ (Linked' <=> Linked)
    BY <2>1, LocalStep
  <2>5. CallOfPhase' /\ StatsHold' /\ Progress'
    BY <2>1, <2>4 DEF CallOfPhase, StatsHold, Progress, InPass, WentWell
  <2> QED
    BY <2>2, <2>3, <2>4, <2>5
<1> QED
  BY <1>1, <1>2, <1>3, <1>4

\* A call that returns keeps the invariant, if it says well what it has done.
LEMMA ReturnInv ==
  ASSUME ScriptInv, TypeInv', Quiet, UNCHANGED scriptVars,
         NEW how \in Outcomes \ {"none"}, NEW ret \in BOOLEAN, Return(Root, how, ret),
         frame[Root].pc \notin {"idle", "wait"},
         how \in {"skip", "ok"} => /\ phase = "compiling" => Compiled(frame[Root].src)
                                   /\ phase = "linking" => Linked
  PROVE  ScriptInv'
<1> USE DEF ScriptInv
<1> DEFINE F == Returned(Root, how, ret)
<1>1. /\ frame' = [frame EXCEPT ![Root] = F]
      /\ F.pc = "idle" /\ F.op = frame[Root].op /\ F.src = frame[Root].src /\ F.how = how
      /\ Idle.pc = "idle"
  BY ShellAssumption, FrameFields DEF Return
<1> HIDE DEF F
<1>2. phase' = phase /\ todo' = todo /\ good' = good
  BY DEF scriptVars
<1>3. ScriptTypeOK'
  BY <1>2 DEF ScriptTypeOK, TypeInv
<1>4. /\ OneTool' /\ NoFuture' /\ StampsSound' /\ StampsTell' /\ ToolReadsWell'
      /\ frame'[Root] = F
      /\ (\A s \in Sources : Compiled(s)' <=> Compiled(s)) /\ (Linked' <=> Linked)
  BY <1>1, <1>2, LocalStep DEF NoFuture, ScriptTypeOK, TypeOK
<1>5. CallOfPhase' /\ StatsHold'
  BY <1>1, <1>2, <1>4 DEF CallOfPhase, StatsHold, InPass
<1>6. phase = "compiling" => frame[Root].src \in Sources
  BY <1>1 DEF CallOfPhase, ScriptTypeOK
<1>7. Progress'
  BY <1>1, <1>2, <1>4, <1>6 DEF Progress
<1> QED
  BY <1>3, <1>4, <1>5, <1>7

\* So does a call that goes on to run its command, if it needs to.
LEMMA NeedsRunInv ==
  ASSUME ScriptInv, TypeInv', Quiet, UNCHANGED scriptVars, NeedsRun(Root),
         frame[Root].pc \notin {"idle", "wait"},
         frame[Root].op = "compile" =>
           LET s == frame[Root].src
           IN  srcTime[s] # Absent /\ (objTime[s] = Absent \/ objTime[s] < srcTime[s]),
         frame[Root].op = "link" => execTime = Absent \/ execOf # objVer
  PROVE  ScriptInv'
<1> USE DEF ScriptInv
<1> DEFINE F == [Request(Root) EXCEPT !.pc = "spawn"]
<1>1. /\ frame' = [frame EXCEPT ![Root] = F]
      /\ F.pc = "spawn" /\ F.op = frame[Root].op /\ F.src = frame[Root].src
      /\ Idle.pc = "idle"
  BY ShellAssumption, FrameFields DEF NeedsRun
<1> HIDE DEF F
<1>2. phase' = phase /\ todo' = todo /\ good' = good
  BY DEF scriptVars
<1>3. ScriptTypeOK'
  BY <1>2 DEF ScriptTypeOK, TypeInv
<1>4. /\ OneTool' /\ NoFuture' /\ StampsSound' /\ StampsTell' /\ ToolReadsWell'
      /\ frame'[Root] = F
      /\ (\A s \in Sources : Compiled(s)' <=> Compiled(s)) /\ (Linked' <=> Linked)
  BY <1>1, <1>2, LocalStep DEF NoFuture, ScriptTypeOK, TypeOK
<1>5. CallOfPhase' /\ StatsHold'
  BY <1>1, <1>2, <1>4 DEF CallOfPhase, StatsHold, InPass, Quiet, files
<1>6. Progress'
  BY <1>1, <1>2, <1>4 DEF Progress
<1> QED
  BY <1>3, <1>4, <1>5, <1>6

\* The stats of a call keep the invariant.
LEMMA StatsInv ==
  ASSUME ScriptInv, UNCHANGED scriptVars,
         \/ StatSource(Root) \/ StatOutput(Root) \/ StatExec(Root)
         \/ StatObject(Root) \/ StatsDone(Root)
  PROVE  ScriptInv'
<1> USE DEF ScriptInv
<1> DEFINE R == frame[Root]
<1>0. /\ Root \in Pid /\ R \in Frames /\ frame \in [Pid -> Frames] /\ R \in SoundFrames
      /\ Idle.pc = "idle"
  BY ShellAssumption, FrameFields, FrameTypes
<1>1. TypeInv'
  BY <1>0, CallStepTypes DEF CallStep
<1>2. ScriptTypeOK'
  BY <1>1 DEF ScriptTypeOK, TypeInv, scriptVars
<1>3. ASSUME Quiet, Return(Root, "early", FALSE), R.pc \notin {"idle", "wait"} PROVE ScriptInv'
  BY <1>1, <1>3, ReturnInv DEF Outcomes
<1>4. phase' = phase /\ todo' = todo /\ good' = good
  BY DEF scriptVars
<1>5. ASSUME NEW F, frame' = [frame EXCEPT ![Root] = F], Quiet,
             R.pc \in {"stat_src", "stat_exec", "stat_objs"},
             F.pc \in {"stat_out", "stat_objs"}, F.op = R.op, F.src = R.src,
             F.pc = "stat_out" => F.op = "compile" /\ ~ F.forced,
             F.pc = "stat_objs" => F.op = "link", StatsHold'
      PROVE  ScriptInv'
  <2>1. /\ OneTool' /\ NoFuture' /\ StampsSound' /\ StampsTell' /\ ToolReadsWell'
        /\ frame'[Root] = F
        /\ (\A s \in Sources : Compiled(s)' <=> Compiled(s)) /\ (Linked' <=> Linked)
    BY <1>4, <1>5, LocalStep DEF NoFuture, ScriptTypeOK, TypeOK
  <2>2. CallOfPhase'
    BY <1>0, <1>4, <1>5, <2>1 DEF CallOfPhase, InPass
  <2>3. Progress'
    BY <1>4, <1>5, <2>1 DEF Progress
  <2> QED
    BY <1>1, <1>2, <1>5, <2>1, <2>2, <2>3
<1>6. CASE StatSource(Root)
  <2>1. R.pc = "stat_src" /\ R.op = "compile" /\ ~ R.forced /\ R.src \in Sources /\ Quiet
    BY <1>0, <1>6 DEF StatSource, At, CallOfPhase, SoundFrames
  <2>2. CASE Return(Root, "early", FALSE)
    BY <1>3, <2>1, <2>2
  <2>3. CASE frame' = [frame EXCEPT ![Root].mtime = srcTime[R.src], ![Root].pc = "stat_out"]
             /\ srcTime[R.src] # Absent
    <3> DEFINE F == [R EXCEPT !.mtime = srcTime[R.src], !.pc = "stat_out"]
    <3>1. /\ frame' = [frame EXCEPT ![Root] = F] /\ F.pc = "stat_out" /\ F.op = R.op
          /\ F.src = R.src /\ F.mtime = srcTime[R.src] /\ F.forced = R.forced
      BY <1>0, <2>3 DEF Frames
    <3> HIDE DEF F
    <3>2. StatsHold'
      BY <1>0, <2>1, <2>3, <3>1 DEF StatsHold, Quiet, files
    <3> QED
      BY <1>5, <2>1, <3>1, <3>2
  <2> QED
    BY <1>6, <2>1, <2>2, <2>3 DEF StatSource
<1>7. CASE StatOutput(Root)
  <2>1. /\ R.pc = "stat_out" /\ R.op = "compile" /\ R.src \in Sources /\ Quiet
        /\ R.mtime = srcTime[R.src] /\ R.mtime # Absent
    BY <1>0, <1>7 DEF StatOutput, At, CallOfPhase, SoundFrames, StatsHold
  <2>2. CASE Return(Root, "early", FALSE)
    BY <1>3, <2>1, <2>2
  <2>3. CASE UpToDate(Root) /\ Return(Root, "skip", TRUE)
    <3>1. Compiled(R.src)
      BY <2>1, <2>3 DEF UpToDate, Compiled, StampsSound
    <3>2. phase # "linking"
      BY <2>1 DEF CallOfPhase
    <3> QED
      BY <1>1, <2>1, <2>3, <3>1, <3>2, ReturnInv DEF Outcomes
  <2>4. CASE ~ UpToDate(Root) /\ NeedsRun(Root)
    <3>1. srcTime[R.src] \in Nat /\ objTime[R.src] \in Nat
      BY <2>1 DEF TypeInv, TypeOK
    <3>2. srcTime[R.src] # Absent /\ (objTime[R.src] = Absent \/ objTime[R.src] < srcTime[R.src])
      BY <2>1, <2>4, <3>1 DEF UpToDate
    <3> QED
      BY <1>1, <2>1, <2>4, <3>2, NeedsRunInv
  <2> QED
    BY <1>7, <2>1, <2>2, <2>3, <2>4 DEF StatOutput
<1>8. CASE StatExec(Root)
  <2>1. R.pc = "stat_exec" /\ R.op = "link" /\ Quiet
    BY <1>0, <1>8 DEF StatExec, At, CallOfPhase
  <2>2. CASE Return(Root, "early", FALSE)
    BY <1>3, <2>1, <2>2
  <2>3. CASE frame' = [frame EXCEPT ![Root].mtime = execTime,
                                    ![Root].requires = execTime = Absent,
                                    ![Root].pc = "stat_objs"]
    <3> DEFINE F == [R EXCEPT !.mtime = execTime, !.requires = execTime = Absent,
                              !.pc = "stat_objs"]
    <3>1. /\ frame' = [frame EXCEPT ![Root] = F] /\ F.pc = "stat_objs" /\ F.op = R.op
          /\ F.src = R.src /\ F.mtime = execTime /\ F.left = R.left
          /\ F.requires <=> execTime = Absent
      BY <1>0, <2>3 DEF Frames
    <3> HIDE DEF F
    <3>2. R.left = Sources
      BY <2>1 DEF StatsHold
    <3>3. StatsHold'
      BY <1>0, <2>1, <2>3, <3>1, <3>2 DEF StatsHold, Quiet, files
    <3> QED
      BY <1>5, <2>1, <3>1, <3>3
  <2> QED
    BY <1>8, <2>1, <2>2, <2>3 DEF StatExec
<1>9. CASE StatObject(Root)
  <2>1. R.pc = "stat_objs" /\ R.op = "link" /\ R.mtime = execTime /\ Quiet
    BY <1>0, <1>9 DEF StatObject, At, CallOfPhase, StatsHold
  <2>2. CASE Return(Root, "early", FALSE)
    BY <1>3, <2>1, <2>2
  <2>3. CASE \E s \in R.left : /\ objTime[s] # Absent
                               /\ frame' = [frame EXCEPT ![Root].left = @ \ {s},
                                                         ![Root].requires = @ \/ NewerThanExec(Root, s)]
    <3>1. PICK s \in R.left : /\ objTime[s] # Absent
                              /\ frame' = [frame EXCEPT ![Root].left = @ \ {s},
                                             ![Root].requires = @ \/ NewerThanExec(Root, s)]
      BY <2>3
    <3> DEFINE N == NewerThanExec(Root, s)
               F == [R EXCEPT !.left = @ \ {s}, !.requires = @ \/ N]
    <3>2. N <=> execTime # Absent /\ objTime[s] > execTime
      BY <2>1 DEF NewerThanExec
    <3> HIDE DEF N
    <3>3. /\ frame' = [frame EXCEPT ![Root] = F] /\ F.pc = "stat_objs" /\ F.op = R.op
          /\ F.src = R.src /\ F.mtime = execTime /\ F.left = R.left \ {s}
          /\ F.requires <=> R.requires \/ N
      BY <1>0, <2>1, <3>1 DEF Frames, N
    <3> HIDE DEF F
    <3>4. s \in Sources /\ objTime[s] \in Nat /\ execTime \in Nat
      BY <1>0 DEF TypeInv, TypeOK, Frames
    <3>5. N => execOf # objVer
      BY <3>2, <3>4 DEF StampsTell, TypeInv, TypeOK
    <3>6. StatsHold'
      <4>1. frame'[Root] = F
        BY <1>0, <3>3
      <4>2. CASE R.requires
        BY <2>1, <3>3, <4>1, <4>2 DEF StatsHold, Quiet, files
      <4>3. CASE ~ R.requires /\ N
        BY <2>1, <3>3, <3>5, <4>1, <4>3 DEF StatsHold, Quiet, files
      <4>4. CASE ~ R.requires /\ ~ N
        <5>1. /\ execTime # Absent /\ objTime[s] <= execTime
              /\ \A t \in Sources \ R.left : objTime[t] # Absent /\ objTime[t] <= execTime
          BY <2>1, <3>2, <3>4, <4>4 DEF StatsHold
        <5> QED
          BY <2>1, <3>1, <3>3, <4>1, <4>4, <5>1 DEF StatsHold, Quiet, files
      <4> QED
        BY <4>2, <4>3, <4>4
    <3> QED
      BY <1>5, <2>1, <3>3, <3>6
  <2> QED
    BY <1>9, <2>1, <2>2, <2>3 DEF StatObject
<1>10. CASE StatsDone(Root)
  <2>1. R.pc = "stat_objs" /\ R.op = "link" /\ R.mtime = execTime /\ R.left = {} /\ Quiet
    BY <1>0, <1>10 DEF StatsDone, At, CallOfPhase, StatsHold
  <2>2. CASE ~ R.requires /\ Return(Root, "skip", TRUE)
    <3>1. execTime # Absent /\ \A s \in Sources : execOf[s] = objVer[s]
      BY <2>1, <2>2 DEF StatsHold, StampsSound
    <3>2. Linked
      BY <3>1 DEF Linked, TypeInv, TypeOK
    <3>3. phase # "compiling"
      BY <1>0, <2>1 DEF CallOfPhase
    <3> QED
      BY <1>1, <2>1, <2>2, <3>2, <3>3, ReturnInv DEF Outcomes
  <2>3. CASE R.requires /\ NeedsRun(Root)
    BY <1>1, <2>1, <2>3, NeedsRunInv DEF StatsHold
  <2> QED
    BY <1>10, <2>1, <2>2, <2>3 DEF StatsDone
<1> QED
  BY <1>6, <1>7, <1>8, <1>9, <1>10

\* Running the command keeps the invariant: the call forks and then waits.
LEMMA SyncInv ==
  ASSUME ScriptInv, UNCHANGED scriptVars,
         Refused(Root) \/ SyncForkFails(Root) \/ SyncFork(Root) \/ SyncWait(Root)
  PROVE  ScriptInv'
<1> USE DEF ScriptInv
<1> DEFINE R == frame[Root]
<1>0. /\ Root \in Pid /\ R \in Frames /\ frame \in [Pid -> Frames] /\ R \in SoundFrames
      /\ Idle.pc = "idle" /\ ShellTypeOK
  BY ShellAssumption, FrameFields, FrameTypes DEF TypeInv, TypeOK
<1>1. TypeInv'
  BY <1>0, CallStepTypes DEF CallStep
<1>2. ScriptTypeOK'
  BY <1>1 DEF ScriptTypeOK, TypeInv, scriptVars
<1>3. phase' = phase /\ todo' = todo /\ good' = good
  BY DEF scriptVars
<1>4. UNCHANGED <<clock, files, snap>>
  BY DEF Refused, SyncForkFails, SyncFork, SyncWait, Quiet
<1>5. NoFuture' /\ StampsSound' /\ StampsTell'
  BY <1>3, <1>4 DEF NoFuture, StampsSound, StampsTell, files
<1>6. CASE Refused(Root) \/ SyncForkFails(Root)
  <2>1. R.pc = "spawn" /\ Quiet
    BY <1>6 DEF Refused, SyncForkFails, At, Quiet, RunAsyncFails
  <2>2. \E how \in {"early", "nofork"}, ret \in BOOLEAN : Return(Root, how, ret)
    BY <1>6 DEF Refused, SyncForkFails
  <2> QED
    BY <1>1, <2>1, <2>2, ReturnInv DEF Outcomes
<1>7. CASE SyncFork(Root)
  <2>1. PICK c \in Pid :
          /\ Fork(Root, c)
          /\ frame' = [frame EXCEPT ![Root].pc = "wait", ![Root].child = c,
                                    ![c] = [Request(Root) EXCEPT !.pc = "wait"]]
    BY <1>7 DEF SyncFork
  <2>2. R.pc = "spawn" /\ c # Root /\ \A q \in Pid \ {Root} : run[q] = "free"
    BY <1>7, <2>1 DEF SyncFork, At, OneTool, Fork
  <2> DEFINE F == [R EXCEPT !.pc = "wait", !.child = c]
             G == [Request(Root) EXCEPT !.pc = "wait"]
  <2>3. /\ F.pc = "wait" /\ F.child = c /\ F.op = R.op /\ F.src = R.src
        /\ G.op = R.op /\ G.src = R.src
    BY <1>0, FrameFields DEF Frames
  <2>4. frame'[Root] = F /\ frame'[c] = G
    BY <1>0, <2>1, <2>2
  <2> HIDE DEF F, G
  <2>5. /\ run'[Root] = "user" /\ run'[c] = "forked" /\ parent'[c] = Root
        /\ \A q \in Pid \ {Root, c} : run'[q] = "free"
    BY <1>0, <2>1, <2>2 DEF Fork, OneTool, ShellTypeOK
  <2>6. OneTool'
    BY <2>2, <2>3, <2>4, <2>5 DEF OneTool
  <2>7. CallOfPhase'
    BY <1>0, <1>3, <2>2, <2>3, <2>4 DEF CallOfPhase, InPass
  <2>8. StatsHold'
    BY <1>4, <2>2, <2>3, <2>4, <2>5, <1>0 DEF StatsHold, files, OneTool
  <2>9. ToolReadsWell'
    BY <2>2, <2>5 DEF ToolReadsWell
  <2>10. Progress'
    BY <1>3, <1>4, <2>3, <2>4 DEF Progress, Compiled, Linked, files
  <2> QED
    BY <1>1, <1>2, <1>5, <2>6, <2>7, <2>8, <2>9, <2>10
<1>8. CASE SyncWait(Root)
  <2> DEFINE k == R.child
  <2>1. PICK how \in Outcomes, ret \in BOOLEAN :
          /\ ShellWait(Root, k, how)
          /\ frame' = [q \in Pid |-> IF q = Root
                                     THEN Returned(Root, how, ret)
                                     ELSE IF run'[q] = "free" THEN Idle ELSE frame[q]]
    BY <1>8 DEF SyncWait
  <2>2. /\ R.pc = "wait" /\ k \in Pid \ {Root} /\ run[k] \in {"forked", "tool", "zombie"}
        /\ IsChild(Root, k) /\ \A q \in Pid \ {Root, k} : run[q] = "free"
    BY <1>8 DEF SyncWait, At, OneTool, IsChild
  <2>3. WaitReaps(Root, k, how)
    BY <2>1, <2>2 DEF ShellWait, WaitSeesStop, WaitNoChild
  <2>4. how \in {"ok", "fail"} /\ run[k] = "zombie" /\ how = ended[k]
    BY <2>2, <2>3 DEF WaitReaps, OneTool
  <2>5. run'[Root] = "user" /\ \A q \in Pid \ {Root} : run'[q] = "free"
    BY <1>0, <2>2, <2>3 DEF WaitReaps, OneTool, ShellTypeOK
  <2> DEFINE F == Returned(Root, how, ret)
  <2>6. frame'[Root] = F /\ F.pc = "idle" /\ F.op = R.op /\ F.src = R.src /\ F.how = how
    BY <1>0, <2>1, FrameFields
  <2> HIDE DEF F
  <2>7. how = "ok" => /\ R.op = "compile" => Compiled(R.src)
                      /\ R.op = "link" => Linked
    <3>1. frame[k].op = R.op /\ frame[k].src = R.src
      BY <2>2, <2>4 DEF OneTool
    <3>2. how = "ok" => /\ frame[k].op = "compile" => Compiled(frame[k].src)
                        /\ frame[k].op = "link" => Linked
      BY <2>2, <2>4 DEF ToolReadsWell
    <3> QED
      BY <3>1, <3>2
  <2>8. OneTool' /\ ToolReadsWell'
    <3>1. OneTool'
      BY <2>5, <2>6 DEF OneTool
    <3>2. ToolReadsWell'
      BY <2>5 DEF ToolReadsWell
    <3> QED
      BY <3>1, <3>2
  <2>9. CallOfPhase' /\ StatsHold'
    BY <1>0, <1>3, <2>2, <2>4, <2>6 DEF CallOfPhase, StatsHold, InPass
  <2>10. Progress'
    <3>1. (\A s : Compiled(s)' <=> Compiled(s)) /\ (Linked' <=> Linked)
      BY <1>4 DEF Compiled, Linked, files
    <3>2. (phase = "compiling" => R.op = "compile") /\ (phase = "linking" => R.op = "link")
      BY <1>0, <2>2 DEF CallOfPhase
    <3> QED
      BY <1>3, <2>4, <2>6, <2>7, <3>1, <3>2 DEF Progress
  <2> QED
    BY <1>1, <1>2, <1>5, <2>8, <2>9, <2>10
<1> QED
  BY <1>6, <1>7, <1>8

\* A tool that is at work may leave no output at all: what the stamps tell of
\* the other files is as true as before.
LEMMA OutputGone ==
  ASSUME ScriptInv, NEW c \in Pid \ {Root}, run[c] = "tool",
         UNCHANGED clock, UNCHANGED files \/ Writes(c, Absent, Blank),
         phase' = "compiling" => phase = "compiling"
  PROVE  /\ NoFuture' /\ StampsSound' /\ StampsTell'
         /\ \A s \in Sources : frame[Root].op = "link" \/ s # frame[Root].src =>
              (Compiled(s) => Compiled(s)')
<1> USE DEF ScriptInv
<1> DEFINE R == frame[Root]
<1>0. TypeOK /\ execTime \in Nat /\ clock \in Nat
  BY DEF TypeInv, TypeOK
<1>1. /\ R.pc = "wait" /\ frame[c].op = R.op /\ frame[c].src = R.src
      /\ R.op = "compile" \/ R.op = "link"
      /\ phase = "linking" => R.op = "link"
      /\ \A q \in Pid : run[q] # "zombie"
  BY FrameFields DEF OneTool, CallOfPhase, InPass
<1>2. CASE UNCHANGED files
  BY <1>2 DEF files, NoFuture, StampsSound, StampsTell, Compiled
<1>3. CASE Writes(c, Absent, Blank) /\ R.op = "compile"
  <2>1. PICK s \in Sources : s = R.src
    BY <1>1, <1>3, FrameTypes, ShellAssumption DEF SoundFrames
  <2>2. /\ UNCHANGED <<srcTime, srcVer, execTime, execOf>>
        /\ objTime'[s] = 0 /\ objVer'[s] = 0
        /\ \A t \in Sources : t # s => objTime'[t] = objTime[t] /\ objVer'[t] = objVer[t]
    BY <1>0, <1>1, <1>3, <2>1 DEF Writes, TypeOK, Absent, Blank, Garbage
  <2>3. srcTime[s] # Absent /\ (objTime[s] = Absent \/ objTime[s] < srcTime[s])
    BY <1>1, <1>3, <2>1 DEF StatsHold
  <2>4. \A t \in Sources : /\ srcTime[t] <= clock /\ objTime'[t] <= clock
                           /\ objVer'[t] <= srcVer[t] /\ execOf[t] <= srcVer[t]
    BY <1>0, <2>2 DEF NoFuture, TypeOK
  <2>5. NoFuture'
    BY <2>2, <2>4 DEF NoFuture
  <2>6. StampsSound'
    BY <2>2 DEF StampsSound, Absent
  <2>7. StampsTell'
    BY <1>0, <2>2, <2>3 DEF StampsTell, Absent
  <2>8. \A t \in Sources : t # R.src => (Compiled(t) => Compiled(t)')
    BY <2>1, <2>2 DEF Compiled
  <2> QED
    BY <1>3, <2>5, <2>6, <2>7, <2>8
<1>4. CASE Writes(c, Absent, Blank) /\ R.op = "link"
  <2>1. /\ UNCHANGED <<srcTime, srcVer, objTime, objVer>>
        /\ execTime' = 0 /\ \A s \in Sources : execOf'[s] = 0
    BY <1>1, <1>4 DEF Writes, Absent, Blank, Garbage
  <2>2. \A t \in Sources : /\ srcTime[t] <= clock /\ objTime[t] <= clock
                           /\ objVer[t] <= srcVer[t] /\ execOf'[t] <= srcVer[t]
    BY <1>0, <2>1 DEF NoFuture, TypeOK
  <2>3. NoFuture'
    BY <1>0, <2>1, <2>2 DEF NoFuture
  <2>4. StampsSound' /\ StampsTell'
    BY <2>1 DEF StampsSound, StampsTell, Absent
  <2>5. \A t \in Sources : Compiled(t) => Compiled(t)'
    BY <2>1 DEF Compiled
  <2> QED
    BY <2>3, <2>4, <2>5
<1> QED
  BY <1>1, <1>2, <1>3, <1>4

\* What a tool does to its own files and frame, seen from the call that waits
\* for it: the call stays where it is.
LEMMA ToolInv ==
  ASSUME ScriptInv, UNCHANGED scriptVars, NEW c \in Pid, ToolStep(c)
  PROVE  ScriptInv'
<1> USE DEF ScriptInv
<1> DEFINE R == frame[Root]
<1>0. /\ Root \in Pid /\ R \in Frames /\ frame \in [Pid -> Frames] /\ R \in SoundFrames
      /\ Idle.pc = "idle" /\ ShellTypeOK /\ TypeOK
  BY ShellAssumption, FrameFields, FrameTypes DEF TypeInv, TypeOK
<1>1. TypeInv'
  BY ToolTypes
<1>2. ScriptTypeOK'
  BY <1>1 DEF ScriptTypeOK, TypeInv, scriptVars
<1>3. phase' = phase /\ todo' = todo /\ good' = good
  BY DEF scriptVars
<1>4. run[c] \in {"forked", "tool"} /\ c # Root /\ ~ ToolNotStarted(c)
  BY ScriptAssumption DEF ToolStep, ToolStarts, Exec, ToolNotStarted, ExecFails, ToolReads,
     ToolSucceeds, ToolFails, Executing, OneTool
<1>5. /\ R.pc = "wait" /\ R.child = c /\ parent[c] = Root
      /\ frame[c].op = R.op /\ frame[c].src = R.src
      /\ \A q \in Pid \ {Root, c} : run[q] = "free"
  BY <1>4 DEF OneTool
<1>6. /\ phase = "compiling" => R.op = "compile" /\ R.src \in Sources
      /\ phase = "linking" => R.op = "link"
      /\ phase \in {"compiling", "linking"}
  BY <1>0, <1>5 DEF CallOfPhase, InPass, ScriptTypeOK
<1>7. frame'[Root] = R
  BY <1>0, <1>4, <1>5 DEF ToolStep, ToolStarts, ToolReads, ToolSucceeds, ToolFails, ToolEnds
<1>8. CallOfPhase'
  BY <1>3, <1>7 DEF CallOfPhase, InPass
<1>9. CASE ToolStarts(c)
  <2>1. /\ run'[Root] = "user" /\ run'[c] = "tool" /\ parent' = parent /\ frame'[c].pc = "start"
        /\ frame'[c].op = R.op /\ frame'[c].src = R.src
        /\ \A q \in Pid \ {Root, c} : run'[q] = "free"
    BY <1>0, <1>4, <1>5, <1>9 DEF ToolStarts, Exec, OneTool, ShellTypeOK, Frames
  <2>2. UNCHANGED <<clock, files, snap>>
    BY <1>9 DEF ToolStarts
  <2>3. OneTool'
    BY <1>4, <1>5, <1>7, <2>1 DEF OneTool
  <2>4. NoFuture' /\ StampsSound' /\ StampsTell'
    BY <1>3, <2>2 DEF NoFuture, StampsSound, StampsTell, files
  <2>5. StatsHold'
    BY <1>0, <1>4, <1>5, <1>7, <2>1, <2>2 DEF StatsHold, files, OneTool
  <2>6. ToolReadsWell'
    BY <2>1 DEF ToolReadsWell
  <2>7. Progress'
    BY <1>3, <1>5, <1>7, <2>2 DEF Progress, Compiled, Linked, files
  <2> QED
    BY <1>1, <1>2, <1>8, <2>3, <2>4, <2>5, <2>6, <2>7
<1>10. CASE ToolReads(c)
  <2>1. /\ UNCHANGED shellVars /\ UNCHANGED <<clock, files>> /\ run[c] = "tool" /\ InputsUsable(c)
        /\ frame' = [frame EXCEPT ![c].pc = "read"]
    BY <1>4, <1>10 DEF ToolReads, Executing
  <2>2. /\ frame'[c].pc = "read" /\ frame'[c].op = R.op /\ frame'[c].src = R.src
    BY <1>0, <1>5, <2>1 DEF Frames
  <2>3. /\ R.op = "compile" => snap'[c][R.src] = srcVer[R.src]
        /\ R.op = "link" => snap'[c] = objVer
    <3>1. snap'[c] = [s \in Sources |->
                        CASE R.op = "link" -> objVer[s]
                          [] R.op = "compile" /\ s = R.src -> srcVer[s]
                          [] OTHER -> Garbage]
      BY <1>0, <1>5, <1>10 DEF ToolReads, TypeOK
    <3>2. R.op = "compile" => R.src \in Sources
      BY <1>0 DEF SoundFrames
    <3>3. objVer = [s \in Sources |-> objVer[s]]
      BY <1>0 DEF TypeOK
    <3> QED
      BY <3>1, <3>2, <3>3
  <2>4. OneTool'
    BY <1>4, <1>5, <1>7, <2>1, <2>2 DEF OneTool, shellVars
  <2>5. NoFuture' /\ StampsSound' /\ StampsTell'
    BY <1>3, <2>1 DEF NoFuture, StampsSound, StampsTell, files
  <2>6. StatsHold'
    BY <1>5, <1>7, <2>1 DEF StatsHold, files, shellVars
  <2>7. ToolReadsWell'
    BY <1>5, <2>1, <2>2, <2>3 DEF ToolReadsWell, files, shellVars, InputsUsable
  <2>8. Progress'
    BY <1>3, <1>5, <1>7, <2>1 DEF Progress, Compiled, Linked, files
  <2> QED
    BY <1>1, <1>2, <1>8, <2>4, <2>5, <2>6, <2>7, <2>8
<1>11. ASSUME NEW how \in {"ok", "fail"}, ToolEnds(c, how)
       PROVE  /\ OneTool' /\ UNCHANGED clock
              /\ run'[c] = "zombie" /\ ended'[c] = how
              /\ frame'[c].op = R.op /\ frame'[c].src = R.src
              /\ \A q \in Pid \ {Root, c} : run'[q] = "free"
  <2>1. /\ run'[Root] = "user" /\ run'[c] = "zombie" /\ ended'[c] = how /\ parent'[c] = Root
        /\ UNCHANGED clock /\ \A q \in Pid \ {Root, c} : run'[q] = "free"
    BY <1>0, <1>4, <1>5, <1>11 DEF ToolEnds, Ends, OneTool, ShellTypeOK
  <2>2. frame'[c].op = R.op /\ frame'[c].src = R.src
    BY <1>0, <1>5, <1>11, FrameFields DEF ToolEnds
  <2>3. OneTool'
    BY <1>4, <1>5, <1>7, <1>11, <2>1, <2>2 DEF OneTool
  <2> QED
    BY <2>1, <2>2, <2>3
<1>12. CASE ToolSucceeds(c)
  <2>1. Writes(c, clock, snap[c]) /\ ToolEnds(c, "ok") /\ run[c] = "tool" /\ frame[c].pc = "read"
    BY <1>4, <1>12 DEF ToolSucceeds, Executing
  <2>2. /\ OneTool' /\ UNCHANGED <<clock, srcTime, srcVer>>
        /\ run'[c] = "zombie" /\ ended'[c] = "ok" /\ frame'[c].op = R.op /\ frame'[c].src = R.src
        /\ \A q \in Pid \ {Root, c} : run'[q] = "free"
    BY <1>11, <2>1 DEF Writes
  <2>3. StatsHold'
    BY <1>4, <1>5, <1>7, <2>2 DEF StatsHold
  <2>4. CASE phase = "compiling"
    <3>0. PICK s \in Sources : s = R.src
      BY <1>6, <2>4
    <3>1. /\ R.op = "compile" /\ snap[c][s] = srcVer[s] /\ execTime < clock
          /\ clock \in Nat \ {0} /\ execTime \in Nat
      BY <1>0, <1>4, <1>5, <1>6, <2>1, <2>4, <3>0 DEF ToolReadsWell, NoFuture, TypeOK
    <3>2. UNCHANGED <<execTime, execOf>>
      BY <1>5, <2>1, <3>1 DEF Writes
    <3>3. /\ objTime'[s] = clock /\ objVer'[s] = srcVer[s]
          /\ \A t \in Sources : t # s => objTime'[t] = objTime[t] /\ objVer'[t] = objVer[t]
      BY <1>0, <1>5, <2>1, <3>0, <3>1 DEF Writes, TypeOK
    <3>4. /\ srcTime[s] \in Nat /\ srcVer[s] \in Nat /\ execOf[s] \in Nat
          /\ execOf[s] <= srcVer[s] /\ srcTime[s] <= clock
          /\ execTime # Absent => execOf[s] < srcVer[s]
      <4>1. srcTime[s] # Absent /\ (objTime[s] = Absent \/ objTime[s] < srcTime[s])
        BY <1>4, <1>5, <2>1, <3>0, <3>1 DEF StatsHold, OneTool
      <4> QED
        BY <1>0, <4>1 DEF TypeOK, NoFuture, StampsTell
    <3>5. NoFuture'
      <4>1. \A t \in Sources : /\ srcTime'[t] <= clock' /\ objTime'[t] <= clock'
                              /\ objVer'[t] <= srcVer'[t] /\ execOf'[t] <= srcVer'[t]
        BY <1>0, <2>2, <3>1, <3>2, <3>3, <3>4 DEF NoFuture, TypeOK
      <4> QED
        BY <1>3, <2>2, <3>1, <3>2, <4>1 DEF NoFuture
    <3>6. StampsSound'
      BY <2>2, <3>1, <3>2, <3>3 DEF StampsSound
    <3>7. StampsTell'
      <4>1. ASSUME NEW t \in Sources
            PROVE  /\ objTime'[t] # Absent /\ objTime'[t] < srcTime[t] => objVer'[t] < srcVer[t]
                   /\ execTime # Absent /\ srcTime[t] # Absent
                        /\ (objTime'[t] = Absent \/ objTime'[t] < srcTime[t])
                        => execOf[t] < srcVer[t]
                   /\ execTime # Absent /\ objTime'[t] > execTime => execOf[t] < objVer'[t]
        <5>1. CASE t = s
          BY <3>1, <3>3, <3>4, <5>1 DEF Absent
        <5>2. CASE t # s
          BY <3>3, <5>2 DEF StampsTell
        <5> QED
          BY <5>1, <5>2
      <4> QED
        BY <2>2, <3>2, <4>1 DEF StampsTell
    <3>8. Compiled(s)' /\ \A t \in Sources : Compiled(t) => Compiled(t)'
      BY <2>2, <3>1, <3>3 DEF Compiled, Absent
    <3>9. ToolReadsWell'
      BY <1>4, <2>2, <3>0, <3>1, <3>8 DEF ToolReadsWell
    <3>10. Progress'
      BY <1>3, <1>5, <1>7, <2>4, <3>8 DEF Progress
    <3> QED
      BY <1>1, <1>2, <1>8, <2>2, <2>3, <3>5, <3>6, <3>7, <3>9, <3>10
  <2>5. CASE phase = "linking"
    <3>1. /\ R.op = "link" /\ snap[c] = objVer /\ clock \in Nat \ {0}
          /\ \A s \in Sources : objTime[s] # Absent
      BY <1>0, <1>4, <1>5, <1>6, <2>1, <2>5 DEF ToolReadsWell, NoFuture, TypeOK
    <3>2. UNCHANGED <<objTime, objVer>> /\ execTime' = clock /\ execOf' = objVer
      BY <1>5, <2>1, <3>1 DEF Writes
    <3>3. \A s \in Sources : /\ objTime[s] \in Nat /\ objVer[s] \in Nat /\ srcVer[s] \in Nat
                             /\ objTime[s] <= clock /\ objVer[s] <= srcVer[s]
      BY <1>0 DEF TypeOK, NoFuture
    <3>4. NoFuture'
      BY <1>3, <2>2, <2>5, <3>1, <3>2, <3>3 DEF NoFuture
    <3>5. StampsSound'
      BY <2>2, <3>2 DEF StampsSound
    <3>6. StampsTell'
      BY <2>2, <3>1, <3>2, <3>3 DEF StampsTell
    <3>7. Linked' /\ \A t \in Sources : Compiled(t) => Compiled(t)'
      BY <2>2, <3>1, <3>2 DEF Compiled, Linked, Absent
    <3>8. ToolReadsWell'
      BY <1>4, <2>2, <3>1, <3>7 DEF ToolReadsWell
    <3>9. Progress'
      BY <1>3, <1>5, <1>7, <2>5, <3>7 DEF Progress
    <3> QED
      BY <1>1, <1>2, <1>8, <2>2, <2>3, <3>4, <3>5, <3>6, <3>8, <3>9
  <2> QED
    BY <1>6, <2>4, <2>5
<1>13. CASE ToolFails(c)
  <2>1. /\ UNCHANGED files \/ Writes(c, Absent, Blank)
        /\ ToolEnds(c, "fail") /\ run[c] = "tool"
    BY <1>4, <1>13 DEF ToolFails, Executing
  <2>2. /\ OneTool' /\ UNCHANGED <<clock, srcTime, srcVer>>
        /\ run'[c] = "zombie" /\ ended'[c] = "fail"
        /\ \A q \in Pid \ {Root, c} : run'[q] = "free"
    BY <1>11, <2>1 DEF Writes, files
  <2>3. /\ NoFuture' /\ StampsSound' /\ StampsTell'
        /\ \A s \in Sources : R.op = "link" \/ s # R.src => (Compiled(s) => Compiled(s)')
    BY <1>3, <1>4, <1>5, <2>1, <2>2, OutputGone
  <2>4. StatsHold'
    BY <1>4, <1>5, <1>7, <2>2 DEF StatsHold
  <2>5. ToolReadsWell'
    BY <2>2 DEF ToolReadsWell
  <2>6. Progress'
    BY <1>3, <1>5, <1>6, <1>7, <2>3 DEF Progress
  <2> QED
    BY <1>1, <1>2, <1>8, <2>2, <2>3, <2>4, <2>5, <2>6
<1> QED
  BY <1>4, <1>9, <1>10, <1>12, <1>13 DEF ToolStep

\* Time passing, an edit between two passes, and an interrupt keep the invariant.
LEMMA SurroundingsInv ==
  ASSUME ScriptInv
  PROVE  /\ Passing => ScriptInv'
         /\ \A s \in Sources : Edited(s) => ScriptInv'
         /\ Interrupt => ScriptInv'
         /\ UNCHANGED allVars => ScriptInv'
<1> USE DEF ScriptInv
<1>0. /\ Root \in Pid /\ TypeOK /\ clock \in Nat /\ execTime \in Nat
      /\ Idle.pc = "idle" /\ Idle.how = "none"
  BY ShellAssumption, FrameFields DEF TypeInv, TypeOK
<1>1. ASSUME UNCHANGED <<shellVars, frame, snap, objTime, objVer, execTime, execOf>>,
             \/ /\ srcTime' = srcTime /\ srcVer' = srcVer
                /\ phase' = phase /\ todo' = todo /\ good' = good
             \/ ~ InPass /\ phase' = "idle"
      PROVE  OneTool' /\ CallOfPhase' /\ StatsHold' /\ ToolReadsWell' /\ Progress'
  <2>1. OneTool'
    BY <1>1 DEF OneTool, shellVars
  <2>2. CASE /\ srcTime' = srcTime /\ srcVer' = srcVer
             /\ phase' = phase /\ todo' = todo /\ good' = good
    <3>1. CallOfPhase' /\ StatsHold'
      BY <1>1, <2>2 DEF CallOfPhase, StatsHold, InPass, shellVars
    <3>2. ToolReadsWell' /\ Progress'
      BY <1>1, <2>2 DEF ToolReadsWell, Progress, Compiled, Linked, shellVars
    <3> QED
      BY <2>1, <3>1, <3>2
  <2>3. CASE ~ InPass /\ phase' = "idle"
    <3>1. frame[Root].pc = "idle"
      BY <2>3 DEF CallOfPhase
    <3>2. \A c \in Pid \ {Root} : run[c] = "free"
      BY <3>1 DEF OneTool
    <3>3. CallOfPhase' /\ StatsHold' /\ Progress'
      BY <1>1, <2>3, <3>1 DEF CallOfPhase, StatsHold, Progress
    <3>4. ToolReadsWell'
      BY <1>1, <3>2 DEF ToolReadsWell, shellVars
    <3> QED
      BY <2>1, <3>3, <3>4
  <2> QED
    BY <1>1, <2>2, <2>3
<1>2. CASE Passing
  <2>1. /\ clock' = clock + 1 /\ UNCHANGED <<shellVars, files, frame, snap, job>>
        /\ UNCHANGED <<phase, todo, good>>
    BY <1>2 DEF Passing, Tick, scriptVars
  <2>2. TypeInv' /\ ScriptTypeOK'
    BY <1>2, <2>1, SurroundingsTypes DEF Passing, ScriptTypeOK, TypeInv
  <2>3. \A s \in Sources : srcTime[s] \in Nat /\ objTime[s] \in Nat
    BY <1>0 DEF TypeOK
  <2>4. NoFuture' /\ StampsSound' /\ StampsTell'
    BY <1>0, <2>1, <2>3 DEF NoFuture, StampsSound, StampsTell, files
  <2>5. OneTool' /\ CallOfPhase' /\ StatsHold' /\ ToolReadsWell' /\ Progress'
    <3>1. /\ UNCHANGED <<shellVars, frame, snap, objTime, objVer, execTime, execOf>>
          /\ srcTime' = srcTime /\ srcVer' = srcVer
          /\ phase' = phase /\ todo' = todo /\ good' = good
      BY <2>1 DEF files
    <3> QED
      BY <1>1, <3>1
  <2> QED
    BY <2>2, <2>4, <2>5
<1>3. ASSUME NEW s \in Sources, Edited(s) PROVE ScriptInv'
  <2>1. /\ ~ InPass /\ phase' = "idle" /\ clock > objTime[s] /\ UNCHANGED <<todo, good>>
        /\ UNCHANGED <<shellVars, clock, frame, snap, job, objTime, objVer, execTime, execOf>>
        /\ srcTime'[s] = clock /\ srcVer'[s] = srcVer[s] + 1
        /\ \A t \in Sources : t # s => srcTime'[t] = srcTime[t] /\ srcVer'[t] = srcVer[t]
    BY <1>0, <1>3 DEF Edited, Edit, TypeOK
  <2>2. TypeInv' /\ ScriptTypeOK'
    BY <1>3, <2>1, SurroundingsTypes DEF Edited, ScriptTypeOK, TypeInv
  <2>3. \A t \in Sources : /\ objTime[t] \in Nat /\ objVer[t] \in Nat /\ execOf[t] \in Nat
                           /\ srcTime[t] \in Nat /\ srcVer[t] \in Nat
    BY <1>0 DEF TypeOK
  <2>4. ASSUME NEW t \in Sources
        PROVE  /\ srcTime'[t] <= clock /\ objTime[t] <= clock
               /\ objVer[t] <= srcVer'[t] /\ execOf[t] <= srcVer'[t]
               /\ objTime[t] # Absent /\ objTime[t] >= srcTime'[t] => objVer[t] = srcVer'[t]
               /\ objTime[t] # Absent /\ objTime[t] < srcTime'[t] => objVer[t] < srcVer'[t]
               /\ execTime # Absent /\ srcTime'[t] # Absent
                    /\ (objTime[t] = Absent \/ objTime[t] < srcTime'[t])
                    => execOf[t] < srcVer'[t]
    <3>1. objTime[t] <= clock /\ objVer[t] <= srcVer[t] /\ execOf[t] <= srcVer[t]
      BY DEF NoFuture
    <3>2. CASE t = s
      BY <1>0, <2>1, <2>3, <3>1, <3>2
    <3>3. CASE t # s
      BY <2>1, <3>3 DEF NoFuture, StampsSound, StampsTell
    <3> QED
      BY <3>2, <3>3
  <2>5. NoFuture' /\ StampsSound' /\ StampsTell'
    BY <2>1, <2>4 DEF NoFuture, StampsSound, StampsTell
  <2>6. OneTool' /\ CallOfPhase' /\ StatsHold' /\ ToolReadsWell' /\ Progress'
    BY <1>1, <2>1
  <2> QED
    BY <2>2, <2>5, <2>6
<1>4. CASE Interrupt
  <2>1. /\ UNCHANGED files \/ \E c \in Pid : Executing(c) /\ Writes(c, Absent, Blank)
        /\ run' = [p \in Pid |-> IF p = Root THEN "user" ELSE "free"]
        /\ parent' = [p \in Pid |-> IF p = Root THEN InitPid ELSE NoPid]
        /\ ended' = [p \in Pid |-> "none"]
        /\ frame' = [p \in Pid |-> Idle] /\ snap' = [p \in Pid |-> Blank]
        /\ phase' = "idle" /\ todo' = {} /\ good' = FALSE /\ UNCHANGED <<clock, job>>
    BY <1>4 DEF Interrupt
  <2>2. NoFuture' /\ StampsSound' /\ StampsTell' /\ FilesTypeOK'
    <3>1. CASE UNCHANGED files
      <4>1. FilesTypeOK'
        BY <2>1, <3>1, FilesTypes
      <4>2. NoFuture' /\ StampsSound' /\ StampsTell'
        BY <2>1, <3>1 DEF files, NoFuture, StampsSound, StampsTell
      <4> QED
        BY <4>1, <4>2
    <3>2. CASE \E c \in Pid : Executing(c) /\ Writes(c, Absent, Blank)
      <4>1. PICK c \in Pid : Executing(c) /\ Writes(c, Absent, Blank)
        BY <3>2
      <4>2. c \in Pid \ {Root} /\ run[c] = "tool"
        BY <4>1 DEF Executing, OneTool
      <4>3. FilesTypeOK'
        <5>1. Absent \in Nat /\ Blank \in [Sources -> Nat]
          BY DEF Absent, Blank, Garbage
        <5> QED
          BY <2>1, <4>1, <5>1, FilesTypes
      <4> QED
        BY <2>1, <4>1, <4>2, <4>3, OutputGone
    <3> QED
      BY <2>1, <3>1, <3>2
  <2>3. TypeInv'
    <3>1. ShellTypeOK'
      BY <2>1 DEF ShellTypeOK, RunStates, Endings, NoPid, InitPid
    <3>2. frame' \in [Pid -> SoundFrames] /\ snap' \in [Pid -> [Sources -> Nat]]
      BY <1>0, <2>1, FrameTypes DEF Blank, Garbage
    <3> QED
      BY <1>0, <2>1, <2>2, <3>1, <3>2, TypeParts DEF TypeOK
  <2>4. ScriptTypeOK'
    BY <2>1, <2>3 DEF ScriptTypeOK, TypeInv
  <2>5. /\ frame'[Root] = Idle /\ run'[Root] = "user"
        /\ \A c \in Pid \ {Root} : run'[c] = "free"
    BY <1>0, <2>1
  <2>6. OneTool' /\ ToolReadsWell'
    BY <1>0, <2>5 DEF OneTool, ToolReadsWell
  <2>7. CallOfPhase' /\ StatsHold' /\ Progress'
    BY <1>0, <2>1, <2>5 DEF CallOfPhase, StatsHold, Progress
  <2> QED
    BY <2>2, <2>3, <2>4, <2>6, <2>7
<1>5. CASE UNCHANGED allVars
  <2>1. UNCHANGED <<shellVars, clock, files, frame, snap, job, phase, todo, good>>
    BY <1>5 DEF allVars, vars, scriptVars
  <2>2. TypeInv' /\ ScriptTypeOK'
    BY <1>5, <2>1, SurroundingsTypes DEF allVars, ScriptTypeOK, TypeInv
  <2>3. NoFuture' /\ StampsSound' /\ StampsTell'
    BY <2>1 DEF NoFuture, StampsSound, StampsTell, files
  <2>4. OneTool' /\ CallOfPhase' /\ StatsHold' /\ ToolReadsWell' /\ Progress'
    <3>1. /\ UNCHANGED <<shellVars, frame, snap, objTime, objVer, execTime, execOf>>
          /\ srcTime' = srcTime /\ srcVer' = srcVer
          /\ phase' = phase /\ todo' = todo /\ good' = good
      BY <2>1 DEF files
    <3> QED
      BY <1>1, <3>1
  <2> QED
    BY <2>2, <2>3, <2>4
<1> QED
  BY <1>2, <1>3, <1>4, <1>5

LEMMA InitInv == ScriptInit => ScriptInv
<1> SUFFICES ASSUME ScriptInit PROVE ScriptInv
  OBVIOUS
<1>1. TypeInv /\ ScriptTypeOK
  BY TypeInit DEF ScriptInit, ScriptTypeOK, TypeInv
<1>2. /\ Root \in Pid /\ run[Root] = "user" /\ \A c \in Pid \ {Root} : run[c] = "free"
      /\ frame[Root] = Idle /\ Idle.pc = "idle" /\ Idle.how = "none"
      /\ phase = "idle" /\ good = FALSE
  BY <1>1, ShellAssumption, FrameFields DEF ScriptInit, Init, ShellInit
<1>3. /\ clock = 1 /\ execTime = 0
      /\ \A s \in Sources : /\ srcTime[s] \in {0, 1} /\ srcVer[s] \in {0, 1}
                            /\ objTime[s] = 0 /\ objVer[s] = 0 /\ execOf[s] = 0
  BY DEF ScriptInit, Init, Absent, Garbage, Blank
<1>4. OneTool /\ ToolReadsWell
  BY <1>2 DEF OneTool, ToolReadsWell
<1>5. CallOfPhase /\ StatsHold /\ Progress
  BY <1>2 DEF CallOfPhase, StatsHold, Progress
<1>6. NoFuture /\ StampsSound /\ StampsTell
  BY <1>2, <1>3 DEF NoFuture, StampsSound, StampsTell, Absent
<1> QED
  BY <1>1, <1>4, <1>5, <1>6 DEF ScriptInv

LEMMA NextInv == ScriptInv /\ [ScriptNext]_allVars => ScriptInv'
<1> SUFFICES ASSUME ScriptInv, [ScriptNext]_allVars PROVE ScriptInv'
  OBVIOUS
<1>1. ~ UserWait(Root)
  BY DEF ScriptInv, CallOfPhase, UserWait, At
<1>2. CASE PassStep
  <2>1. UNCHANGED scriptVars
    BY <1>2 DEF PassStep
  <2>2. CASE CallStep(Root)
    BY <1>1, <2>1, <2>2, StatsInv, SyncInv DEF CallStep
  <2>3. CASE \E c \in Pid : ToolStep(c)
    BY <2>1, <2>3, ToolInv
  <2> QED
    BY <1>2, <2>2, <2>3 DEF PassStep
<1> QED
  BY <1>2, ScriptStepInv, SurroundingsInv DEF ScriptNext

LEMMA ScriptInvariant == ScriptSpec => []ScriptInv
BY InitInv, NextInv, PTL DEF ScriptSpec

-----------------------------------------------------------------------------
(* However many sources, tools and processes there are, every variable of   *)
(* the script keeps its type.                                               *)
THEOREM ScriptTypeCorrect == ScriptSpec => []ScriptTypeOK
<1>1. ScriptInv => ScriptTypeOK
  BY DEF ScriptInv
<1> QED
  BY <1>1, ScriptInvariant, PTL

(* The comparisons of st_mtime in neo_compile_to_object_file and            *)
(* neo_link_null are sound at every moment: an output they would take for   *)
(* current holds what its inputs hold.                                      *)
THEOREM CachingSound == ScriptSpec => []StampsSound
<1>1. ScriptInv => StampsSound
  BY DEF ScriptInv
<1> QED
  BY <1>1, ScriptInvariant, PTL

(* A pass whose calls all went well or were skipped leaves the executable   *)
(* made of the current version of every source.                             *)
THEOREM PassesSound == ScriptSpec => []PassSound
<1>1. ScriptInv => PassSound
  <2> SUFFICES ASSUME ScriptInv, phase = "done", good
               PROVE  execTime # Absent /\ execOf = srcVer
    BY DEF PassSound
  <2>1. Linked /\ \A s \in Sources : Compiled(s)
    BY DEF ScriptInv, Progress
  <2> QED
    BY <2>1 DEF ScriptInv, TypeInv, TypeOK, Linked, Compiled
<1> QED
  BY <1>1, ScriptInvariant, PTL

(* A compiler or linker is run only when its output is missing or does not  *)
(* hold what its inputs hold: caching misses nothing it could save.         *)
THEOREM NothingNeedless == ScriptSpec => NoNeedlessWork
<1> DEFINE R == frame[Root]
           Needed == IF R.op = "compile"
                     THEN objTime[R.src] = Absent \/ objVer[R.src] # srcVer[R.src]
                     ELSE execTime = Absent \/ execOf # objVer
<1>1. ScriptInv /\ R.pc = "spawn" => Needed
  <2> SUFFICES ASSUME ScriptInv, R.pc = "spawn" PROVE Needed
    OBVIOUS
  <2> USE DEF ScriptInv
  <2>1. R.op = "compile" \/ R.op = "link"
    BY FrameFields, ShellAssumption DEF CallOfPhase, InPass
  <2>2. CASE R.op = "compile"
    <3>1. \A c \in Pid : run[c] # "zombie"
      BY DEF OneTool
    <3>2. PICK s \in Sources : s = R.src
      BY <2>2, FrameTypes, ShellAssumption DEF SoundFrames
    <3>3. objTime[s] = Absent \/ objTime[s] < srcTime[s]
      BY <2>2, <3>1, <3>2 DEF StatsHold
    <3>4. objTime[s] = Absent \/ objVer[s] < srcVer[s]
      BY <3>3 DEF StampsTell
    <3>5. objVer[s] \in Nat /\ srcVer[s] \in Nat
      BY DEF TypeInv, TypeOK
    <3> QED
      BY <2>2, <3>2, <3>4, <3>5
  <2>3. CASE R.op = "link"
    BY <2>3 DEF StatsHold
  <2> QED
    BY <2>1, <2>2, <2>3
<1>2. ScriptInv =>
        [frame[Root].pc = "spawn" /\ frame'[Root].pc = "wait" =>
           IF frame[Root].op = "compile"
           THEN objTime[frame[Root].src] = Absent \/ objVer[frame[Root].src] # srcVer[frame[Root].src]
           ELSE execTime = Absent \/ execOf # objVer]_allVars
  BY <1>1
<1> QED
  BY <1>2, ScriptInvariant, PTL DEF NoNeedlessWork

-----------------------------------------------------------------------------
(* The whole script implements BuildPromise: whatever the order of edits,   *)
(* failures and interrupts, "up to date" is reported only when no source is *)
(* stale.                                                                   *)
THEOREM PromiseKept == ScriptSpec => KeepsPromise
<1>1. ScriptInit => Promise!Init
  BY DEF ScriptInit, Init, Promise!Init, StaleSources, Report
<1>2. ScriptInv /\ [ScriptNext]_allVars => [Promise!Next]_(Promise!vars)
  <2> SUFFICES ASSUME ScriptInv, [ScriptNext]_allVars
               PROVE  Promise!Next \/ UNCHANGED <<StaleSources, Report>>
    BY DEF Promise!vars
  <2> USE DEF ScriptInv
  <2>0. StaleSources' \in SUBSET Sources
    BY DEF StaleSources
  <2>1. ASSUME StartPass \/ CompileNext \/ LinkAll PROVE Promise!Begin
    <3>1. Report' = "none"
      BY <2>1 DEF StartPass, CompileNext, LinkAll, Report
    <3>2. UNCHANGED files
      BY <2>1 DEF StartPass, CompileNext, LinkAll, CallCompile, CallLink, Quiet
    <3> QED
      BY <3>1, <3>2 DEF Promise!Begin, StaleSources, files
  <2>2. ASSUME EndPass PROVE Promise!Finish
    <3>1. Report = "none" /\ UNCHANGED files
      BY <2>2 DEF EndPass, Report, Quiet
    <3>2. StaleSources' = StaleSources
      BY <3>1 DEF StaleSources, files
    <3>3. phase' = "done" /\ good' \in BOOLEAN
      BY <2>2, NextInv DEF EndPass, ScriptTypeOK
    <3>4. CASE ~ good'
      BY <3>1, <3>2, <3>3, <3>4 DEF Promise!Finish, Report
    <3>5. CASE good'
      <4>1. Linked' /\ \A s \in Sources : Compiled(s)'
        BY <3>3, <3>5, NextInv DEF Progress
      <4>2. StaleSources' = {}
        BY <4>1 DEF StaleSources, Linked, Compiled
      <4> QED
        BY <3>1, <3>2, <3>3, <3>5, <4>2 DEF Promise!Finish, Report
    <3> QED
      BY <3>4, <3>5
  <2>3. ASSUME Interrupt PROVE Promise!Work
    BY <2>0, <2>3 DEF Interrupt, InPass, Promise!Work, Report
  <2>4. ASSUME NEW s \in Sources, Edited(s) PROVE Promise!Modify(s)
    <3>1. Report' = "none"
      BY <2>4 DEF Edited, Report
    <3>2. /\ UNCHANGED <<execTime, execOf>> /\ srcVer'[s] = srcVer[s] + 1
          /\ \A t \in Sources : t # s => srcVer'[t] = srcVer[t]
      BY <2>4 DEF Edited, Edit, TypeInv, TypeOK
    <3>3. execOf[s] # srcVer'[s]
      BY <3>2 DEF NoFuture, TypeInv, TypeOK
    <3>4. StaleSources' = StaleSources \cup {s}
      BY <3>2, <3>3 DEF StaleSources
    <3> QED
      BY <3>1, <3>4 DEF Promise!Modify
  <2>5. ASSUME PassStep PROVE Promise!Work
    <3>1. InPass
      <4>1. CASE CallStep(Root)
        BY <4>1 DEF CallStep, StatSource, StatOutput, StatExec, StatObject, StatsDone, Refused,
                    SyncFork, SyncForkFails, SyncWait, UserWait, At, CallOfPhase
      <4>2. CASE \E c \in Pid : ToolStep(c)
        <5>1. PICK c \in Pid : ToolStep(c)
          BY <4>2
        <5>2. run[c] # "free" /\ c # Root
          BY <5>1 DEF ToolStep, ToolStarts, Exec, ToolNotStarted, ExecFails, ToolReads,
                      ToolSucceeds, ToolFails, Executing, OneTool
        <5> QED
          BY <5>2 DEF OneTool, CallOfPhase
      <4> QED
        BY <2>5, <4>1, <4>2 DEF PassStep
    <3>2. Report = "none" /\ Report' = "none"
      BY <2>5, <3>1 DEF PassStep, scriptVars, InPass, Report
    <3> QED
      BY <2>0, <3>2 DEF Promise!Work
  <2>6. ASSUME Passing \/ UNCHANGED allVars PROVE UNCHANGED <<StaleSources, Report>>
    BY <2>6 DEF Passing, Tick, allVars, vars, scriptVars, files, StaleSources, Report
  <2> QED
    BY <2>1, <2>2, <2>3, <2>4, <2>5, <2>6 DEF ScriptNext, Promise!Next
<1> QED
  BY <1>1, <1>2, ScriptInvariant, PTL DEF ScriptSpec, KeepsPromise, Promise!Spec

=============================================================================
