--------------------------- MODULE NeoBuild_proofs ---------------------------
(***************************************************************************)
(* NeoBuild is type correct, and its processes wait for the right ones, for *)
(* any processes, sources, faults and bounds.  Each lemma of the first part *)
(* is one step of the type invariant; BuildScript_proofs uses them again    *)
(* for the steps a script takes.                                            *)
(***************************************************************************)
EXTENDS NeoBuild, TLAPS

\* TypeOK alone is not inductive: a compilation keeps the time of its source,
\* so a frame at work on one must name a source.
SoundFrames == {f \in Frames : /\ f.op = "compile" => f.src \in Sources
                               /\ f.pc \in {"stat_src", "stat_out"} => f.op = "compile"}

TypeInv == TypeOK /\ frame \in [Pid -> SoundFrames]

\* What the frame operators return.
LEMMA FrameTypes ==
  ASSUME TypeInv, NEW p \in Pid
  PROVE  /\ Idle \in SoundFrames
         /\ frame[p] \in SoundFrames
         /\ \A step \in {"idle", "spawn", "wait"} : [Request(p) EXCEPT !.pc = step] \in SoundFrames
         /\ \A how \in Outcomes, ret \in BOOLEAN : Returned(p, how, ret) \in SoundFrames
         /\ [Request(p) EXCEPT !.how = frame[p].how] \in SoundFrames
<1> USE DEF SoundFrames
<1>1. Idle \in SoundFrames
  BY DEF Idle, Frames, Steps, Ops, Outcomes, NoPid
<1>2. frame[p] \in SoundFrames
  BY DEF TypeInv
<1>3. frame[p].op \in Ops /\ frame[p].src \in Sources \cup {NoSource} /\ frame[p].how \in Outcomes
  BY <1>2 DEF Frames
<1>4. /\ Request(p) \in Frames /\ Request(p).pc = "idle"
      /\ Request(p).op = frame[p].op /\ Request(p).src = frame[p].src
  BY <1>1, <1>3 DEF Request, Frames, Idle
<1>5. Request(p) \in SoundFrames
  BY <1>2, <1>4
<1>6. \A how \in Outcomes, ret \in BOOLEAN : Returned(p, how, ret) \in SoundFrames
  BY <1>4, <1>5 DEF Returned, Frames
<1>7. /\ \A step \in {"idle", "spawn", "wait"} : [Request(p) EXCEPT !.pc = step] \in SoundFrames
      /\ [Request(p) EXCEPT !.how = frame[p].how] \in SoundFrames
  BY <1>3, <1>4, <1>5 DEF Frames, Steps
<1> QED
  BY <1>1, <1>2, <1>6, <1>7

LEMMA TypeInit == Init => TypeInv
<1> SUFFICES ASSUME Init PROVE TypeInv
  OBVIOUS
<1>1. ShellTypeOK
  BY DEF Init, ShellInit, ShellTypeOK, RunStates, Endings, NoPid, InitPid
<1>2. Idle \in SoundFrames
  BY DEF Idle, SoundFrames, Frames, Steps, Ops, Outcomes, NoPid
<1>3. frame \in [Pid -> SoundFrames] /\ frame \in [Pid -> Frames]
  BY <1>2 DEF Init, SoundFrames
<1>4. srcTime \in [Sources -> Nat] /\ srcVer \in [Sources -> Nat]
  BY DEF Init, Absent, Garbage
<1> QED
  BY <1>1, <1>3, <1>4 DEF Init, TypeInv, TypeOK, Blank, Absent, Garbage, NoPid

\* The process table stays one, whatever process does what to it.
LEMMA ShellTypes ==
  ASSUME ShellTypeOK, NEW p \in Pid
  PROVE  /\ UNCHANGED shellVars => ShellTypeOK'
         /\ \A c \in Pid : Fork(p, c) => ShellTypeOK'
         /\ Exec(p) => ShellTypeOK'
         /\ ExecFails(p) => ShellTypeOK'
         /\ \A how \in {"ok", "fail", "killed"} : Ends(p, how) => ShellTypeOK'
         /\ Stop(p) => ShellTypeOK'
         /\ Continue(p) => ShellTypeOK'
         /\ InitReaps(p) => ShellTypeOK'
         /\ \A k, how : ShellWait(p, k, how) => ShellTypeOK'
<1> USE DEF ShellTypeOK, RunStates, Endings, NoPid, InitPid
<1>1. UNCHANGED shellVars => ShellTypeOK'
  BY DEF shellVars
<1>2. \A c \in Pid : Fork(p, c) => ShellTypeOK'
  BY DEF Fork
<1>3. (Exec(p) => ShellTypeOK') /\ (ExecFails(p) => ShellTypeOK')
  BY DEF Exec, ExecFails
<1>4. \A how \in {"ok", "fail", "killed"} : Ends(p, how) => ShellTypeOK'
  BY DEF Ends
<1>5. (Stop(p) => ShellTypeOK') /\ (Continue(p) => ShellTypeOK')
  BY DEF Stop, Continue
<1>6. InitReaps(p) => ShellTypeOK'
  BY DEF InitReaps
<1>7. ASSUME NEW k, NEW how, ShellWait(p, k, how) PROVE ShellTypeOK'
  <2>1. CASE WaitReaps(p, k, how)
    BY <2>1 DEF WaitReaps, IsChild
  <2>2. CASE WaitSeesStop(p, k, how)
    BY <2>2 DEF WaitSeesStop, IsChild
  <2>3. CASE WaitNoChild(p, k, how)
    BY <2>3 DEF WaitNoChild, shellVars
  <2> QED
    BY <1>7, <2>1, <2>2, <2>3 DEF ShellWait
<1> QED
  BY <1>1, <1>2, <1>3, <1>4, <1>5, <1>6, <1>7

-----------------------------------------------------------------------------
\* The files and the clock keep their types when they are not touched, when a
\* tool writes its output, and when time passes or a source is edited.
FilesTypeOK == /\ clock \in Nat
               /\ srcTime \in [Sources -> Nat] /\ srcVer \in [Sources -> Nat]
               /\ objTime \in [Sources -> Nat] /\ objVer \in [Sources -> Nat]
               /\ execTime \in Nat /\ execOf \in [Sources -> Nat]

LEMMA FilesTypes ==
  ASSUME TypeInv
  PROVE  /\ UNCHANGED <<clock, files>> => FilesTypeOK'
         /\ \A c \in Pid, time \in Nat, contents \in [Sources -> Nat] :
              Writes(c, time, contents) /\ UNCHANGED clock => FilesTypeOK'
<1> USE DEF TypeInv, TypeOK, FilesTypeOK
<1>1. UNCHANGED <<clock, files>> => FilesTypeOK'
  BY DEF files
<1>2. ASSUME NEW c \in Pid, NEW time \in Nat, NEW contents \in [Sources -> Nat],
             Writes(c, time, contents), UNCHANGED clock
      PROVE  FilesTypeOK'
  <2>1. CASE frame[c].op = "compile"
    <3>1. \A s : contents[s] \in Nat \/ s \notin Sources
      OBVIOUS
    <3>2. objTime' \in [Sources -> Nat] /\ objVer' \in [Sources -> Nat]
      BY <1>2, <2>1, <3>1 DEF Writes
    <3> QED
      BY <1>2, <2>1, <3>2 DEF Writes
  <2>2. CASE frame[c].op # "compile"
    BY <1>2, <2>2 DEF Writes
  <2> QED
    BY <2>1, <2>2
<1> QED
  BY <1>1, <1>2

\* What is left to prove of a step, once its shell, file and frame parts are.
LEMMA TypeParts ==
  ASSUME ShellTypeOK', FilesTypeOK', frame' \in [Pid -> SoundFrames],
         snap' \in [Pid -> [Sources -> Nat]], job' \in [Pid -> Pid \cup {NoPid, InitPid}]
  PROVE  TypeInv'
BY DEF TypeInv, TypeOK, FilesTypeOK, SoundFrames

\* A step of a call keeps the type invariant.
LEMMA CallStepTypes ==
  ASSUME TypeInv, NEW p \in Pid, CallStep(p)
  PROVE  TypeInv'
<1> USE DEF TypeInv
<1>1. UNCHANGED <<clock, files, snap>>
  BY DEF CallStep, StatSource, StatOutput, StatExec, StatObject, StatsDone, Refused,
         SyncFork, SyncForkFails, SyncWait, UserWait, Quiet
<1>2. FilesTypeOK' /\ snap' \in [Pid -> [Sources -> Nat]]
  BY <1>1, FilesTypes DEF TypeOK
<1>3. ShellTypeOK'
  <2>1. UNCHANGED shellVars \/ (\E c \in Pid : Fork(p, c)) \/ (\E k, how : ShellWait(p, k, how))
    BY DEF CallStep, StatSource, StatOutput, StatExec, StatObject, StatsDone, Refused,
           SyncFork, SyncForkFails, RunAsyncFails, SyncWait, UserWait, Quiet
  <2> QED
    BY <2>1, ShellTypes DEF TypeOK
<1>4. job' \in [Pid -> Pid \cup {NoPid, InitPid}]
  <2>1. \/ UNCHANGED job
        \/ \E c \in Pid : job' = [job EXCEPT ![c] = job[p]]
        \/ job' = [job EXCEPT ![p] = NoPid]
    BY DEF CallStep, StatSource, StatOutput, StatExec, StatObject, StatsDone, Refused,
           SyncFork, SyncForkFails, SyncWait, UserWait, Quiet
  <2> QED
    BY <2>1 DEF TypeOK
<1>5. frame' \in [Pid -> SoundFrames]
  <2>1. /\ \A how \in Outcomes, ret \in BOOLEAN : Returned(p, how, ret) \in SoundFrames
        /\ frame[p] \in SoundFrames /\ Idle \in SoundFrames
        /\ \A step \in {"idle", "spawn", "wait"} : [Request(p) EXCEPT !.pc = step] \in SoundFrames
    BY FrameTypes
  <2>2. ASSUME NEW how \in Outcomes, NEW ret \in BOOLEAN, Return(p, how, ret)
        PROVE  frame' \in [Pid -> SoundFrames]
    BY <2>1, <2>2 DEF Return
  <2>3. ASSUME NeedsRun(p) PROVE frame' \in [Pid -> SoundFrames]
    BY <2>1, <2>3 DEF NeedsRun
  <2>4. CASE StatSource(p)
    <3>1. CASE frame' = [frame EXCEPT ![p].mtime = srcTime[frame[p].src], ![p].pc = "stat_out"]
      <4>1. frame[p].src \in Sources /\ frame[p].op = "compile"
        BY <2>1, <2>4 DEF SoundFrames, StatSource, At
      <4>2. srcTime[frame[p].src] \in Nat
        BY <4>1 DEF TypeOK
      <4>3. [frame[p] EXCEPT !.mtime = srcTime[frame[p].src], !.pc = "stat_out"] \in SoundFrames
        BY <2>1, <4>1, <4>2 DEF SoundFrames, Frames, Steps
      <4> QED
        BY <3>1, <4>3
    <3>2. CASE Return(p, "early", FALSE)
      BY <2>2, <3>2 DEF Outcomes
    <3>3. CASE NeedsRun(p)
      BY <2>3, <3>3
    <3> QED
      BY <2>4, <3>1, <3>2, <3>3 DEF StatSource
  <2>5. CASE StatOutput(p)
    BY <2>2, <2>3, <2>5 DEF StatOutput, Outcomes
  <2>6. CASE StatExec(p)
    <3>1. CASE frame' = [frame EXCEPT ![p].mtime = execTime,
                                      ![p].requires = execTime = Absent,
                                      ![p].pc = "stat_objs"]
      <4>1. \A b \in BOOLEAN : [frame[p] EXCEPT !.mtime = execTime, !.requires = b,
                                                !.pc = "stat_objs"] \in SoundFrames
        <5> HIDE DEF TypeInv
        <5>1. frame[p] \in SoundFrames /\ execTime \in Nat
          BY <2>1 DEF TypeInv, TypeOK
        <5>2. \A b \in BOOLEAN : [frame[p] EXCEPT !.requires = b] \in SoundFrames
          BY <5>1 DEF SoundFrames, Frames
        <5> QED
          BY <5>1, <5>2 DEF SoundFrames, Frames, Steps
      <4>2. (execTime = Absent) \in BOOLEAN
        OBVIOUS
      <4>3. [frame[p] EXCEPT !.mtime = execTime, !.requires = execTime = Absent,
                             !.pc = "stat_objs"] \in SoundFrames
        BY <4>1, <4>2
      <4> QED
        BY <3>1, <4>3
    <3> QED
      BY <2>2, <2>6, <3>1 DEF StatExec, Outcomes
  <2>7. CASE StatObject(p)
    <3>1. CASE \E s \in frame[p].left :
                 frame' = [frame EXCEPT ![p].left = @ \ {s},
                                        ![p].requires = @ \/ NewerThanExec(p, s)]
      <4>1. PICK s \in frame[p].left :
                 frame' = [frame EXCEPT ![p].left = @ \ {s},
                                        ![p].requires = @ \/ NewerThanExec(p, s)]
        BY <3>1
      <4>2. (frame[p].requires \/ NewerThanExec(p, s)) \in BOOLEAN
        OBVIOUS
      <4>3. [frame[p] EXCEPT !.left = @ \ {s},
                             !.requires = @ \/ NewerThanExec(p, s)] \in SoundFrames
        BY <2>1, <4>2 DEF SoundFrames, Frames
      <4> QED
        BY <4>1, <4>3
    <3> QED
      BY <2>2, <2>7, <3>1 DEF StatObject, Outcomes
  <2>8. CASE StatsDone(p)
    BY <2>2, <2>3, <2>8 DEF StatsDone, Outcomes
  <2>9. CASE Refused(p) \/ SyncForkFails(p)
    BY <2>2, <2>9 DEF Refused, SyncForkFails, Outcomes
  <2>10. CASE SyncFork(p)
    <3>1. PICK c \in Pid : frame' = [frame EXCEPT ![p].pc = "wait", ![p].child = c,
                                                  ![c] = [Request(p) EXCEPT !.pc = "wait"]]
      BY <2>10 DEF SyncFork
    <3>2. [frame[p] EXCEPT !.pc = "wait", !.child = c] \in SoundFrames
      BY <2>1 DEF SoundFrames, Frames, Steps
    <3>3. /\ DOMAIN frame' = Pid /\ frame' = [q \in Pid |-> frame'[q]]
          /\ \A q \in Pid : frame'[q] \in SoundFrames
      BY <2>1, <3>1, <3>2
    <3> QED
      BY <3>3
  <2>11. CASE SyncWait(p)
    BY <2>1, <2>11 DEF SyncWait
  <2>12. CASE UserWait(p)
    <3>1. \A how \in Outcomes, b \in BOOLEAN :
            [Idle EXCEPT !.op = "other", !.how = how, !.ret = b] \in SoundFrames
      <4> DEFINE Other == [Idle EXCEPT !.op = "other"]
      <4>1. Other \in SoundFrames
        BY <2>1 DEF SoundFrames, Frames, Ops, Idle
      <4>2. \A how \in Outcomes : [Other EXCEPT !.how = how] \in SoundFrames
        <5> HIDE DEF Other
        <5> QED BY <4>1 DEF SoundFrames, Frames
      <4>3. \A f \in SoundFrames, b \in BOOLEAN : [f EXCEPT !.ret = b] \in SoundFrames
        BY DEF SoundFrames, Frames
      <4> QED
        BY <4>2, <4>3
    <3>2. \A how \in Outcomes : (how # "echild") \in BOOLEAN
      OBVIOUS
    <3>3. \A how \in Outcomes :
            [Idle EXCEPT !.op = "other", !.how = how, !.ret = how # "echild"] \in SoundFrames
      BY <3>1, <3>2
    <3> QED
      BY <2>1, <2>12, <3>3 DEF UserWait
  <2> QED
    BY <2>4, <2>5, <2>6, <2>7, <2>8, <2>9, <2>10, <2>11, <2>12 DEF CallStep
<1> QED
  BY <1>2, <1>3, <1>4, <1>5, TypeParts

\* What the program does between its calls keeps the type invariant.
LEMMA CallTypes ==
  ASSUME TypeInv, NEW p \in Pid
  PROVE  /\ \A s \in Sources, forced \in BOOLEAN : CallCompile(p, s, forced) => TypeInv'
         /\ \A forced \in BOOLEAN : CallLink(p, forced) => TypeInv'
<1>1. Idle \in SoundFrames /\ frame \in [Pid -> SoundFrames]
  BY FrameTypes DEF TypeInv
<1>2. ASSUME NEW f \in SoundFrames, frame' = [frame EXCEPT ![p] = f], Quiet
      PROVE  TypeInv'
  BY <1>1, <1>2, FilesTypes, ShellTypes, TypeParts DEF TypeInv, TypeOK, Quiet
<1>3. \A s \in Sources, forced \in BOOLEAN :
        [Idle EXCEPT !.pc = "stat_src", !.op = "compile", !.src = s, !.forced = forced]
          \in SoundFrames
  BY DEF Idle, SoundFrames, Frames, Steps, Ops, Outcomes, NoPid
<1>4. \A step \in {"spawn", "stat_exec"}, objs \in SUBSET Sources :
        [Idle EXCEPT !.pc = step, !.op = "link", !.left = objs] \in SoundFrames
  BY DEF Idle, SoundFrames, Frames, Steps, Ops, Outcomes, NoPid
<1>5. \A forced \in BOOLEAN :
        [Idle EXCEPT !.pc = IF forced THEN "spawn" ELSE "stat_exec", !.op = "link",
                     !.left = IF forced THEN {} ELSE Sources] \in SoundFrames
  BY <1>4
<1> QED
  BY <1>2, <1>3, <1>5 DEF CallCompile, CallLink

LEMMA ProgramStepTypes ==
  ASSUME TypeInv, NEW p \in Pid, ProgramStep(p)
  PROVE  TypeInv'
<1>1. Idle \in SoundFrames /\ frame \in [Pid -> SoundFrames]
  BY FrameTypes DEF TypeInv
<1>2. CASE UserRunsAsync(p)
  <2>1. [Idle EXCEPT !.op = "other"] \in SoundFrames
    BY DEF Idle, SoundFrames, Frames, Steps, Ops, Outcomes, NoPid
  <2>2. PICK c \in Pid : /\ Fork(p, c)
                         /\ frame' = [frame EXCEPT ![c] = [Idle EXCEPT !.op = "other"]]
                         /\ job' = [job EXCEPT ![p] = c]
    BY <1>2 DEF UserRunsAsync
  <2>3. UNCHANGED <<clock, files, snap>>
    BY <1>2 DEF UserRunsAsync
  <2> QED
    BY <1>1, <2>1, <2>2, <2>3, FilesTypes, ShellTypes, TypeParts DEF TypeInv, TypeOK
<1>3. CASE UserCallsWait(p)
  <2>1. [Idle EXCEPT !.pc = "user_wait", !.op = "other"] \in SoundFrames
    BY DEF Idle, SoundFrames, Frames, Steps, Ops, Outcomes, NoPid
  <2> QED
    BY <1>1, <1>3, <2>1, FilesTypes, ShellTypes, TypeParts
    DEF UserCallsWait, Quiet, TypeInv, TypeOK
<1>4. CASE UserExits(p)
  BY <1>1, <1>4, FilesTypes, ShellTypes, TypeParts DEF UserExits, TypeInv, TypeOK, NoPid
<1> QED
  BY <1>2, <1>3, <1>4, CallTypes DEF ProgramStep

\* So does a tool, whatever happens to it.
LEMMA ToolTypes ==
  ASSUME TypeInv, NEW c \in Pid, ToolStep(c) \/ Signal(c) \/ OrphanReaped(c)
  PROVE  TypeInv'
<1>1. /\ Idle \in SoundFrames /\ frame \in [Pid -> SoundFrames] /\ frame[c] \in SoundFrames
      /\ [Request(c) EXCEPT !.how = frame[c].how] \in SoundFrames
      /\ snap[c] \in [Sources -> Nat] /\ Blank \in [Sources -> Nat] /\ clock \in Nat
      /\ ShellTypeOK
  BY FrameTypes DEF TypeInv, TypeOK, Blank, Garbage
<1>2. \A step \in {"start", "read"} : [frame[c] EXCEPT !.pc = step] \in SoundFrames
  BY <1>1 DEF SoundFrames, Frames, Steps
<1>3. ASSUME NEW how \in {"ok", "fail", "killed"}, ToolEnds(c, how), FilesTypeOK'
      PROVE  TypeInv'
  BY <1>1, <1>3, ShellTypes, TypeParts DEF ToolEnds, TypeInv, TypeOK, NoPid
<1>4. CASE ToolStarts(c)
  BY <1>1, <1>2, <1>4, FilesTypes, ShellTypes, TypeParts DEF ToolStarts, TypeInv, TypeOK
<1>5. CASE ToolNotStarted(c)
  <2>1. [frame[c] EXCEPT !.child = InitPid] \in SoundFrames
    BY <1>1 DEF SoundFrames, Frames
  <2>2. frame' \in [Pid -> SoundFrames] /\ job' \in [Pid -> Pid \cup {NoPid, InitPid}]
    BY <1>1, <1>5, <2>1 DEF ToolNotStarted, TypeInv, TypeOK
  <2> QED
    BY <1>1, <1>5, <2>2, FilesTypes, ShellTypes, TypeParts DEF ToolNotStarted, TypeInv, TypeOK
<1>6. CASE ToolReads(c)
  <2>1. [s \in Sources |-> CASE frame[c].op = "link" -> objVer[s]
                             [] frame[c].op = "compile" /\ s = frame[c].src -> srcVer[s]
                             [] OTHER -> Garbage] \in [Sources -> Nat]
    BY DEF TypeInv, TypeOK, Garbage
  <2>2. frame' \in [Pid -> SoundFrames] /\ snap' \in [Pid -> [Sources -> Nat]]
    BY <1>1, <1>2, <1>6, <2>1 DEF ToolReads, TypeInv, TypeOK
  <2> QED
    BY <1>1, <1>6, <2>2, FilesTypes, ShellTypes, TypeParts DEF ToolReads, TypeInv, TypeOK
<1>7. CASE ToolSucceeds(c)
  BY <1>1, <1>3, <1>7, FilesTypes DEF ToolSucceeds, ToolEnds
<1>8. CASE ToolFails(c)
  BY <1>1, <1>3, <1>8, FilesTypes DEF ToolFails, ToolEnds, Absent
<1>9. CASE ToolKilled(c)
  BY <1>1, <1>3, <1>9, FilesTypes DEF ToolKilled, ToolEnds
<1>10. CASE ToolStops(c)
  <2>1. [frame[c] EXCEPT !.how = "stopped"] \in SoundFrames
    BY <1>1 DEF SoundFrames, Frames, Outcomes
  <2> QED
    BY <1>1, <1>10, <2>1, FilesTypes, ShellTypes, TypeParts DEF ToolStops, TypeInv, TypeOK
<1>11. CASE ToolContinues(c)
  BY <1>1, <1>11, FilesTypes, ShellTypes, TypeParts DEF ToolContinues, TypeInv, TypeOK
<1>12. CASE OrphanReaped(c)
  BY <1>1, <1>12, FilesTypes, ShellTypes, TypeParts DEF OrphanReaped, TypeInv, TypeOK
<1> QED
  BY <1>4, <1>5, <1>6, <1>7, <1>8, <1>9, <1>10, <1>11, <1>12 DEF ToolStep, Signal

\* So do the clock and the editor.
LEMMA SurroundingsTypes ==
  ASSUME TypeInv
  PROVE  /\ Tick => TypeInv'
         /\ \A s \in Sources : Edit(s) => TypeInv'
         /\ UNCHANGED vars => TypeInv'
<1>1. FilesTypeOK /\ ShellTypeOK
  BY DEF TypeInv, TypeOK, FilesTypeOK
<1>2. ASSUME UNCHANGED <<shellVars, frame, snap, job>>, FilesTypeOK' PROVE TypeInv'
  BY <1>1, <1>2, TypeParts DEF TypeInv, TypeOK, ShellTypeOK, shellVars
<1>3. Tick => FilesTypeOK'
  BY <1>1 DEF Tick, files, FilesTypeOK
<1>4. \A s \in Sources : Edit(s) => FilesTypeOK'
  BY <1>1 DEF Edit, FilesTypeOK
<1>5. UNCHANGED vars => FilesTypeOK'
  BY <1>1 DEF vars, files, FilesTypeOK
<1> QED
  BY <1>2, <1>3, <1>4, <1>5 DEF Tick, Edit, vars

-----------------------------------------------------------------------------
(* Every variable keeps its type in every behaviour of NeoBuild: in         *)
(* particular no call ever waits for, or reports, something that is neither *)
(* a pid nor a failure of neocmd_run_async.                                 *)
THEOREM TypeCorrect == Spec => []TypeOK
<1>1. Init => TypeInv
  BY TypeInit
<1>2. TypeInv /\ [Next]_vars => TypeInv'
  BY CallStepTypes, ProgramStepTypes, ToolTypes, SurroundingsTypes DEF Next
<1>3. TypeInv => TypeOK
  BY DEF TypeInv
<1> QED
  BY <1>1, <1>2, <1>3, PTL DEF Spec

-----------------------------------------------------------------------------
(* Who waits for whom: neocmd_run_sync waits for the process it forked, no tool  *)
(* that no signal has stopped is left behind by its call, no child is forgotten,  *)
(* and the program of the user never waits in vain; for any number of failed      *)
(* execv's.                                                                       *)
(*                                                                                *)
(* Where a failed execv() leaves a second copy of the program, that copy knows    *)
(* the job of its parent, which is not its own child.  The argument therefore     *)
(* follows the chain of copies up to the one that forked the job: all of them but *)
(* the last are blocked in waitid, so a pid some copy knows is never handed out   *)
(* again while it knows it.                                                       *)

\* p is blocked in neocmd_run_sync on its child c.
Awaits(p, c) == parent[c] = p /\ At(p, "wait") /\ frame[p].child = c

\* Only running copies of the program have children, and only running
\* processes a job.
TableSound ==
  /\ \A c \in Pid : parent[c] \in Pid => run[parent[c]] = "user" /\ run[c] # "free"
  /\ \A c \in Pid : run[c] \in {"free", "zombie"} => job[c] = NoPid
  /\ \A c \in Pid : run[c] = "forked" => frame[c].child = NoPid
  /\ \A c \in Pid : run[c] = "stopped" => frame[c].how = "stopped"

\* No process is its own ancestor: among any processes one has its parent
\* outside.
NoCycle == \A S \in SUBSET Pid : S # {} => \E q \in S : parent[q] \notin S

\* The program of the user runs for good, and waits only for what it has.
RootWaits ==
  /\ run[Root] = "user" /\ parent[Root] = InitPid /\ job[Root] # InitPid
  /\ frame[Root].pc = "wait" => frame[Root].child \in Pid
  /\ frame[Root].pc = "user_wait" => job[Root] # NoPid

\* A job is a child of the copy that started it; another copy knows it only
\* from its parent, which is blocked on that very copy.
JobsKnown ==
  \A q \in Pid : run[q] \in {"user", "forked"} /\ job[q] \in Pid =>
    /\ parent[job[q]] \in Pid /\ job[parent[job[q]]] = job[q]
    /\ \/ parent[job[q]] = q
       \/ parent[q] \in Pid /\ Awaits(parent[q], q) /\ job[parent[q]] = job[q]

\* Each child is waited for, or is its parent's job, or was stopped: and a copy
\* of the program, which cannot be stopped, is one of the first two.
ChildrenKnown ==
  \A c \in Pid : parent[c] \in Pid =>
    \/ Awaits(parent[c], c)
    \/ c = job[parent[c]]
    \/ run[c] \notin {"user", "forked"} /\ frame[c].how = "stopped"

\* ToolAwaited, as a property of the child.
ToolsKnown ==
  \A c \in Pid : run[c] \in {"forked", "tool"} /\ frame[c].op # "other" =>
    parent[c] \in Pid /\ Awaits(parent[c], c)

WaitInv == /\ TableSound /\ NoCycle /\ RootWaits /\ JobsKnown /\ ChildrenKnown
           /\ ToolsKnown /\ WaitsForOwnFork /\ RootHasItsChild

-----------------------------------------------------------------------------
\* What the type invariant gives for the proofs of this module.
Table == /\ run \in [Pid -> RunStates]
         /\ parent \in [Pid -> Pid \cup {NoPid, InitPid}]
         /\ ended \in [Pid -> Endings]
         /\ frame \in [Pid -> Frames]
         /\ job \in [Pid -> Pid \cup {NoPid, InitPid}]

LEMMA TableTypes == TypeInv => Table
BY DEF TypeInv, TypeOK, ShellTypeOK, Table

LEMMA PidsAreNone == NoPid \notin Pid /\ InitPid \notin Pid /\ NoPid # InitPid /\ Root \in Pid
BY ShellAssumption DEF NoPid, InitPid

LEMMA WaitInit == Init => WaitInv
<1> SUFFICES ASSUME Init PROVE WaitInv
  OBVIOUS
<1> USE PidsAreNone
<1>1. /\ run = [p \in Pid |-> IF p = Root THEN "user" ELSE "free"]
      /\ parent = [p \in Pid |-> IF p = Root THEN InitPid ELSE NoPid]
      /\ frame = [p \in Pid |-> Idle] /\ job = [p \in Pid |-> NoPid]
  BY DEF Init, ShellInit
<1>2. Idle.pc = "idle" /\ Idle.how = "none"
  BY DEF Idle
<1>3. \A c \in Pid : parent[c] \notin Pid /\ frame[c].pc = "idle"
  BY <1>1, <1>2
<1>4. TableSound /\ RootWaits /\ JobsKnown /\ ChildrenKnown /\ ToolsKnown
  BY <1>1, <1>2, <1>3 DEF TableSound, RootWaits, JobsKnown, ChildrenKnown, ToolsKnown
<1>5. NoCycle
  BY <1>3 DEF NoCycle
<1>6. WaitsForOwnFork /\ RootHasItsChild
  BY <1>1, <1>2, <1>3 DEF WaitsForOwnFork, RootHasItsChild, At
<1> QED
  BY <1>4, <1>5, <1>6 DEF WaitInv

-----------------------------------------------------------------------------
(* One lemma per kind of step.                                              *)

\* A copy goes on in a call without waiting: system calls, returns, new calls.
LEMMA OwnStep ==
  ASSUME Table, WaitInv, UNCHANGED <<shellVars, job>>,
         NEW p \in Pid, run[p] = "user", frame[p].pc # "wait",
         NEW f, frame' = [frame EXCEPT ![p] = f],
         f.pc # "wait", f.how # "echild" \/ f.how = frame[p].how,
         f.pc = "user_wait" => job[p] # NoPid
  PROVE  WaitInv'
<1> USE PidsAreNone DEF Table, WaitInv
<1>1. /\ run' = run /\ parent' = parent /\ job' = job
      /\ \A q \in Pid : frame'[q] = IF q = p THEN f ELSE frame[q]
  BY DEF shellVars
<1>2. \A q, c \in Pid : Awaits(q, c)' <=> Awaits(q, c)
  BY <1>1 DEF Awaits, At
<1>3. TableSound'
  BY <1>1 DEF TableSound
<1>4. NoCycle'
  BY <1>1 DEF NoCycle
<1>5. RootWaits' /\ RootHasItsChild'
  BY <1>1 DEF RootWaits, RootHasItsChild
<1>6. JobsKnown'
  BY <1>1, <1>2 DEF JobsKnown
<1>7. ChildrenKnown'
  BY <1>1, <1>2 DEF ChildrenKnown
<1>8. ToolsKnown'
  BY <1>1, <1>2 DEF ToolsKnown
<1>9. WaitsForOwnFork'
  BY <1>1 DEF WaitsForOwnFork, At, IsChild
<1> QED
  BY <1>3, <1>4, <1>5, <1>6, <1>7, <1>8, <1>9

\* neocmd_run_sync forks: the new child takes its parent's job with it.
LEMMA SyncForkStep ==
  ASSUME Table, WaitInv, NEW p \in Pid, SyncFork(p)
  PROVE  WaitInv'
<1> USE PidsAreNone DEF Table, WaitInv
<1>1. PICK c \in Pid : /\ Fork(p, c)
                       /\ frame' = [frame EXCEPT ![p].pc = "wait", ![p].child = c,
                                                 ![c] = [Request(p) EXCEPT !.pc = "wait"]]
                       /\ job' = [job EXCEPT ![c] = job[p]]
  BY DEF SyncFork
<1>2. /\ run[p] = "user" /\ run[c] = "free" /\ p # c /\ frame[p].pc = "spawn"
      /\ \A q \in Pid : run'[q] = IF q = c THEN "forked" ELSE run[q]
      /\ \A q \in Pid : parent'[q] = IF q = c THEN p ELSE parent[q]
      /\ \A q \in Pid : job'[q] = IF q = c THEN job[p] ELSE job[q]
      /\ \A q \in Pid \ {p, c} : frame'[q] = frame[q]
  BY <1>1 DEF SyncFork, Fork, At
<1>3. /\ frame'[p].pc = "wait" /\ frame'[p].child = c /\ frame'[p].op = frame[p].op
      /\ frame'[p].src = frame[p].src /\ frame'[p].how = frame[p].how
      /\ frame'[c].pc = "wait" /\ frame'[c].child = NoPid /\ frame'[c].op = frame[p].op
      /\ frame'[c].src = frame[p].src /\ frame'[c].how = "none"
  <2>1. frame[p] \in Frames
    OBVIOUS
  <2> QED
    BY <1>1, <1>2, <2>1 DEF Request, Idle, Frames
<1>4. \A q \in Pid : parent[q] # c /\ job[c] = NoPid /\ parent[c] \notin Pid
  BY <1>2 DEF TableSound
<1>5. Awaits(p, c)' /\ \A q, d \in Pid : Awaits(q, d) => Awaits(q, d)'
  BY <1>2, <1>3, <1>4 DEF Awaits, At
<1>6. \A q \in Pid : run[q] \in {"user", "forked"} => job[q] # c
  BY <1>2, <1>4 DEF JobsKnown, TableSound
<1>7. TableSound'
  BY <1>2, <1>3, <1>4 DEF TableSound
<1>8. NoCycle'
  <2> SUFFICES ASSUME NEW S \in SUBSET Pid, S # {} PROVE \E q \in S : parent'[q] \notin S
    BY DEF NoCycle
  <2>1. CASE S = {c}
    BY <1>2, <2>1
  <2>2. CASE S # {c}
    <3>1. S \ {c} # {} /\ S \ {c} \in SUBSET Pid
      BY <2>2
    <3>2. PICK q \in S \ {c} : parent[q] \notin S \ {c}
      BY <3>1 DEF NoCycle
    <3> QED
      BY <1>2, <1>4, <3>2
  <2> QED
    BY <2>1, <2>2
<1>9. RootWaits' /\ RootHasItsChild'
  BY <1>2, <1>3 DEF RootWaits, RootHasItsChild
<1>10. JobsKnown'
  <2> SUFFICES ASSUME NEW q \in Pid, run'[q] \in {"user", "forked"}, job'[q] \in Pid
               PROVE  /\ parent'[job'[q]] \in Pid /\ job'[parent'[job'[q]]] = job'[q]
                      /\ \/ parent'[job'[q]] = q
                         \/ /\ parent'[q] \in Pid /\ Awaits(parent[q], q)'
                            /\ job'[parent'[q]] = job'[q]
    BY DEF JobsKnown, Awaits, At
  <2>1. CASE q = c
    BY <1>2, <1>4, <1>5, <1>6, <2>1 DEF JobsKnown, TableSound, Awaits, At
  <2>2. CASE q # c
    BY <1>2, <1>4, <1>5, <1>6, <2>2 DEF JobsKnown, TableSound, Awaits, At
  <2> QED
    BY <2>1, <2>2
<1>11. ChildrenKnown'
  BY <1>2, <1>3, <1>4, <1>5 DEF ChildrenKnown, Awaits, At
<1>12. ToolsKnown'
  BY <1>2, <1>3, <1>4, <1>5 DEF ToolsKnown, Awaits, At
<1>13. WaitsForOwnFork'
  BY <1>2, <1>3, <1>4, <1>6 DEF WaitsForOwnFork, At, IsChild
<1> QED
  BY <1>7, <1>8, <1>9, <1>10, <1>11, <1>12, <1>13

\* While the copy that started a job is not blocked on another running copy,
\* no other process knows that job.
LEMMA OnlyOwnerKnows ==
  ASSUME Table, WaitInv, NEW o \in Pid, NEW j \in Pid, parent[j] = o,
         ~ At(o, "wait") \/ \A q \in Pid : Awaits(o, q) => job[q] # j
  PROVE  \A q \in Pid : run[q] \in {"user", "forked"} /\ job[q] = j => q = o
<1> DEFINE S == {q \in Pid : run[q] \in {"user", "forked"} /\ job[q] = j /\ q # o}
<1> SUFFICES ASSUME S # {} PROVE FALSE
  OBVIOUS
<1>1. PICK q \in S : parent[q] \notin S
  BY DEF WaitInv, NoCycle
<1>2. parent[q] \in Pid /\ Awaits(parent[q], q) /\ job[parent[q]] = j
  BY <1>1 DEF WaitInv, JobsKnown
<1>3. run[parent[q]] = "user"
  BY <1>2 DEF Awaits, At
<1>4. parent[q] = o
  BY <1>1, <1>2, <1>3
<1> QED
  BY <1>1, <1>2, <1>4 DEF Awaits

\* waitid returns to p, in neocmd_run_sync or in the program's own wait.
LEMMA WaitStep ==
  ASSUME Table, WaitInv, NEW p \in Pid, NEW k, NEW how, NEW f, ShellWait(p, k, how),
         \/ At(p, "wait") /\ k = frame[p].child /\ job' = job
         \/ At(p, "user_wait") /\ k = job[p] /\ job' = [job EXCEPT ![p] = NoPid],
         frame' = [q \in Pid |-> IF q = p THEN f
                                 ELSE IF run'[q] = "free" THEN Idle ELSE frame[q]],
         f.pc = "idle", f.how = how
  PROVE  WaitInv'
<1> USE PidsAreNone DEF Table, WaitInv
<1>1. run[p] = "user" /\ (k \in Pid \/ k \in {NoPid, InitPid})
  <2>1. frame[p] \in Frames
    OBVIOUS
  <2> QED
    BY <2>1 DEF At, Frames
<1>2. \/ /\ IsChild(p, k) /\ run[k] = "zombie" /\ how # "echild"
         /\ \A q \in Pid : run'[q] = IF q = k THEN "free" ELSE run[q]
         /\ \A q \in Pid : parent'[q] = IF q = k THEN NoPid ELSE parent[q]
      \/ /\ IsChild(p, k) /\ run[k] = "stopped" /\ how # "echild"
         /\ \A q \in Pid : run'[q] = IF q = k THEN "parked" ELSE run[q]
         /\ parent' = parent
      \/ ~ IsChild(p, k) /\ run' = run /\ parent' = parent
  BY DEF ShellWait, WaitReaps, WaitSeesStop, WaitNoChild, IsChild, shellVars, Endings
<1>3. \A q \in Pid : q # p => frame'[q] = IF run'[q] = "free" THEN Idle ELSE frame[q]
  OBVIOUS
<1>4. \A q \in Pid : job'[q] = IF q = p /\ ~ At(p, "wait") THEN NoPid ELSE job[q]
  BY DEF At
<1>5. At(p, "wait") /\ k \in Pid => IsChild(p, k) /\ k # job[p]
  <2>1. ~ (At(p, "wait") /\ At(p, "user_wait"))
    BY DEF At
  <2> QED
    BY <2>1 DEF WaitsForOwnFork
<1>6. \A q \in Pid : Awaits(p, q) => q = k /\ run[q] \in {"zombie", "stopped"}
  BY <1>2, <1>5 DEF Awaits, At
<1>7. \A q \in Pid : run[q] \in {"user", "forked"} /\ job[q] = k =>
        (q = p /\ At(p, "user_wait")) \/ ~ IsChild(p, k)
  <2>1. CASE At(p, "wait")
    BY <1>5, <2>1 DEF JobsKnown, IsChild
  <2>2. CASE ~ At(p, "wait")
    BY <1>1, <2>2, OnlyOwnerKnows DEF IsChild
  <2> QED
    BY <2>1, <2>2
<1>8. \A q, c \in Pid : q # p /\ Awaits(q, c) => Awaits(q, c)'
  BY <1>2, <1>3 DEF Awaits, At, IsChild
<1>9. TableSound'
  BY <1>1, <1>2, <1>3, <1>4 DEF TableSound, IsChild
<1>10. NoCycle'
  BY <1>2 DEF NoCycle, IsChild
<1>11. RootWaits' /\ RootHasItsChild'
  <2>1. p = Root => IsChild(p, k)
    BY <1>1, <1>5 DEF RootWaits, JobsKnown, TableSound, IsChild, At
  <2> QED
    BY <1>2, <1>3, <1>4, <2>1 DEF RootWaits, RootHasItsChild, IsChild
<1>12. JobsKnown'
  <2> SUFFICES ASSUME NEW q \in Pid, run'[q] \in {"user", "forked"}, job'[q] \in Pid
               PROVE  /\ parent'[job'[q]] \in Pid /\ job'[parent'[job'[q]]] = job'[q]
                      /\ \/ parent'[job'[q]] = q
                         \/ /\ parent'[q] \in Pid /\ Awaits(parent[q], q)'
                            /\ job'[parent'[q]] = job'[q]
    BY DEF JobsKnown, Awaits, At
  <2>1. /\ run[q] = run'[q] /\ job'[q] = job[q] /\ parent'[q] = parent[q]
        /\ q # p \/ At(p, "wait")
    BY <1>2, <1>4
  <2>2. job[q] = k => ~ IsChild(p, k)
    BY <1>7, <2>1 DEF At
  <2>3. parent'[job[q]] = parent[job[q]]
    BY <1>2, <2>1, <2>2
  <2>4. parent[job[q]] = p => job'[p] = job[p]
    BY <1>4, <2>1, <2>2 DEF JobsKnown, TableSound, IsChild
  <2>5. parent[q] = p => ~ Awaits(p, q)
    BY <1>6, <2>1
  <2> QED
    BY <1>4, <1>8, <2>1, <2>3, <2>4, <2>5 DEF JobsKnown
<1>13. ChildrenKnown'
  <2> SUFFICES ASSUME NEW c \in Pid, parent'[c] \in Pid
               PROVE  \/ Awaits(parent[c], c)'
                      \/ c = job'[parent[c]]
                      \/ run'[c] \notin {"user", "forked"} /\ frame'[c].how = "stopped"
    BY <1>2 DEF ChildrenKnown, Awaits, At
  <2>1. parent[c] = parent'[c] /\ (c = k => ~ IsChild(p, k) \/ run'[k] = "parked")
    BY <1>2
  <2>2. run'[c] # "free" /\ c # p => frame'[c] = frame[c]
    BY <1>3
  <2>3. run'[c] # "free"
    BY <1>9 DEF TableSound
  <2>4. CASE parent[c] = p /\ c = k
    BY <1>1, <1>2, <2>1, <2>2, <2>3, <2>4 DEF IsChild, TableSound
  <2>5. CASE parent[c] = p /\ c # k
    <3>1. c # job[p] \/ At(p, "wait")
      BY <2>5
    <3> QED
      BY <1>1, <1>2, <1>4, <1>6, <2>1, <2>2, <2>3, <2>5, <3>1 DEF ChildrenKnown
  <2>6. CASE parent[c] # p
    BY <1>1, <1>2, <1>4, <1>8, <2>1, <2>2, <2>3, <2>6 DEF ChildrenKnown
  <2> QED
    BY <2>4, <2>5, <2>6
<1>14. ToolsKnown'
  BY <1>1, <1>2, <1>3, <1>6, <1>8 DEF ToolsKnown, IsChild
<1>15. WaitsForOwnFork'
  <2> SUFFICES ASSUME NEW q \in Pid, At(q, "wait")', frame'[q].child \in Pid
               PROVE  LET c == frame'[q].child
                      IN  /\ parent'[c] = q /\ run'[c] # "free"
                          /\ c # job'[q]
                          /\ run'[c] # "user" /\ frame'[c].op # "none" =>
                               frame'[c].op = frame'[q].op /\ frame'[c].src = frame'[q].src
    BY DEF WaitsForOwnFork, At, IsChild
  <2>1. q # p /\ run'[q] = "user" /\ run[q] = "user" /\ frame'[q] = frame[q]
    BY <1>2, <1>3 DEF At
  <2>2. At(q, "wait") /\ job'[q] = job[q]
    BY <1>4, <2>1 DEF At
  <2>3. /\ IsChild(q, frame[q].child) /\ frame[q].child # job[q]
        /\ run[frame[q].child] # "user" /\ frame[frame[q].child].op # "none" =>
             /\ frame[frame[q].child].op = frame[q].op
             /\ frame[frame[q].child].src = frame[q].src
    BY <2>1, <2>2 DEF WaitsForOwnFork
  <2>4. /\ run'[frame[q].child] = run[frame[q].child]
        /\ parent'[frame[q].child] = parent[frame[q].child]
    BY <1>2, <2>1, <2>3 DEF IsChild
  <2>5. run[frame[q].child] # "user" => frame'[frame[q].child] = frame[frame[q].child]
    BY <1>1, <1>3, <2>1, <2>3, <2>4 DEF IsChild
  <2> QED
    BY <2>1, <2>2, <2>3, <2>4, <2>5 DEF IsChild
<1> QED
  BY <1>9, <1>10, <1>11, <1>12, <1>13, <1>14, <1>15

\* The program runs a command of its own in the background.
LEMMA RunAsyncStep ==
  ASSUME Table, WaitInv, NEW p \in Pid, UserRunsAsync(p)
  PROVE  WaitInv'
<1> USE PidsAreNone DEF Table, WaitInv
<1>1. PICK c \in Pid : /\ Fork(p, c)
                       /\ frame' = [frame EXCEPT ![c] = [Idle EXCEPT !.op = "other"]]
                       /\ job' = [job EXCEPT ![p] = c]
  BY DEF UserRunsAsync
<1>2. /\ run[p] = "user" /\ run[c] = "free" /\ p # c /\ frame[p].pc = "idle" /\ job[p] = NoPid
      /\ \A q \in Pid : run'[q] = IF q = c THEN "forked" ELSE run[q]
      /\ \A q \in Pid : parent'[q] = IF q = c THEN p ELSE parent[q]
      /\ \A q \in Pid : job'[q] = IF q = p THEN c ELSE job[q]
      /\ \A q \in Pid \ {c} : frame'[q] = frame[q]
  BY <1>1 DEF UserRunsAsync, Fork, At
<1>3. /\ frame'[c].pc = "idle" /\ frame'[c].child = NoPid /\ frame'[c].op = "other"
  BY <1>1 DEF Idle
<1>4. \A q \in Pid : parent[q] # c /\ job[c] = NoPid /\ parent[c] \notin Pid
  BY <1>2 DEF TableSound
<1>5. \A q, d \in Pid : Awaits(q, d) => Awaits(q, d)' /\ q # p
  BY <1>2, <1>4 DEF Awaits, At
<1>6. \A q \in Pid : run[q] \in {"user", "forked"} => job[q] # c
  BY <1>2, <1>4 DEF JobsKnown, TableSound
<1>7. TableSound'
  BY <1>2, <1>3, <1>4 DEF TableSound
<1>8. NoCycle'
  <2> SUFFICES ASSUME NEW S \in SUBSET Pid, S # {} PROVE \E q \in S : parent'[q] \notin S
    BY DEF NoCycle
  <2>1. CASE S = {c}
    BY <1>2, <2>1
  <2>2. CASE S # {c}
    <3>1. S \ {c} # {} /\ S \ {c} \in SUBSET Pid
      BY <2>2
    <3>2. PICK q \in S \ {c} : parent[q] \notin S \ {c}
      BY <3>1 DEF NoCycle
    <3> QED
      BY <1>2, <1>4, <3>2
  <2> QED
    BY <2>1, <2>2
<1>9. RootWaits' /\ RootHasItsChild'
  BY <1>2, <1>3 DEF RootWaits, RootHasItsChild
<1>10. JobsKnown'
  <2> SUFFICES ASSUME NEW q \in Pid, run'[q] \in {"user", "forked"}, job'[q] \in Pid
               PROVE  /\ parent'[job'[q]] \in Pid /\ job'[parent'[job'[q]]] = job'[q]
                      /\ \/ parent'[job'[q]] = q
                         \/ /\ parent'[q] \in Pid /\ Awaits(parent[q], q)'
                            /\ job'[parent'[q]] = job'[q]
    BY DEF JobsKnown, Awaits, At
  <2>1. CASE q = p
    BY <1>2, <2>1
  <2>2. CASE q # p
    <3>1. q # c /\ run[q] = run'[q] /\ job'[q] = job[q] /\ job[q] # c
      BY <1>2, <1>4, <1>6, <2>2
    <3>2. parent'[q] = parent[q] /\ parent'[job[q]] = parent[job[q]] /\ parent[job[q]] # p
      BY <1>2, <2>2, <3>1 DEF JobsKnown
    <3> QED
      BY <1>2, <1>5, <3>1, <3>2 DEF JobsKnown
  <2> QED
    BY <2>1, <2>2
<1>11. ChildrenKnown'
  BY <1>2, <1>3, <1>4, <1>5 DEF ChildrenKnown, Awaits, At
<1>12. ToolsKnown'
  BY <1>2, <1>3, <1>4, <1>5 DEF ToolsKnown, Awaits, At
<1>13. WaitsForOwnFork'
  BY <1>2, <1>3, <1>4 DEF WaitsForOwnFork, At, IsChild
<1> QED
  BY <1>7, <1>8, <1>9, <1>10, <1>11, <1>12, <1>13

\* A second copy of the program ends: no other copy knows its job any more, and
\* its children go to init.
LEMMA ExitStep ==
  ASSUME Table, WaitInv, NEW p \in Pid, UserExits(p)
  PROVE  WaitInv'
<1> USE PidsAreNone DEF Table, WaitInv
<1>1. /\ run[p] = "user" /\ p # Root /\ frame[p].pc = "idle"
      /\ \A q \in Pid : run'[q] = IF q = p THEN "zombie" ELSE run[q]
      /\ \A q \in Pid : parent'[q] = IF parent[q] = p THEN InitPid ELSE parent[q]
      /\ \A q \in Pid : job'[q] = IF q = p THEN NoPid ELSE job[q]
      /\ \A q \in Pid : frame'[q] = IF q = p THEN Idle ELSE frame[q]
  BY DEF UserExits, Ends, At
<1>2. Idle.op = "none" /\ Idle.pc = "idle"
  BY DEF Idle
<1>3. \A q, c \in Pid : Awaits(q, c) => q # p /\ Awaits(q, c)'
  BY <1>1 DEF Awaits, At
<1>4. \A q, j \in Pid : parent[j] = p /\ run[q] \in {"user", "forked"} /\ job[q] = j => q = p
  BY <1>1, OnlyOwnerKnows DEF At
<1>5. TableSound'
  BY <1>1 DEF TableSound
<1>6. NoCycle'
  BY <1>1 DEF NoCycle
<1>7. RootWaits' /\ RootHasItsChild'
  BY <1>1 DEF RootWaits, RootHasItsChild
<1>8. JobsKnown'
  <2> SUFFICES ASSUME NEW q \in Pid, run'[q] \in {"user", "forked"}, job'[q] \in Pid
               PROVE  /\ parent'[job'[q]] \in Pid /\ job'[parent'[job'[q]]] = job'[q]
                      /\ \/ parent'[job'[q]] = q
                         \/ /\ parent'[q] \in Pid /\ Awaits(parent[q], q)'
                            /\ job'[parent'[q]] = job'[q]
    BY <1>3 DEF JobsKnown, Awaits, At
  <2>1. q # p /\ run[q] = run'[q] /\ job'[q] = job[q]
    BY <1>1
  <2>2. parent[job[q]] # p
    BY <1>4, <2>1
  <2> QED
    BY <1>1, <1>3, <2>1, <2>2 DEF JobsKnown
<1>9. ChildrenKnown'
  BY <1>1, <1>3 DEF ChildrenKnown, Awaits, At
<1>10. ToolsKnown'
  BY <1>1, <1>3 DEF ToolsKnown
<1>11. WaitsForOwnFork'
  BY <1>1, <1>2 DEF WaitsForOwnFork, At, IsChild
<1> QED
  BY <1>5, <1>6, <1>7, <1>8, <1>9, <1>10, <1>11

\* A child before execv(), or a tool, goes on as a tool that runs or is stopped.
LEMMA ToolGoesOn ==
  ASSUME Table, WaitInv, NEW c \in Pid, UNCHANGED <<parent, job>>,
         \A q \in Pid \ {c} : run'[q] = run[q] /\ frame'[q] = frame[q],
         run[c] \in {"forked", "tool", "stopped", "parked", "resumed"},
         run'[c] \in {"tool", "stopped", "parked", "resumed"},
         run'[c] = "tool" => run[c] \in {"forked", "tool"},
         frame'[c].op = frame[c].op, frame'[c].src = frame[c].src,
         \/ frame'[c].how = "stopped"
         \/ run'[c] # "stopped" /\ frame'[c].how = frame[c].how
  PROVE  WaitInv'
<1> USE PidsAreNone DEF Table, WaitInv
<1>1. parent' = parent /\ job' = job
  OBVIOUS
<1>2. \A q, d \in Pid : Awaits(q, d) => Awaits(q, d)' /\ q # c
  BY <1>1 DEF Awaits, At
<1>3. TableSound'
  BY <1>1 DEF TableSound
<1>4. NoCycle'
  BY <1>1 DEF NoCycle
<1>5. RootWaits' /\ RootHasItsChild'
  BY <1>1 DEF RootWaits, RootHasItsChild
<1>6. JobsKnown'
  BY <1>1, <1>2 DEF JobsKnown
<1>7. ChildrenKnown'
  BY <1>1, <1>2 DEF ChildrenKnown
<1>8. ToolsKnown'
  BY <1>1, <1>2 DEF ToolsKnown
<1>9. WaitsForOwnFork'
  BY <1>1 DEF WaitsForOwnFork, At, IsChild
<1> QED
  BY <1>3, <1>4, <1>5, <1>6, <1>7, <1>8, <1>9

\* A tool, or a child before execv(), is over.
LEMMA ToolEndsStep ==
  ASSUME Table, WaitInv, NEW c \in Pid, NEW how, ToolEnds(c, how),
         run[c] \in {"forked", "tool", "stopped", "parked", "resumed"}
  PROVE  WaitInv'
<1> USE PidsAreNone DEF Table, WaitInv
<1>1. /\ \A q \in Pid : run'[q] = IF q = c THEN "zombie" ELSE run[q]
      /\ \A q \in Pid : parent'[q] = parent[q]
      /\ \A q \in Pid : job'[q] = IF q = c THEN NoPid ELSE job[q]
      /\ \A q \in Pid : q # c => frame'[q] = frame[q]
  BY DEF ToolEnds, Ends, TableSound
<1>2. /\ frame'[c].op = frame[c].op /\ frame'[c].src = frame[c].src
      /\ frame'[c].how = frame[c].how
  BY DEF ToolEnds, Request, Idle
<1>3. \A q, d \in Pid : Awaits(q, d) => Awaits(q, d)' /\ q # c
  BY <1>1 DEF Awaits, At
<1>4. TableSound'
  BY <1>1 DEF TableSound
<1>5. NoCycle'
  BY <1>1 DEF NoCycle
<1>6. RootWaits' /\ RootHasItsChild'
  BY <1>1 DEF RootWaits, RootHasItsChild
<1>7. JobsKnown'
  <2>1. \A j \in Pid : parent[j] # c
    BY DEF TableSound
  <2> QED
    BY <1>1, <1>3, <2>1 DEF JobsKnown
<1>8. ChildrenKnown'
  <2>1. \A q \in Pid : parent[q] # c
    BY DEF TableSound
  <2> QED
    BY <1>1, <1>2, <1>3, <2>1 DEF ChildrenKnown
<1>9. ToolsKnown'
  BY <1>1, <1>3 DEF ToolsKnown
<1>10. WaitsForOwnFork'
  BY <1>1, <1>2 DEF WaitsForOwnFork, At, IsChild
<1> QED
  BY <1>4, <1>5, <1>6, <1>7, <1>8, <1>9, <1>10

\* execv() fails: the child goes on as a copy of the program, in its parent's
\* call or as the one who started a job.
LEMMA NotStartedStep ==
  ASSUME Table, WaitInv, NEW c \in Pid, ToolNotStarted(c)
  PROVE  WaitInv'
<1> USE PidsAreNone DEF Table, WaitInv
<1>1. /\ run[c] = "forked" /\ c # Root /\ parent' = parent
      /\ \A q \in Pid : run'[q] = IF q = c THEN "user" ELSE run[q]
      /\ \A q \in Pid : q # c => frame'[q] = frame[q] /\ job'[q] = job[q]
      /\ job'[c] = InitPid \/ job'[c] = job[c]
      /\ \A q \in Pid : parent[q] # c
  BY DEF ToolNotStarted, ExecFails, RootWaits, TableSound
<1>2. frame'[c].child \in {NoPid, InitPid}
  <2>1. frame[c].child = NoPid
    BY <1>1 DEF TableSound
  <2> QED
    BY <2>1 DEF ToolNotStarted, Frames
<1>3. \A q, d \in Pid : Awaits(q, d) => Awaits(q, d)' /\ q # c
  BY <1>1 DEF Awaits, At
<1>4. TableSound'
  BY <1>1 DEF TableSound
<1>5. NoCycle'
  BY <1>1 DEF NoCycle
<1>6. RootWaits' /\ RootHasItsChild'
  BY <1>1 DEF RootWaits, RootHasItsChild
<1>7. JobsKnown'
  BY <1>1, <1>3 DEF JobsKnown
<1>8. ChildrenKnown'
  BY <1>1, <1>3 DEF ChildrenKnown
<1>9. ToolsKnown'
  BY <1>1, <1>3 DEF ToolsKnown
<1>10. WaitsForOwnFork'
  BY <1>1, <1>2 DEF WaitsForOwnFork, At, IsChild
<1> QED
  BY <1>4, <1>5, <1>6, <1>7, <1>8, <1>9, <1>10

\* init collects an orphan.
LEMMA OrphanStep ==
  ASSUME Table, WaitInv, NEW c \in Pid, OrphanReaped(c)
  PROVE  WaitInv'
<1> USE PidsAreNone DEF Table, WaitInv
<1>1. /\ run[c] = "zombie" /\ c # Root /\ parent[c] = InitPid /\ job' = job
      /\ \A q \in Pid : run'[q] = IF q = c THEN "free" ELSE run[q]
      /\ \A q \in Pid : parent'[q] = IF q = c THEN NoPid ELSE parent[q]
      /\ \A q \in Pid : q # c => frame'[q] = frame[q]
      /\ \A q \in Pid : parent[q] # c
  BY DEF OrphanReaped, InitReaps, RootWaits, TableSound
<1>2. \A q, d \in Pid : Awaits(q, d) => Awaits(q, d)' /\ q # c /\ d # c
  BY <1>1 DEF Awaits, At
<1>3. TableSound'
  BY <1>1 DEF TableSound
<1>4. NoCycle'
  BY <1>1 DEF NoCycle
<1>5. RootWaits' /\ RootHasItsChild'
  BY <1>1 DEF RootWaits, RootHasItsChild
<1>6. JobsKnown'
  BY <1>1, <1>2 DEF JobsKnown
<1>7. ChildrenKnown'
  BY <1>1, <1>2 DEF ChildrenKnown
<1>8. ToolsKnown'
  BY <1>1, <1>2 DEF ToolsKnown
<1>9. WaitsForOwnFork'
  BY <1>1 DEF WaitsForOwnFork, At, IsChild
<1> QED
  BY <1>3, <1>4, <1>5, <1>6, <1>7, <1>8, <1>9

-----------------------------------------------------------------------------
(* Every step of NeoBuild is one of those.                                  *)

LEMMA CallWaits ==
  ASSUME TypeInv, WaitInv, NEW p \in Pid, CallStep(p)
  PROVE  WaitInv'
<1> USE TableTypes
<1>1. /\ \A how \in Outcomes, ret \in BOOLEAN :
           Returned(p, how, ret).pc = "idle" /\ Returned(p, how, ret).how = how
      /\ [Request(p) EXCEPT !.pc = "spawn"].pc = "spawn"
      /\ [Request(p) EXCEPT !.pc = "spawn"].how = "none"
  BY DEF Returned, Request, Idle
<1>2. ASSUME NEW how \in Outcomes, NEW ret \in BOOLEAN, how # "echild", Return(p, how, ret),
             UNCHANGED <<shellVars, job>>, run[p] = "user", frame[p].pc # "wait"
      PROVE  WaitInv'
  <2> DEFINE f == Returned(p, how, ret)
  <2>1. frame' = [frame EXCEPT ![p] = f] /\ f.pc = "idle" /\ f.how = how
    BY <1>1, <1>2 DEF Return
  <2> HIDE DEF f
  <2> QED
    BY <1>2, <2>1, OwnStep
<1>3. ASSUME NeedsRun(p), UNCHANGED <<shellVars, job>>, run[p] = "user", frame[p].pc # "wait"
      PROVE  WaitInv'
  <2> DEFINE f == [Request(p) EXCEPT !.pc = "spawn"]
  <2>1. frame' = [frame EXCEPT ![p] = f] /\ f.pc = "spawn" /\ f.how = "none"
    BY <1>1, <1>3 DEF NeedsRun
  <2> HIDE DEF f
  <2> QED
    BY <1>3, <2>1, OwnStep
<1>4. frame[p] \in Frames /\ (run[p] = "user" => frame[p].pc \in Steps)
  BY DEF Table, Frames
<1>5. CASE StatSource(p)
  <2>1. UNCHANGED <<shellVars, job>> /\ run[p] = "user" /\ frame[p].pc = "stat_src"
    BY <1>5 DEF StatSource, At, Quiet
  <2>2. CASE frame' = [frame EXCEPT ![p].mtime = srcTime[frame[p].src], ![p].pc = "stat_out"]
    <3> DEFINE f == [frame[p] EXCEPT !.mtime = srcTime[frame[p].src], !.pc = "stat_out"]
    <3>1. frame' = [frame EXCEPT ![p] = f] /\ f.pc = "stat_out" /\ f.how = frame[p].how
      BY <1>4, <2>2 DEF Frames, Table
    <3> HIDE DEF f
    <3> QED
      BY <2>1, <3>1, OwnStep
  <2> QED
    BY <1>2, <1>3, <1>5, <2>1, <2>2 DEF StatSource, Outcomes
<1>6. CASE StatOutput(p)
  <2>1. UNCHANGED <<shellVars, job>> /\ run[p] = "user" /\ frame[p].pc = "stat_out"
    BY <1>6 DEF StatOutput, At, Quiet
  <2> QED
    BY <1>2, <1>3, <1>6, <2>1 DEF StatOutput, Outcomes
<1>7. CASE StatExec(p)
  <2>1. UNCHANGED <<shellVars, job>> /\ run[p] = "user" /\ frame[p].pc = "stat_exec"
    BY <1>7 DEF StatExec, At, Quiet
  <2>2. CASE frame' = [frame EXCEPT ![p].mtime = execTime,
                                    ![p].requires = execTime = Absent,
                                    ![p].pc = "stat_objs"]
    <3> DEFINE f == [frame[p] EXCEPT !.mtime = execTime, !.requires = execTime = Absent,
                                     !.pc = "stat_objs"]
    <3>1. frame' = [frame EXCEPT ![p] = f]
      BY <2>2 DEF Table
    <3>2. f.pc = "stat_objs" /\ f.how = frame[p].how
      BY <1>4 DEF Frames
    <3> HIDE DEF f
    <3> QED
      BY <2>1, <3>1, <3>2, OwnStep
  <2> QED
    BY <1>2, <1>7, <2>1, <2>2 DEF StatExec, Outcomes
<1>8. CASE StatObject(p)
  <2>1. UNCHANGED <<shellVars, job>> /\ run[p] = "user" /\ frame[p].pc = "stat_objs"
    BY <1>8 DEF StatObject, At, Quiet
  <2>2. ASSUME NEW s \in frame[p].left,
               frame' = [frame EXCEPT ![p].left = @ \ {s},
                                      ![p].requires = @ \/ NewerThanExec(p, s)]
        PROVE  WaitInv'
    <3> DEFINE f == [frame[p] EXCEPT !.left = @ \ {s}, !.requires = @ \/ NewerThanExec(p, s)]
    <3>1. frame' = [frame EXCEPT ![p] = f]
      BY <2>2 DEF Table
    <3>2. f.pc = "stat_objs" /\ f.how = frame[p].how
      BY <1>4, <2>1 DEF Frames
    <3> HIDE DEF f
    <3> QED
      BY <2>1, <3>1, <3>2, OwnStep
  <2> QED
    BY <1>2, <1>8, <2>1, <2>2 DEF StatObject, Outcomes
<1>9. CASE StatsDone(p)
  <2>1. UNCHANGED <<shellVars, job>> /\ run[p] = "user" /\ frame[p].pc = "stat_objs"
    BY <1>9 DEF StatsDone, At, Quiet
  <2> QED
    BY <1>2, <1>3, <1>9, <2>1 DEF StatsDone, Outcomes
<1>10. CASE Refused(p) \/ SyncForkFails(p)
  <2>1. UNCHANGED <<shellVars, job>> /\ run[p] = "user" /\ frame[p].pc = "spawn"
    BY <1>10 DEF Refused, SyncForkFails, RunAsyncFails, At, Quiet
  <2> QED
    BY <1>2, <1>10, <2>1 DEF Refused, SyncForkFails, Outcomes
<1>11. CASE SyncWait(p)
  <2>1. PICK how \in Outcomes, ret \in BOOLEAN :
          /\ ShellWait(p, frame[p].child, how)
          /\ frame' = [q \in Pid |-> IF q = p THEN Returned(p, how, ret)
                                     ELSE IF run'[q] = "free" THEN Idle ELSE frame[q]]
    BY <1>11 DEF SyncWait
  <2>2. At(p, "wait") /\ job' = job
    BY <1>11 DEF SyncWait
  <2> QED
    BY <1>1, <2>1, <2>2, WaitStep
<1>12. CASE UserWait(p)
  <2>1. PICK how \in Outcomes :
          /\ ShellWait(p, job[p], how)
          /\ frame' = [q \in Pid |->
                         IF q = p
                         THEN [Idle EXCEPT !.op = "other", !.how = how, !.ret = how # "echild"]
                         ELSE IF run'[q] = "free" THEN Idle ELSE frame[q]]
    BY <1>12 DEF UserWait
  <2>2. At(p, "user_wait") /\ job' = [job EXCEPT ![p] = NoPid]
    BY <1>12 DEF UserWait
  <2> DEFINE f == [Idle EXCEPT !.op = "other", !.how = how, !.ret = how # "echild"]
  <2>3. f.pc = "idle" /\ f.how = how
    BY DEF Idle
  <2> HIDE DEF f
  <2> QED
    BY <2>1, <2>2, <2>3, WaitStep DEF f
<1> QED
  BY <1>5, <1>6, <1>7, <1>8, <1>9, <1>10, <1>11, <1>12, SyncForkStep DEF CallStep

LEMMA ProgramWaits ==
  ASSUME TypeInv, WaitInv, NEW p \in Pid, ProgramStep(p)
  PROVE  WaitInv'
<1> USE TableTypes
<1>1. ASSUME NEW f, frame' = [frame EXCEPT ![p] = f], Quiet, At(p, "idle"),
             f.pc # "wait", f.how = "none", f.pc = "user_wait" => job[p] # NoPid
      PROVE  WaitInv'
  BY <1>1, OwnStep DEF Quiet, At
<1>2. ASSUME NEW s \in Sources, NEW forced \in BOOLEAN, CallCompile(p, s, forced)
      PROVE  WaitInv'
  <2> DEFINE f == [Idle EXCEPT !.pc = "stat_src", !.op = "compile", !.src = s,
                               !.forced = forced]
  <2>1. f.pc = "stat_src" /\ f.how = "none"
    BY DEF Idle
  <2>2. frame' = [frame EXCEPT ![p] = f] /\ Quiet /\ At(p, "idle")
    BY <1>2 DEF CallCompile
  <2> HIDE DEF f
  <2> QED
    BY <1>1, <2>1, <2>2
<1>3. ASSUME NEW forced \in BOOLEAN, CallLink(p, forced)
      PROVE  WaitInv'
  <2> DEFINE f == [Idle EXCEPT !.pc = IF forced THEN "spawn" ELSE "stat_exec",
                               !.op = "link", !.left = IF forced THEN {} ELSE Sources]
  <2>1. f.pc \in {"spawn", "stat_exec"} /\ f.how = "none"
    BY DEF Idle
  <2>2. frame' = [frame EXCEPT ![p] = f] /\ Quiet /\ At(p, "idle")
    BY <1>3 DEF CallLink
  <2> HIDE DEF f
  <2> QED
    BY <1>1, <2>1, <2>2
<1>4. CASE UserCallsWait(p)
  <2> DEFINE f == [Idle EXCEPT !.pc = "user_wait", !.op = "other"]
  <2>1. f.pc = "user_wait" /\ f.how = "none"
    BY DEF Idle
  <2>2. frame' = [frame EXCEPT ![p] = f] /\ Quiet /\ At(p, "idle") /\ job[p] # NoPid
    BY <1>4 DEF UserCallsWait
  <2> HIDE DEF f
  <2> QED
    BY <1>1, <2>1, <2>2
<1> QED
  BY <1>2, <1>3, <1>4, RunAsyncStep, ExitStep DEF ProgramStep

LEMMA ToolWaits ==
  ASSUME TypeInv, WaitInv, NEW c \in Pid, ToolStep(c) \/ Signal(c) \/ OrphanReaped(c)
  PROVE  WaitInv'
<1> USE TableTypes
<1>1. frame[c] \in Frames
  BY DEF Table
<1>2. CASE ToolStarts(c) \/ ToolReads(c)
  <2>1. /\ \A q \in Pid \ {c} : run'[q] = run[q] /\ frame'[q] = frame[q]
        /\ UNCHANGED <<parent, job>>
        /\ \/ run[c] = "forked" /\ run'[c] = "tool"
           \/ run[c] \in {"tool", "resumed"} /\ run'[c] = run[c]
    BY <1>2 DEF ToolStarts, ToolReads, Exec, Executing, shellVars, Table
  <2>2. /\ frame'[c].op = frame[c].op /\ frame'[c].src = frame[c].src
        /\ frame'[c].how = frame[c].how
    BY <1>1, <1>2 DEF ToolStarts, ToolReads, Table, Frames
  <2> QED
    BY <2>1, <2>2, ToolGoesOn
<1>3. CASE ToolSucceeds(c) \/ ToolFails(c) \/ ToolKilled(c)
  BY <1>3, ToolEndsStep DEF ToolSucceeds, ToolFails, ToolKilled, Executing
<1>4. CASE ToolStops(c)
  <2>1. /\ \A q \in Pid \ {c} : run'[q] = run[q] /\ frame'[q] = frame[q]
        /\ UNCHANGED <<parent, job>> /\ run[c] = "tool" /\ run'[c] = "stopped"
    BY <1>4 DEF ToolStops, Stop, Table
  <2>2. /\ frame'[c].op = frame[c].op /\ frame'[c].src = frame[c].src
        /\ frame'[c].how = "stopped"
    BY <1>1, <1>4 DEF ToolStops, Table, Frames
  <2> QED
    BY <2>1, <2>2, ToolGoesOn
<1>5. CASE ToolContinues(c)
  <2>1. /\ \A q \in Pid \ {c} : run'[q] = run[q]
        /\ UNCHANGED <<parent, job, frame>>
        /\ run[c] \in {"stopped", "parked"} /\ run'[c] = "resumed"
    BY <1>5 DEF ToolContinues, Continue, Table
  <2> QED
    BY <2>1, ToolGoesOn
<1> QED
  BY <1>2, <1>3, <1>4, <1>5, NotStartedStep, OrphanStep DEF ToolStep, Signal

LEMMA NothingWaits ==
  ASSUME WaitInv, UNCHANGED <<shellVars, frame, job>>
  PROVE  WaitInv'
<1>1. run' = run /\ parent' = parent /\ frame' = frame /\ job' = job
  BY DEF shellVars
<1> QED
  BY <1>1 DEF WaitInv, TableSound, NoCycle, RootWaits, JobsKnown, ChildrenKnown, ToolsKnown,
              WaitsForOwnFork, RootHasItsChild, Awaits, At, IsChild

LEMMA WaitsInvariant == Spec => [](TypeInv /\ WaitInv)
<1>1. Init => TypeInv /\ WaitInv
  BY TypeInit, WaitInit
<1>2. TypeInv /\ WaitInv /\ [Next]_vars => (TypeInv /\ WaitInv)'
  <2> SUFFICES ASSUME TypeInv, WaitInv, [Next]_vars PROVE TypeInv' /\ WaitInv'
    OBVIOUS
  <2>1. TypeInv'
    BY CallStepTypes, ProgramStepTypes, ToolTypes, SurroundingsTypes DEF Next
  <2>2. CASE Tick \/ (\E s \in Sources : Edit(s)) \/ UNCHANGED vars
    <3>1. UNCHANGED <<shellVars, frame, job>>
      <4>1. Tick => UNCHANGED <<shellVars, frame, job>>
        BY DEF Tick
      <4>2. \A s \in Sources : Edit(s) => UNCHANGED <<shellVars, frame, job>>
        BY DEF Edit
      <4>3. UNCHANGED vars => UNCHANGED <<shellVars, frame, job>>
        BY DEF vars
      <4> QED
        BY <2>2, <4>1, <4>2, <4>3
    <3> QED
      BY <2>1, <3>1, NothingWaits
  <2> QED
    BY <2>1, <2>2, CallWaits, ProgramWaits, ToolWaits DEF Next
<1> QED
  BY <1>1, <1>2, PTL DEF Spec

-----------------------------------------------------------------------------
(* neocmd_run_sync waits for the process it forked, in whatever order the   *)
(* program mixes it with commands in the background, and whichever of its   *)
(* children fail to start: the pid is not recycled while it is waited for,  *)
(* and it is never the job of the program.                                  *)
THEOREM OwnForkAwaited == Spec => []WaitsForOwnFork
<1>1. TypeInv /\ WaitInv => WaitsForOwnFork
  BY DEF WaitInv
<1> QED
  BY <1>1, WaitsInvariant, PTL

(* A compiler or linker that no signal has stopped is still waited for by   *)
(* the call that forked it (neo_compile_to_object_file, neo_link_null).     *)
THEOREM ToolsAreAwaited == Spec => []ToolAwaited
<1>1. TypeInv /\ WaitInv => ToolAwaited
  BY DEF WaitInv, ToolsKnown, Awaits, ToolAwaited
<1> QED
  BY <1>1, WaitsInvariant, PTL

(* No copy of the program has a child that it neither waits for nor knows   *)
(* as its job, except a tool that was stopped: neoshell_wait took it for    *)
(* over.                                                                    *)
THEOREM NoChildForgotten == Spec => []ChildrenAccounted
<1>1. TypeInv /\ WaitInv => ChildrenAccounted
  BY DEF WaitInv, ChildrenKnown, Awaits, ChildrenAccounted, Children
<1> QED
  BY <1>1, WaitsInvariant, PTL

(* waitid never tells the program of the user that it has no such child.    *)
THEOREM RootNeverWaitsInVain == Spec => []RootHasItsChild
<1>1. TypeInv /\ WaitInv => RootHasItsChild
  BY DEF WaitInv
<1> QED
  BY <1>1, WaitsInvariant, PTL
=============================================================================
