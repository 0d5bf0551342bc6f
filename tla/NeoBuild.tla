------------------------------ MODULE NeoBuild ------------------------------
(***************************************************************************)
(* neo_compile_to_object_file and neo_link_null of neobuild.c, over the     *)
(* process layer of NeoShell and a file system that keeps modification      *)
(* times in whole seconds (st_mtime).                                       *)
(*                                                                          *)
(* A process in a call goes through it one system call at a time, so the    *)
(* editor, the clock, the tools and other copies of the build program act   *)
(* between two of its steps.  File contents are abstracted to provenance:   *)
(* a source has a version, an object the version it was compiled from, the  *)
(* executable the versions in the objects it was linked from.               *)
(***************************************************************************)
EXTENDS NeoShell

CONSTANTS Sources,    \* source files, each with its own object file
          NoSource,   \* no source: the call is not a compilation
          MaxClock,   \* bound: the clock stops there
          MaxVer      \* bound: versions the editor makes of one source

ASSUME BuildAssumption == MaxClock \in Nat /\ MaxVer \in Nat /\ NoSource \notin Sources

Absent  == 0          \* the modification time of a file that is not there
Garbage == 0          \* the contents of a file whose writer was killed
Blank   == [s \in Sources |-> Garbage]

VARIABLES
  clock,              \* the time of day, in seconds
  srcTime, srcVer,    \* per source: modification time, version
  objTime, objVer,    \* per object: modification time, version it was made from
  execTime, execOf,   \* the executable: modification time, versions linked into it
  frame,              \* frame[p]: the call p is in, or its last one, with its locals
  snap,               \* snap[c]: what the tool c has read of its inputs
  job                 \* job[p]: the pid p's program got from its own neocmd_run_async

files == <<srcTime, srcVer, objTime, objVer, execTime, execOf>>
vars  == <<shellVars, clock, files, frame, snap, job>>

Steps == {"idle",                                  \* between two calls
          "stat_src", "stat_out",                  \* neo_compile_to_object_file
          "stat_exec", "stat_objs",                \* neo_link_null
          "spawn", "wait",                         \* both: the command, and waitid
          "user_wait",                             \* neoshell_wait called by the program
          "start", "read"}                         \* a tool: before and after it reads
Ops   == {"none", "compile", "link", "other"}
\* How the last call ended: it returned before running anything ("early"),
\* found its output up to date ("skip"), could not fork ("nofork"), had no
\* child to wait for ("echild"), or saw its child stop or end.
Outcomes == {"none", "early", "skip", "nofork", "echild", "stopped", "ok", "fail", "killed"}

Frames == [pc : Steps, op : Ops, src : Sources \cup {NoSource},
           forced : BOOLEAN,            \* force_compilation
           mtime : Nat,                 \* source_stat resp. exec_stat
           left : SUBSET Sources,       \* objects neo_link_null has still to stat
           requires : BOOLEAN,          \* requires_linking
           child : Pid \cup {NoPid, InitPid},
           how : Outcomes, ret : BOOLEAN]

Idle == [pc |-> "idle", op |-> "none", src |-> NoSource, forced |-> FALSE, mtime |-> 0,
         left |-> {}, requires |-> FALSE, child |-> NoPid, how |-> "none", ret |-> FALSE]

TypeOK == /\ ShellTypeOK
          /\ clock \in Nat
          /\ srcTime \in [Sources -> Nat] /\ srcVer \in [Sources -> Nat]
          /\ objTime \in [Sources -> Nat] /\ objVer \in [Sources -> Nat]
          /\ execTime \in Nat /\ execOf \in [Sources -> Nat]
          /\ frame \in [Pid -> Frames]
          /\ snap \in [Pid -> [Sources -> Nat]]
          /\ job \in [Pid -> Pid \cup {NoPid, InitPid}]

Init == /\ ShellInit
        /\ clock = 1
        /\ \E there \in SUBSET Sources :
             /\ srcTime = [s \in Sources |-> IF s \in there THEN 1 ELSE Absent]
             /\ srcVer = [s \in Sources |-> IF s \in there THEN 1 ELSE Garbage]
        /\ objTime = [s \in Sources |-> Absent] /\ objVer = Blank
        /\ execTime = Absent /\ execOf = Blank
        /\ frame = [p \in Pid |-> Idle]
        /\ snap = [p \in Pid |-> Blank]
        /\ job = [p \in Pid |-> NoPid]

At(p, step) == run[p] = "user" /\ frame[p].pc = step

\* What a call has asked for, its other locals being dead.
Request(p) == [Idle EXCEPT !.op = frame[p].op, !.src = frame[p].src]

Returned(p, how, ret) == [Request(p) EXCEPT !.how = how, !.ret = ret]

\* The call p is in returns ret; how it came to that is kept beside it.
Return(p, how, ret) == frame' = [frame EXCEPT ![p] = Returned(p, how, ret)]

\* The call p is in needs its command run.
NeedsRun(p) == frame' = [frame EXCEPT ![p] = [Request(p) EXCEPT !.pc = "spawn"]]

Quiet == UNCHANGED <<shellVars, clock, files, snap, job>>

-----------------------------------------------------------------------------
(* The caller starts a call.                                                *)

CallCompile(p, s, forced) ==
  /\ At(p, "idle")
  /\ frame' = [frame EXCEPT ![p] = [Idle EXCEPT !.pc = "stat_src", !.op = "compile",
                                                !.src = s, !.forced = forced]]
  /\ Quiet

CallLink(p, forced) ==
  /\ At(p, "idle")
  /\ frame' = [frame EXCEPT ![p] = [Idle EXCEPT !.pc = IF forced THEN "spawn" ELSE "stat_exec",
                                                !.op = "link",
                                                !.left = IF forced THEN {} ELSE Sources]]
  /\ Quiet

-----------------------------------------------------------------------------
(* neo_compile_to_object_file                                               *)

StatSource(p) ==
  /\ At(p, "stat_src")
  /\ \/ /\ srcTime[frame[p].src] = Absent \/ "stat" \in Faults
        /\ Return(p, "early", FALSE)
     \/ /\ srcTime[frame[p].src] # Absent
        /\ frame[p].forced
        /\ NeedsRun(p)
     \/ /\ srcTime[frame[p].src] # Absent
        /\ ~ frame[p].forced
        /\ frame' = [frame EXCEPT ![p].mtime = srcTime[frame[p].src], ![p].pc = "stat_out"]
  /\ Quiet

\* Mutants: the object is recompiled when it is as old as its source; the
\* object is never recompiled.
MutUpToDateStrict(p) == objTime[frame[p].src] # Absent /\ objTime[frame[p].src] > frame[p].mtime
MutUpToDateExists(p) == objTime[frame[p].src] # Absent

\* The object is taken for current when it is not older than the source was.
UpToDate(p) == objTime[frame[p].src] # Absent /\ objTime[frame[p].src] >= frame[p].mtime

StatOutput(p) ==
  /\ At(p, "stat_out")
  /\ \/ UpToDate(p) /\ Return(p, "skip", TRUE)
     \/ ~ UpToDate(p) /\ NeedsRun(p)
     \/ "stat" \in Faults /\ Return(p, "early", FALSE)
  /\ Quiet

-----------------------------------------------------------------------------
(* neo_link_null                                                            *)

\* Mutant: the age of the executable is kept in place of its time.
MutStatExec(p) ==
  /\ At(p, "stat_exec")
  /\ frame' = [frame EXCEPT ![p].mtime = execTime - clock,
                            ![p].requires = execTime = Absent,
                            ![p].pc = "stat_objs"]
  /\ Quiet

StatExec(p) ==
  /\ At(p, "stat_exec")
  /\ \/ frame' = [frame EXCEPT ![p].mtime = execTime,
                               ![p].requires = execTime = Absent,
                               ![p].pc = "stat_objs"]
     \/ "stat" \in Faults /\ Return(p, "early", FALSE)
  /\ Quiet

\* Mutant: the comparison of the two times turned round.
MutNewerThanExec(p, s) == frame[p].mtime # Absent /\ objTime[s] < frame[p].mtime

NewerThanExec(p, s) == frame[p].mtime # Absent /\ objTime[s] > frame[p].mtime

\* The loop over the objects, in whatever order the caller passed them.
StatObject(p) ==
  /\ At(p, "stat_objs")
  /\ \E s \in frame[p].left :
       \/ /\ objTime[s] = Absent \/ "stat" \in Faults
          /\ Return(p, "early", FALSE)
       \/ /\ objTime[s] # Absent
          /\ frame' = [frame EXCEPT ![p].left = @ \ {s},
                                    ![p].requires = @ \/ NewerThanExec(p, s)]
  /\ Quiet

StatsDone(p) ==
  /\ At(p, "stat_objs")
  /\ frame[p].left = {}
  /\ \/ ~ frame[p].requires /\ Return(p, "skip", TRUE)
     \/ frame[p].requires /\ NeedsRun(p)
  /\ Quiet

-----------------------------------------------------------------------------
(* The command of both calls, run by neocmd_run_sync.                       *)

\* The compiler asked for, directly or as the global default, has no case in
\* the switch of the call, or there is no memory for the command.
Refused(p) ==
  /\ At(p, "spawn")
  /\ "refuse" \in Faults
  /\ Return(p, "early", FALSE)
  /\ Quiet

\* The locals of the child are a copy of its parent's.
SyncFork(p) ==
  /\ At(p, "spawn")
  /\ \E c \in Pid :
       /\ Fork(p, c)
       /\ frame' = [frame EXCEPT ![p].pc = "wait", ![p].child = c,
                                 ![c] = [Request(p) EXCEPT !.pc = "wait"]]
       /\ job' = [job EXCEPT ![c] = job[p]]
  /\ UNCHANGED <<clock, files, snap>>

\* neo_compile_to_object_file returns `code # 0' whatever neocmd_run_sync said,
\* and nothing stored code: any value.  neo_link_null returns what
\* neocmd_run_sync said.
SyncForkFails(p) ==
  /\ At(p, "spawn")
  /\ RunAsyncFails(p)
  /\ \E ret \in BOOLEAN : /\ frame[p].op = "link" => ~ ret
                          /\ Return(p, "nofork", ret)
  /\ UNCHANGED <<clock, files, snap, job>>

\* Mutant: waitid(P_ALL) in place of waitid(P_PID).
MutSyncWaitAny(p) ==
  /\ At(p, "wait")
  /\ \E how \in Outcomes, ret \in BOOLEAN :
       /\ \/ \E k \in Children(p) : ShellWait(p, k, how)
          \/ Children(p) = {} /\ ShellWait(p, frame[p].child, how)
       /\ ret \/ (frame[p].op = "compile" /\ how = "echild")
       /\ frame' = [q \in Pid |->
                      IF q = p
                      THEN Returned(p, how, ret)
                      ELSE IF run'[q] = "free" THEN Idle ELSE frame[q]]
  /\ UNCHANGED <<clock, files, snap, job>>

\* Mutant: neocmd_run_sync returns as soon as the child is forked.
MutSyncNoWait(p) ==
  /\ At(p, "wait")
  /\ Return(p, "ok", TRUE)
  /\ Quiet

\* neocmd_run_sync returns true whatever neoshell_wait said.  A stored code is
\* an si_code, never 0; after "echild" it is uninitialized.
SyncWait(p) ==
  /\ At(p, "wait")
  /\ \E how \in Outcomes, ret \in BOOLEAN :
       /\ ShellWait(p, frame[p].child, how)
       /\ ret \/ (frame[p].op = "compile" /\ how = "echild")
       /\ frame' = [q \in Pid |->
                      IF q = p
                      THEN Returned(p, how, ret)
                      ELSE IF run'[q] = "free" THEN Idle ELSE frame[q]]
  /\ UNCHANGED <<clock, files, snap, job>>

-----------------------------------------------------------------------------
(* The program's own use of neocmd_run_async and neoshell_wait, for a       *)
(* command that touches none of the files here.  Bound: one at a time.      *)

UserRunsAsync(p) ==
  /\ At(p, "idle")
  /\ job[p] = NoPid
  /\ \E c \in Pid :
       /\ Fork(p, c)
       /\ frame' = [frame EXCEPT ![c] = [Idle EXCEPT !.op = "other"]]
       /\ job' = [job EXCEPT ![p] = c]
  /\ UNCHANGED <<clock, files, snap>>

UserCallsWait(p) ==
  /\ At(p, "idle")
  /\ job[p] # NoPid
  /\ frame' = [frame EXCEPT ![p] = [Idle EXCEPT !.pc = "user_wait", !.op = "other"]]
  /\ Quiet

UserWait(p) ==
  /\ At(p, "user_wait")
  /\ \E how \in Outcomes :
       /\ ShellWait(p, job[p], how)
       /\ frame' = [q \in Pid |->
                      IF q = p
                      THEN [Idle EXCEPT !.op = "other", !.how = how, !.ret = how # "echild"]
                      ELSE IF run'[q] = "free" THEN Idle ELSE frame[q]]
  /\ job' = [job EXCEPT ![p] = NoPid]
  /\ UNCHANGED <<clock, files, snap>>

\* A second copy of the program comes to its end.
UserExits(p) ==
  /\ p # Root
  /\ At(p, "idle")
  /\ Ends(p, "ok")
  /\ frame' = [frame EXCEPT ![p] = Idle]
  /\ job' = [job EXCEPT ![p] = NoPid]
  /\ UNCHANGED <<clock, files, snap>>

-----------------------------------------------------------------------------
(* The tools: gcc, clang, as and ld, external.  A tool reads its inputs at  *)
(* one moment and writes its output at a later one, just before it exits.   *)

\* The tool c leaves its output with this time and these contents.
Writes(c, time, contents) ==
  /\ UNCHANGED <<srcTime, srcVer>>
  /\ IF frame[c].op = "compile"
     THEN /\ objTime' = [objTime EXCEPT ![frame[c].src] = time]
          /\ objVer' = [objVer EXCEPT ![frame[c].src] = contents[frame[c].src]]
     ELSE UNCHANGED <<objTime, objVer>>
  /\ IF frame[c].op = "link"
     THEN execTime' = time /\ execOf' = contents
     ELSE UNCHANGED <<execTime, execOf>>

\* c is over; the process table keeps only what its parent may ask for.
ToolEnds(c, how) ==
  /\ Ends(c, how)
  /\ frame' = [frame EXCEPT ![c] = [Request(c) EXCEPT !.how = frame[c].how]]
  /\ snap' = [snap EXCEPT ![c] = Blank]
  /\ job' = [job EXCEPT ![c] = NoPid]
  /\ UNCHANGED clock

ToolStarts(c) ==
  /\ Exec(c)
  /\ frame' = [frame EXCEPT ![c].pc = "start"]
  /\ UNCHANGED <<clock, files, snap, job>>

ToolNotStarted(c) ==
  /\ ExecFails(c)
  /\ IF frame[c].op = "other"
     THEN job' = [job EXCEPT ![c] = InitPid] /\ UNCHANGED frame
     ELSE frame' = [frame EXCEPT ![c].child = InitPid] /\ UNCHANGED job
  /\ UNCHANGED <<clock, files, snap>>

InputsUsable(c) ==
  /\ frame[c].op = "compile" => srcTime[frame[c].src] # Absent
  /\ frame[c].op = "link" => \A s \in Sources : objTime[s] # Absent /\ objVer[s] # Garbage

ToolReads(c) ==
  /\ Executing(c) /\ frame[c].pc = "start"
  /\ InputsUsable(c)
  /\ snap' = [snap EXCEPT ![c] = [s \in Sources |->
                CASE frame[c].op = "link" -> objVer[s]
                  [] frame[c].op = "compile" /\ s = frame[c].src -> srcVer[s]
                  [] OTHER -> Garbage]]
  /\ frame' = [frame EXCEPT ![c].pc = "read"]
  /\ UNCHANGED <<shellVars, clock, files, job>>

ToolSucceeds(c) ==
  /\ Executing(c) /\ frame[c].pc = "read"
  /\ Writes(c, clock, snap[c])
  /\ ToolEnds(c, "ok")

\* The tool reports an error; it leaves its old output or has removed it.
ToolFails(c) ==
  /\ Executing(c)
  /\ "fail" \in Faults \/ (frame[c].pc = "start" /\ ~ InputsUsable(c))
  /\ UNCHANGED files \/ Writes(c, Absent, Blank)
  /\ ToolEnds(c, "fail")

\* A signal ends the tool or the child before execv(), maybe while it writes.
ToolKilled(c) ==
  /\ "kill" \in Faults
  /\ run[c] \in {"forked", "tool", "stopped", "parked", "resumed"}
  /\ \/ UNCHANGED files
     \/ frame[c].pc = "read" /\ Writes(c, clock, Blank)
  /\ ToolEnds(c, "killed")

\* The frame of a tool remembers for good that it was stopped.
ToolStops(c)     == /\ Stop(c)
                    /\ frame' = [frame EXCEPT ![c].how = "stopped"]
                    /\ UNCHANGED <<clock, files, snap, job>>
ToolContinues(c) == Continue(c) /\ UNCHANGED <<clock, files, frame, snap, job>>

OrphanReaped(c) ==
  /\ InitReaps(c)
  /\ frame' = [frame EXCEPT ![c] = Idle]
  /\ UNCHANGED <<clock, files, snap, job>>

-----------------------------------------------------------------------------
(* The surroundings                                                         *)

Tick == /\ clock < MaxClock
        /\ clock' = clock + 1
        /\ UNCHANGED <<shellVars, files, frame, snap, job>>

\* The editor saves a new version of s.
Edit(s) == /\ srcVer[s] < MaxVer
           /\ srcTime' = [srcTime EXCEPT ![s] = clock]
           /\ srcVer' = [srcVer EXCEPT ![s] = @ + 1]
           /\ UNCHANGED <<objTime, objVer, execTime, execOf>>
           /\ UNCHANGED <<shellVars, clock, frame, snap, job>>

-----------------------------------------------------------------------------
\* A step of a call p is in.
CallStep(p) ==
  \/ StatSource(p) \/ StatOutput(p)
  \/ StatExec(p) \/ StatObject(p) \/ StatsDone(p)
  \/ Refused(p) \/ SyncFork(p) \/ SyncForkFails(p) \/ SyncWait(p)
  \/ UserWait(p)

ToolStep(c) ==
  \/ ToolStarts(c) \/ ToolNotStarted(c) \/ ToolReads(c)
  \/ ToolSucceeds(c) \/ ToolFails(c)

ProgramStep(p) ==
  \/ \E s \in Sources, forced \in BOOLEAN : CallCompile(p, s, forced)
  \/ \E forced \in BOOLEAN : CallLink(p, forced)
  \/ UserRunsAsync(p) \/ UserCallsWait(p) \/ UserExits(p)

Signal(c) == ToolKilled(c) \/ ToolStops(c) \/ ToolContinues(c)

Next == \/ \E p \in Pid : ProgramStep(p) \/ CallStep(p)
        \/ \E c \in Pid : ToolStep(c) \/ Signal(c) \/ OrphanReaped(c)
        \/ Tick
        \/ \E s \in Sources : Edit(s)

\* A call goes on while it can, and a tool that is not stopped comes to an end.
\* Nothing is assumed of the caller, of signals, of the clock or of the editor.
Fairness == \A p \in Pid : WF_vars(CallStep(p)) /\ WF_vars(ToolStep(p))

Spec     == Init /\ [][Next]_vars
FairSpec == Spec /\ Fairness

-----------------------------------------------------------------------------
(* Safety                                                                   *)

\* neocmd_run_sync waits for the very process it forked: until waitid returns,
\* that pid is a live child of the caller (not recycled, not the program's own
\* asynchronous job) and, unless its execv failed, runs the caller's command.
WaitsForOwnFork ==
  \A p \in Pid : At(p, "wait") /\ frame[p].child \in Pid =>
    LET c == frame[p].child
    IN  /\ IsChild(p, c)
        /\ c # job[p]
        /\ run[c] # "user" /\ frame[c].op # "none" =>
             frame[c].op = frame[p].op /\ frame[c].src = frame[p].src

\* While a compiler or linker that no signal has stopped is at work, the call
\* that forked it is still waiting for it: no later call of that program can
\* read a half-written output, or start a second writer of it.
ToolAwaited ==
  \A c \in Pid : run[c] \in {"forked", "tool"} /\ frame[c].op # "other" =>
    \E p \in Pid : parent[c] = p /\ At(p, "wait") /\ frame[p].child = c

\* Every child of a copy of the program is being waited for, is the job its
\* program knows about, or was stopped at some time: none is leaked as a
\* zombie (neobuild.h, on neocmd_run_async, asks for that).
ChildrenAccounted ==
  \A p \in Pid : run[p] = "user" => \A c \in Children(p) :
    \/ At(p, "wait") /\ frame[p].child = c
    \/ c = job[p]
    \/ frame[c].how = "stopped"

\* The program the user started never waits for a process it does not have,
\* in whatever order it mixes synchronous and asynchronous commands.
RootHasItsChild == frame[Root].how # "echild"

(* What neobuild.h says of the results, and the code does not do.           *)

\* neobuild.h:287, neo_compile_to_object_file: "@return true if compilation
\* was successful, false otherwise".
CompileTrueMeansCompiled ==
  \A p \in Pid : At(p, "idle") /\ frame[p].op = "compile" /\ frame[p].ret =>
    frame[p].how \in {"skip", "ok"}

\* neobuild.h:187, neocmd_run_sync: "`true` if the process was successfully
\* waited on, `false` otherwise".  neo_link_null returns its result as it is.
LinkTrueMeansWaited ==
  \A p \in Pid : At(p, "idle") /\ frame[p].op = "link" /\ frame[p].ret =>
    frame[p].how \in {"skip", "stopped", "ok", "fail", "killed"}

(* Liveness                                                                 *)

\* Every call comes back, even if its tool is stopped and never continued.  (For
\* a program whose execv does not fail: else its child is as fair as its user.)
CallReturns ==
  \A p \in Pid : (run[p] = "user" /\ frame[p].pc # "idle") ~> (frame[p].pc = "idle")

=============================================================================
