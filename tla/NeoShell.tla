------------------------------ MODULE NeoShell ------------------------------
(***************************************************************************)
(* The process layer of neobuild: neocmd_run_async forks a shell for a      *)
(* command, neoshell_wait collects the status of one process.  The kernel   *)
(* side (waitid, signals, the process table) is external and is modelled    *)
(* from what the code asks of it.                                           *)
(*                                                                          *)
(* A process is a copy of the build program ("user"), a child between       *)
(* fork() and execv() ("forked"), or a shell running a command ("tool").    *)
(* A failed execv() does not end the child: neocmd_run_async returns        *)
(* EXIT_FAILURE in it, as if that were a pid, and the child goes on as a    *)
(* second copy of the build program.                                        *)
(***************************************************************************)
EXTENDS Naturals, FiniteSets

CONSTANTS Pid,      \* process ids the kernel may hand out; Root's among them
          Root,     \* the build program started by the user
          Faults,   \* which of FaultKinds may happen
          MaxCopies \* bound: copies of the build program running at a time

\* fork(), execv() and stat() failing, a command or its memory refused before
\* the fork, a tool that is stopped, killed, or ends with an error.
FaultKinds == {"fork", "execv", "stat", "refuse", "stop", "kill", "fail"}

NoPid   == 0        \* stands for the -1 of a failed neocmd_run_async
InitPid == 1        \* init, and also EXIT_FAILURE taken for a pid

ASSUME ShellAssumption == /\ Pid \subseteq Nat \ {NoPid, InitPid}
                          /\ Root \in Pid
                          /\ Faults \subseteq FaultKinds
                          /\ MaxCopies \in Nat

VARIABLES run,      \* run[p]: what the kernel's process table says of p
          parent,   \* parent[p]: whose child p is
          ended     \* ended[p]: how a zombie ended, kept for its parent

shellVars == <<run, parent, ended>>

\* "stopped": by a signal, and not yet reported to a waitid with WSTOPPED;
\* "parked": stopped and reported; "resumed": continued after a stop.
RunStates == {"free", "user", "forked", "tool", "stopped", "parked", "resumed", "zombie"}
Endings   == {"none", "ok", "fail", "killed"}

ShellTypeOK == /\ run \in [Pid -> RunStates]
               /\ parent \in [Pid -> Pid \cup {NoPid, InitPid}]
               /\ ended \in [Pid -> Endings]

ShellInit == /\ run = [p \in Pid |-> IF p = Root THEN "user" ELSE "free"]
             /\ parent = [p \in Pid |-> IF p = Root THEN InitPid ELSE NoPid]
             /\ ended = [p \in Pid |-> "none"]

Executing(p) == run[p] \in {"tool", "resumed"}
Children(p)  == {c \in Pid : parent[c] = p /\ run[c] # "free"}

-----------------------------------------------------------------------------
\* neocmd_run_async gives -1 to its caller: the command could not be rendered
\* or fork() failed, for lack of process slots or otherwise.
RunAsyncFails(p) ==
  /\ run[p] = "user"
  /\ "fork" \in Faults \/ \A c \in Pid : run[c] # "free"
  /\ UNCHANGED shellVars

\* fork() succeeds: c is the child, and p gets its pid.
Fork(p, c) ==
  /\ run[p] = "user"
  /\ run[c] = "free"
  /\ run' = [run EXCEPT ![c] = "forked"]
  /\ parent' = [parent EXCEPT ![c] = p]
  /\ UNCHANGED ended

\* The child becomes the shell that runs the command.
Exec(c) ==
  /\ run[c] = "forked"
  /\ run' = [run EXCEPT ![c] = "tool"]
  /\ UNCHANGED <<parent, ended>>

\* execv() fails: the child returns from neocmd_run_async into the caller's code.
ExecFails(c) ==
  /\ run[c] = "forked"
  /\ "execv" \in Faults
  /\ Cardinality({p \in Pid : run[p] = "user"}) < MaxCopies
  /\ run' = [run EXCEPT ![c] = "user"]
  /\ UNCHANGED <<parent, ended>>

-----------------------------------------------------------------------------
\* A process ends: its status is kept for its parent, its children go to init.
Ends(c, how) ==
  /\ run' = [run EXCEPT ![c] = "zombie"]
  /\ ended' = [ended EXCEPT ![c] = how]
  /\ parent' = [q \in Pid |-> IF parent[q] = c THEN InitPid ELSE parent[q]]

\* A stop signal reaches a running tool.  Bound: each tool is stopped once.
Stop(c) ==
  /\ "stop" \in Faults
  /\ run[c] = "tool"
  /\ run' = [run EXCEPT ![c] = "stopped"]
  /\ UNCHANGED <<parent, ended>>

Continue(c) ==
  /\ run[c] \in {"stopped", "parked"}
  /\ run' = [run EXCEPT ![c] = "resumed"]
  /\ UNCHANGED <<parent, ended>>

\* init collects the orphans it adopted.
InitReaps(c) ==
  /\ run[c] = "zombie"
  /\ parent[c] = InitPid
  /\ run' = [run EXCEPT ![c] = "free"]
  /\ parent' = [parent EXCEPT ![c] = NoPid]
  /\ ended' = [ended EXCEPT ![c] = "none"]

-----------------------------------------------------------------------------
\* waitid(P_PID, k, WEXITED | WSTOPPED) by p.  It blocks while none of the
\* three outcomes below is there.
IsChild(p, k) == k \in Pid /\ parent[k] = p /\ run[k] # "free"

\* Mutants: WEXITED left out of the options; WNOWAIT added to them.
MutNoWExited(p, k, how) == FALSE /\ how = ended[k] /\ UNCHANGED shellVars
MutNoReap(p, k, how) ==
  IsChild(p, k) /\ run[k] = "zombie" /\ how = ended[k] /\ UNCHANGED shellVars

WaitReaps(p, k, how) ==
  /\ IsChild(p, k)
  /\ run[k] = "zombie"
  /\ how = ended[k]
  /\ run' = [run EXCEPT ![k] = "free"]
  /\ parent' = [parent EXCEPT ![k] = NoPid]
  /\ ended' = [ended EXCEPT ![k] = "none"]

\* Mutant: WSTOPPED left out of the options of waitid.
MutNoWStopped(p, k, how) == FALSE /\ how = "stopped" /\ UNCHANGED shellVars

WaitSeesStop(p, k, how) ==
  /\ IsChild(p, k)
  /\ run[k] = "stopped"
  /\ how = "stopped"
  /\ run' = [run EXCEPT ![k] = "parked"]
  /\ UNCHANGED <<parent, ended>>

WaitNoChild(p, k, how) ==
  /\ ~ IsChild(p, k)
  /\ how = "echild"
  /\ UNCHANGED shellVars

\* neoshell_wait returns: "echild" makes it return false with *code and
\* *status untouched, every other outcome makes it store them and return true.
ShellWait(p, k, how) ==
  /\ run[p] = "user"
  /\ \/ WaitReaps(p, k, how)
     \/ WaitSeesStop(p, k, how)
     \/ WaitNoChild(p, k, how)

=============================================================================
