------------------------------- MODULE NeoCmd -------------------------------
(***************************************************************************)
(* A command of neobuild.c: neocmd_create, neocmd_append_null,              *)
(* neocmd_render and neocmd_delete, called by one thread in any order.  The *)
(* arguments are strings on the heap, owned through the dynamic array.      *)
(*                                                                          *)
(* Most callers, those in neobuild.c too, ignore the result of an append,   *)
(* so a command goes on being used after one has failed.  Reading or        *)
(* freeing a string that is not live, or an item nobody stored, is          *)
(* undefined: the command is in no state the model follows any further.     *)
(***************************************************************************)
EXTENDS DynArr, Sequences

CONSTANTS Texts,      \* what an argument may say
          Empty,      \* the argument "", which strix_create refuses
          ArgLists,   \* the argument lists appends are called with
          MinArgs     \* MIN_ARG_NUM

ASSUME CmdAssumption == /\ Empty \notin Texts
                        /\ ArgLists \subseteq Seq(Texts \cup {Empty})
                        /\ MinArgs \in Nat

NoText == <<>>

VARIABLES cmd,        \* "none", "ready", "appending" or "undefined"
          live,       \* the strings on the heap
          text,       \* what they say
          todo,       \* the arguments neocmd_append_null has still to append
          rendered,   \* the arguments in the last result of neocmd_render, NoText for NULL
          given,      \* history: the arguments appended so far
          sound       \* history: no append has failed

cmdVars == <<arrVars, cmd, live, text, todo, rendered, given, sound>>

CmdTypeOK == /\ ArrTypeOK
             /\ cmd \in {"none", "ready", "appending", "undefined"}
             /\ live \subseteq Items
             /\ text \in [Items -> Texts \cup {Empty}]
             /\ todo \in Seq(Texts \cup {Empty})
             /\ given \in Seq(Texts)
             /\ sound \in BOOLEAN

CmdInit == /\ NoArr
           /\ cmd = "none" /\ live = {} /\ text = [s \in Items |-> Empty]
           /\ todo = <<>> /\ rendered = NoText /\ given = <<>> /\ sound = TRUE

\* The items that a loop over 0..last_index reads.
Slots == {i \in Index : i <= last /\ Readable(i)}

\* What an unstored item turns out to be: NULL, or no pointer at all.
MaybeNull(x) == x = Junk

-----------------------------------------------------------------------------
\* A failing neocmd_create leaves nothing behind.
Create ==
  /\ cmd = "none"
  /\ ArrCreate(MinArgs)
  /\ cmd' = "ready"
  /\ rendered' = NoText /\ given' = <<>> /\ sound' = TRUE
  /\ UNCHANGED <<live, text, todo>>

\* Mutant: cleanup_arg_array stops before last_index.
MutRelease(at, slots, next) ==
  LET mine == {at[i] : i \in slots \ {last}} \ {Junk}
  IN  /\ live' = live \ mine /\ cmd' = next

\* cleanup_arg_array frees what is at these slots of the array.  strix_free
\* ignores NULL, and must not be given anything but NULL and live strings, each once.
Release(at, slots, next) ==
  LET mine == {at[i] : i \in slots} \ {Junk}
      once == \A i, j \in slots : at[i] = at[j] /\ i # j => MaybeNull(at[i])
  IN  \/ /\ mine \subseteq live /\ once
         /\ live' = live \ mine /\ cmd' = next
      \/ /\ (mine \subseteq live /\ once) => \E i \in slots : MaybeNull(at[i])
         /\ cmd' = "undefined" /\ UNCHANGED live

Delete ==
  /\ cmd = "ready"
  /\ Release(cell, Slots, "none")
  /\ ArrFree
  /\ UNCHANGED <<text, todo, rendered, given, sound>>

-----------------------------------------------------------------------------
(* neocmd_append_null                                                       *)

\* Bound: the arguments fit in the modelled part of the array.
CallAppend(args) ==
  /\ cmd = "ready"
  /\ AppendTo + Len(args) <= MaxIndex + 1
  /\ cmd' = "appending" /\ todo' = args /\ rendered' = NoText
  /\ UNCHANGED <<arrVars, live, text, given, sound>>

\* Mutants: strix_create takes an empty argument; the string is freed once its
\* pointer is in the array.
MutAppendEmpty ==
  /\ cmd = "appending" /\ todo # <<>>
  /\ \E s \in Items \ live : /\ ArrAppend(s, TRUE)
                             /\ live' = live \cup {s}
                             /\ text' = [text EXCEPT ![s] = Head(todo)]
  /\ given' = Append(given, Head(todo))
  /\ todo' = Tail(todo)
  /\ UNCHANGED <<cmd, rendered, sound>>
MutAppendFreed ==
  /\ cmd = "appending" /\ todo # <<>>
  /\ Head(todo) # Empty
  /\ \E s \in Items \ live : ArrAppend(s, TRUE)
  /\ given' = Append(given, Head(todo))
  /\ todo' = Tail(todo)
  /\ UNCHANGED <<cmd, live, text, rendered, sound>>

\* One turn of the loop.
AppendArg ==
  /\ cmd = "appending" /\ todo # <<>>
  /\ Head(todo) # Empty
  /\ \E s \in Items \ live :
       /\ ArrAppend(s, TRUE)
       /\ live' = live \cup {s}
       /\ text' = [text EXCEPT ![s] = Head(todo)]
  /\ given' = Append(given, Head(todo))
  /\ todo' = Tail(todo)
  /\ UNCHANGED <<cmd, rendered, sound>>

\* strix_create gives NULL, or dyn_arr_append fails and the new string is freed
\* at once: the arguments that are there already are freed too, and stay there.
AppendFails ==
  /\ cmd = "appending" /\ todo # <<>>
  /\ \/ /\ Head(todo) = Empty \/ AllocFails
        /\ UNCHANGED arrVars
     \/ /\ Head(todo) # Empty
        /\ \E s \in Items \ live : ArrAppend(s, FALSE)
  /\ Release(cell', Slots', "ready")
  /\ todo' = <<>> /\ sound' = FALSE
  /\ UNCHANGED <<text, rendered, given>>

AppendReturns ==
  /\ cmd = "appending" /\ todo = <<>>
  /\ cmd' = "ready"
  /\ UNCHANGED <<arrVars, live, text, todo, rendered, given, sound>>

-----------------------------------------------------------------------------
(* neocmd_render, called by neocmd_run_async and by the program             *)

\* The loop of neocmd_render gets as far as slot i.
Reaches(i) == \A j \in 0..(i - 1) : Readable(j) /\ cell[j] \in live \cup {Junk}

\* strix_concat takes a NULL for nothing to append.
Render ==
  /\ cmd = "ready"
  /\ Reaches(last + 1)
  /\ rendered' = [k \in 1..(last + 1) |-> IF MaybeNull(cell[k - 1]) THEN Empty
                                                                  ELSE text[cell[k - 1]]]
  /\ UNCHANGED <<arrVars, cmd, live, text, todo, given, sound>>

\* No memory for the text, or an item that cannot be read.
RenderFails ==
  /\ cmd = "ready"
  /\ AllocFails \/ \E i \in 0..last : Reaches(i) /\ ~ Readable(i)
  /\ rendered' = NoText
  /\ UNCHANGED <<arrVars, cmd, live, text, todo, given, sound>>

RenderUndefined ==
  /\ cmd = "ready"
  /\ \E i \in 0..last : Reaches(i) /\ Readable(i) /\ cell[i] \notin live
  /\ cmd' = "undefined"
  /\ UNCHANGED <<arrVars, live, text, todo, rendered, given, sound>>

-----------------------------------------------------------------------------
CmdNext == \/ Create \/ Delete
           \/ \E args \in ArgLists : CallAppend(args)
           \/ AppendArg \/ AppendFails \/ AppendReturns
           \/ Render \/ RenderFails \/ RenderUndefined

CmdSpec == CmdInit /\ [][CmdNext]_cmdVars

-----------------------------------------------------------------------------
(* Safety                                                                   *)

\* dyn_arr_set never stores a node beyond the table it has grown.
TableCovers == \A n \in nodes : n < len

\* Every string on the heap can be reached through the array, whatever failed
\* before: none is leaked, and a deleted command leaves none.  (The comment in
\* cleanup_arg_array fears a leak when dyn_arr_get fails.)
NoLeak == cmd # "undefined" => live \subseteq {cell[i] : i \in Slots}

\* As long as no append has failed, what is rendered is what was appended, in order.
RenderFaithful == sound /\ given # <<>> /\ rendered # NoText => rendered = given

\* A command with an argument whose appends have all succeeded is used and
\* deleted without touching a string that is not its own, however its callers
\* mix appends, renders and failing renders.
SoundIsDefined == cmd = "undefined" => ~ sound \/ given = <<>>

\* neobuild.h:144, neocmd_delete: "Deletes a command structure and frees
\* allocated resources".  It does so, once each, if anything was ever appended.
AppendedCanBeDeleted == cmd = "undefined" => given = <<>>
=============================================================================
