# A verification project for neobuild

neobuild is a build system written as a C library: a project describes its
build in a C program that includes `neobuild.h`, and that program forks the
compilers and linkers, skips what is up to date by comparing modification
times, and rebuilds itself when its own source changes.  This directory holds
TLA+ models of that library, TLC configurations that check them on small
instances, and TLAPS proofs of what matters most for every instance.

All paths below are relative to `src/`; line numbers without a file are those
of `buildsysdep/neobuild.c`.

- [1. The system](#1-the-system)
- [2. Modules](#2-modules)
- [3. Runs](#3-runs)
- [4. What is proved](#4-what-is-proved)
- [5. Where code and documentation disagree](#5-where-code-and-documentation-disagree)
- [6. What is not modelled](#6-what-is-not-modelled)
- [7. Plan](#7-plan)

## 1. The system

| Component | State | Operations | What is hard | What makes it correct |
|---|---|---|---|---|
| command execution (`neobuild.c` 914-1177) | the kernel's process table; the pid a caller keeps | `neocmd_run_async`, `neocmd_run_sync`, `neoshell_wait` | children end, stop and are killed at any moment; `fork` and `execv` fail; a failed `execv` lets the child run on as a second build program; pids are recycled | a wait gets the child of its own fork, no tool is abandoned, no zombie leaks, every call returns |
| compile and link calls (44-216, 294-473) | locals read from the file system at one moment and used at another | `neo_compile_to_object_file`, `neo_link_null` (`neo_link`) | time stamps of whole seconds, `stat` of several files in turn, a tool that reads later still, errors at each step | a tool is skipped only when its output holds what its inputs hold; the result tells what happened |
| incremental build script (`README.md`) | none of its own: only the files survive from one run to the next | a pass: compile all, link all | edits, failures and interrupts between and within passes | a pass that went well leaves the executable made of the current sources; nothing is run needlessly |
| global default compiler (283-291) | one global | `neo_set_global_default_compiler`, get | an unsupported value makes a call return early | - |
| command arguments (23-33, 847-912, 1182-1267) | an array of owned strings | `neocmd_create`, `neocmd_append_null`, `neocmd_render`, `neocmd_delete` | an allocation fails half way; slots never written; who frees what | each argument is freed exactly once, a rendered command holds what was appended in order |
| self rebuild (705-845, `buildneo`, `neo.c`) | modification times of `neo.c` and `neo`, the command line | `neorebuild` | runs a nested copy of the program; ignores exit statuses | a changed `neo.c` is rebuilt, the program does not rebuild for ever |
| dynamic array (`buildsysdep/dynarr`) | nodes of fixed size, `last_index`, `is_empty` | create, set, get, append, sort, min, max | sparse nodes; counters raised before the allocation that may fail | what was appended is read back; failures leave the array usable |
| vector (`buildsysdep/neovec/neovec.h`) | `items`, `count`, `capacity` | the `neovec_*` macros | growth and shrinking at the limits, aliased arguments | implements a sequence |
| inline allocator (`buildsysdep/strix/allocator/.../inline_allocator.h`) | a heap of chunks with headers in it | `heap_alloc`, `heap_free`, `heap_realloc` | splitting and coalescing, headers between blocks that the users write | chunks tile the heap, each used one under one block, contents are kept |
| segmented allocator (`.../segmented_allocator.h`) | two sorted tables of chunks | the same, `defragment_heap`, `heap_garbage_collect` | the table is shifted while pointers and indexes into it are in use; a search by size in a table sorted by address; padding; full tables | no memory is handed out twice or lost, when a chunk that fits is found, contents are kept |
| strings (`buildsysdep/strix`) | a length and bytes | search, insert, erase, trim, split, join, delete, conversion to numbers | index arithmetic at both ends, overlapping matches, overflow, tables of fixed size without a test, missing memory for one of several pieces | each computes its definition, and goes beyond its tables only where that is known |
| configuration parser (218-260, 475-669) | none | `neo_parse_config`, `neo_parse_config_arg` | pieces without a `=`, with several, empty ones | keys and values come back |
| checksums, logging, `neo_mkdir` | - | - | - | - |

Who calls whom: a build script calls the compile and link calls, those build a
command (arguments in a dynamic array of strings) and give it to
`neocmd_run_sync`, which forks through `neocmd_run_async` and waits through
`neoshell_wait`.  `neo_link_null` takes its objects from a vector.  The self
rebuild runs before all of them.  The strings can be built over one of the two
allocators in place of malloc.  Processes share nothing but the files and the
process table: the concurrency of this system is between the build program, its
children, a copy of itself it did not mean to make, the editor, the clock and
the signals of the terminal.

`PROJECT.json` lists the hazards of this code, each at its line, with the
properties that cover it or the reason why none does.

## 2. Modules

    BuildPromise          what an incremental build promises          (abstract)
         ^  refinement, checked and proved
    BuildScript           passes, edits, interrupts over ...
         |  EXTENDS
    NeoBuild              the compile and link calls, files, tools, over ...
         |  EXTENDS
    NeoShell              fork, execv, waitid, signals, init

    NeoCmd                the arguments of a command, over ...
         |  EXTENDS
    DynArr                the dynamic array; DynArrOrder adds sort, max and min

    NeoRebuild            neorebuild, buildneo and the nested ./neo

    VecPromise            sequences                                   (abstract)
         ^  refinement, checked and proved
    NeoVec                the vector macros

    NeoConfig             the configuration parser, over ...
         |  EXTENDS
    Strix                 the strings, over ...
         |  EXTENDS
    StrixSearch           the Knuth-Morris-Pratt searches

    MemAlloc              mem_alloc.h, one of ...
         |  EXTENDS
    InlineAllocator,      the two allocators, over ...
    SegmentedAllocator
         |  EXTENDS
    HeapBlocks            the users of a heap and its bytes

    MCNeoBuild, MCBuildScript, MCNeoCmd, MCNeoRebuild,
    MCNeoVec, MCStrix, MCMemAlloc           instances for TLC
    NeoBuild_proofs, BuildScript_proofs, NeoCmd_proofs,
    NeoRebuild_proofs, NeoVec_proofs, Strix_proofs,
    InlineAllocator_proofs, SegmentedAllocator_proofs   theorems and proofs

The groups meet in few places: `Refused` in NeoBuild and the fault "run" in
NeoRebuild stand for every way in which making a command can fail; the strings
are values in NeoCmd; and strix is built over malloc, which always succeeds or
returns NULL, unless a program chooses one of the allocators.

### NeoShell: the process layer

`run`, `parent` and `ended` are the kernel's process table.  A process is
`user` (a copy of the build program), `forked` (between `fork()` and `execv()`),
a tool (`tool`, then `stopped`, `parked` once the stop has been reported,
`resumed`), a `zombie`, or `free`.

| Code | Actions |
|---|---|
| `neocmd_run_async` (1045-1155) | `Fork`, `RunAsyncFails` (render or `fork` failed); in the child `Exec`, or `ExecFails`, after which the child is a `user` process whose "pid" is `EXIT_FAILURE`, i.e. 1, `InitPid` |
| `neoshell_wait` (914-1019): `waitid(P_PID, pid, WEXITED or WSTOPPED)` | `WaitReaps`, `WaitSeesStop`, `WaitNoChild` (ECHILD) |
| external: kernel | `Ends` (children go to init), `Stop`, `Continue`, `InitReaps` |

`waitid` has no other failure here: EINTR needs a signal handler, and the library
installs none.

### NeoBuild: the compile and link calls

Each process has a `frame`: where it is in its call (`pc`) and the locals of the
call.  A call advances by one system call per step, so that everything else may
happen in between.

| Code | Actions |
|---|---|
| `neo_compile_to_object_file` (294-473) | `CallCompile`, `StatSource` (343), `StatOutput` with the test `UpToDate` (367), then the common part |
| `neo_link_null` (44-216) | `CallLink`, `StatExec` (98), `StatObject` once per object with the test `NewerThanExec` (131), `StatsDone`, then the common part |
| building and running the command | `Refused` (no such compiler, no memory), `SyncFork`, `SyncForkFails`, `SyncWait`: `neocmd_run_sync` (1161-1177) and the return of the call |
| the program's own `neocmd_run_async` and `neoshell_wait` | `UserRunsAsync`, `UserCallsWait`, `UserWait`; a second copy ends by `UserExits` |
| external: compiler and linker | `ToolStarts`, `ToolNotStarted`, `ToolReads`, `ToolSucceeds`, `ToolFails`, `ToolKilled`, `ToolStops`, `ToolContinues`, `OrphanReaped` |
| external: clock, editor | `Tick`, `Edit` |

The contents of a file are its provenance: a source has a version (`srcVer`), an
object the version it was compiled from (`objVer`), the executable the versions
inside the objects it was linked from (`execOf`).  Times are whole seconds, as
`st_mtime` is.  `frame[p].how` is not in the code: it keeps how the last call of
p really went, beside `ret`, what the call said.

A value the code reads uninitialized is nondeterministic: when
`neo_compile_to_object_file` could not fork, `code` was never stored, and
`SyncForkFails` lets it return either Boolean; so does `SyncWait` after ECHILD.

`ToolReads` and `ToolSucceeds` are the two moments of a tool: it reads all its
inputs at the first and writes its output at the second, with an edit or a tick
possible between them.

### BuildScript and BuildPromise

`BuildScript` is the build program of `README.md` with caching on (a
`force_compilation` of `false`): `StartPass`, `CompileNext` for each source in
any order, `LinkAll`, `EndPass`.  `PassStep` is any step of NeoBuild's calls and
tools.  `Interrupt` is a Ctrl-C: the program and its tool end, the tool having
removed its unfinished output or not begun it; only the files and the clock
remain.  `good` records whether every call of the pass really did its work.  It
is taken from `frame[Root].how`, not from the Booleans the calls return, which
do not tell (section 5): the property is about the time stamps, not about a
script that believes those Booleans.

Two guards say when the caching by seconds is right.  Both were found
necessary: without either, TLC finds a counterexample to `PassSound`.

- `Edited`: an edit comes in a later second than the time stamp of the object
  of that source (`clock > objTime[s]`), and between passes.  The test at 367
  takes an object of the same second for current; and an edit after the compiler
  has read the source and before it writes the object leaves an object that is
  newer, even by seconds, and not made of it.  So these two hazards are excluded,
  not covered, by the properties.
- `StartPass`: a pass starts in a later second than the executable was written.
  The test at 131 takes an executable of the same second as an object for
  newer.

`BuildPromise` is what a user expects: a set of stale sources and the report of
the last pass; a pass may report `uptodate` only when nothing is stale.
`StaleSources` and `Report` map the script to it.

### DynArr and NeoCmd

`DynArr` is `dyn_arr_create`, `dyn_arr_append` through `dyn_arr_set`,
`dyn_arr_get` and `dyn_arr_free`: `len` and `nodes` are the node table (which
entries exist), `cell` the items, `last` and `isEmpty` the two fields.  An
operator that may fail takes its result `ok` as a parameter.  `NodeSize` stands
for `MAX_NODE_SIZE` (65536), `MinArgs` for `MIN_ARG_NUM` (16), so that an append
soon needs a new node and a longer table.  `GrowLen` is the new length of the
table, the power of two after the node that must fit; for node 0, where the code
converts `log2(0)`, it is any of the first three powers.  Default values are not
modelled: neobuild passes none.

`DynArrOrder` has `dyn_arr_sort`, `dyn_arr_max` and `dyn_arr_min`, which neobuild
never calls.  A sort has many outcomes (`SortOutcomes`): each of its merges may find
no memory or a node that is missing, and stops the sort with a range that is half
sorted (`SortFrom`).  `MergeTurn` is a turn of the loops that merge two halves,
`Extreme` the loop of max and min.  They are applied to every range of every array
that commands make, with holes where allocations failed.

`NeoCmd` is a command over that array, used by one thread:

| Code | Actions |
|---|---|
| `neocmd_create` (1182-1207) | `Create` |
| `neocmd_append_null` (1227-1267) | `CallAppend`, one `AppendArg` per turn of its loop, or `AppendFails`, which frees what is there (`Release`), `AppendReturns` |
| `neocmd_render` (847-912) | `Render`, `RenderFails`, `RenderUndefined` |
| `neocmd_delete` (1209-1225), `cleanup_arg_array` (23-33) | `Delete`, `Release` |

A string is an identity in `Items`; `live` are those on the heap, and a freed
identity may be handed out again.  Memory that malloc has just given reads as
`Junk`, which may be NULL or anything else: a loop over `0..last_index` that meets
it goes on as with NULL, or the command becomes `undefined`.  So does one that
renders or frees a string that is no longer live.  `given` and `sound` are
history: what was appended, and whether every append succeeded.  After an append
has failed the command goes on being used, because its callers, those in
`neobuild.c` too, ignore the result.

### NeoRebuild

Several terminals may start `./neo` in one directory.  `copies[t]` is the stack of
copies of the program in a terminal: each has run the one above it and waits for
it.  A copy holds the version of the program it was loaded from, its arguments,
how many of them its main program sees, and what neorebuild has learnt so far.

| Code | Actions |
|---|---|
| `neorebuild` (705-845) | `SeesFlag` (710-721), `StatSource` (732), `StatProgram` (763) with the test `OutOfDate` (772) and the call of `system()`, `RunNew`, `ExitAfterNew` |
| `buildneo` | `ScriptCompiles` (neo.c is read), `ScriptLinks` (the old neo disappears), `ScriptDone`, `ScriptFails`, `LinkFails` |
| external | `Start`, `WorkEnds` (the main program), `Interrupt`, `Tick`, `Edit`, `Bootstrap` (the user runs `buildneo` where there is no neo) |

An interrupt ends all programs of the terminal, except when the script is at
work: `system()` makes its caller ignore SIGINT, so `neorebuild` goes on.  `Edit`
has the guards known from `BuildScript`: not in the second in which neo was made,
and not between the moments when a compiler has read neo.c and has written neo.

### NeoVec and VecPromise

A vector is a record of the struct's fields: `items` (a function on the slots
`0..capacity-1`), `count`, `capacity`.  What a macro makes of a vector is an
operator (`Appended`, `WithInserted`, `Without`, `WithSet`, `Cleared`, `Resized`,
`Reserved`, `Shrunk`, `Copied`), and the call of it an action.  The two growing
macros share `WithRoom`.  A slot that realloc has added holds `Junk`.

| Code (`buildsysdep/neovec/neovec.h`) | Actions |
|---|---|
| `neovec_append`, `_set`, `_remove`, `_clear`, `_insert` | `AppendCall`, `SetCall`, `RemoveCall`, `ClearCall`, `InsertCall`, with indexes up to one beyond the last that is legal |
| `neovec_free`, `neovec_free_all` | `FreeCall`: the elements are the caller's, so both are the same here |
| `neovec_resize`, `_reserve`, `_shrink_to_fit`, `_copy` | `ResizeCall`, `ReserveCall`, `ShrinkCall`, `CopyCall` |
| `neovec_extend`, through `neovec_append_all` | `CallExtend`, one `ExtendTurn` per turn of the loop, `ExtendReturns`; the macro reads the source's count at every turn, and the source may be the destination |
| `exit(EXIT_FAILURE)` after realloc | `OutOfMemory`, after which nothing happens |

`before`, the elements of the destination when an extension began, is history.
`VecPromise` is the same interface over sequences: `Put`, `Insert`, `Delete`,
`Truncate`, `Copy`, `Extend`.  Appending is an insertion at the end, clearing,
freeing and resizing are truncations, reserving and shrinking show nothing, and
an extension shows when it returns (`Shown`).

### StrixSearch, Strix and NeoConfig

A string is a sequence of characters; `NoStr` is a NULL pointer.  `StrixSearch` has
the three searches of `string_search.c`.  The code carries j, the length of the
part of the pattern it has just seen; `Lps` and `Progress` are its tables of j, made
by one operator, `Seen`, because both of its loops take the same turn; `Ascending` is
the array of positions that a loop over the string appends to, `ElementsAt` the array of
what stands there.
`Occurrences` is what they are compared with.

`Strix` is one strix and its owner.  The functions that read it are operators: they
change nothing, so each is checked on every strix that the edits reach.

| Code (`buildsysdep/strix/source/strix.c`) | Actions, operators |
|---|---|
| `strix_create`, `_create_empty` | `StrixInit`, `Create` |
| `strix_append`, `_concat`, `_clear`, `_insert`, `_insert_str`, `_erase`, `_modify`, `_trim_whitespace`, `_trim_char`, `_delete_occurence` | `AppendStr`, `Concat`, `Clear`, `Insert`, `InsertStr`, `Erase`, `Modify`, `TrimWhitespace`, `TrimChar`, `DeleteOccurence` |
| `strix_find`, `_find_all`, `_find_subtrix...`, `_count_substr`, `_find_all_char`, `_count_char`, `_find_unique_char` | `KmpSearch`, `KmpSearchAll`, `KmpSearchAllLen`, `FindAllChar` (of `CharsAt`), `CountChar`, `FindUniqueChar` |
| `strix_slice`, `_slice_by_stride`, `_split_by_delim`, `_split_by_substr`, `_split_by_substrix`, `_join_via_...` | `Slice`, `SliceByStride`, `SplitByDelim`, `SplitAt` (of `PiecesAt` and `Skipped`), `Join` and their callers |
| `strix_to_signed_int`, `_to_unsigned_int`, `_to_double` | `ToSignedInt`, `ToUnsignedInt`, `ToDouble`, character by character |

`live` becomes FALSE when a call is undefined (a memcpy with a length below zero, a store
beyond the end of an array) or the strix is freed under its owner (`Modify`).  A byte the code leaves unwritten is
any character the caller uses.  An edit that finds no memory leaves the strix as
it is, a stuttering step.

Three functions that read have arrays of fixed size and do not look for their end.  Where
they store beyond it they return `OutOfBounds`, and a program may take such a step
(`SearchOverruns`, `SplitOverruns`): `strix_find_all_char` with more than `MaxPositions`
occurrences, the splits by a substring with more than `MaxSubstrix` pieces, and
`strix_find_unique_char` with a character of `NotAscii`, as char is signed in gcc and
clang on x86 and indexes `found`.  The table of `strix_split_by_delim` grows.

A split by a substring makes several allocations, so it takes the set of pieces for which
there is no memory (`failed`): it returns NULL, except that the code leaves out a missing
piece in front of the first occurrence without a word (803-810, 933-940; `Skipped`).

`NeoConfig` adds `neo_parse_config` (475-669) of a file that holds the strix.

### HeapBlocks, InlineAllocator, SegmentedAllocator and MemAlloc

`HeapBlocks` is the allocators' surroundings: each user (`Owner`) holds at most one
block and has stored bytes of his own in all of it, which `byte` remembers address
by address, so that "contents are kept" can be said.  `caller` is a way of using the
heap, chosen once: which allocator the program was built with, the sizes and
alignments it asks for, and the most blocks at a time.

`InlineAllocator` keeps `chunk`, the headers a walk from the start of the heap
meets, and their bytes in `byte` like all others.  A header's checksum is right
(`Valid`) when nobody has written into it.

| Code | Actions, operators |
|---|---|
| `heap_alloc` with `split_chunk_if_possible` | `InlineAlloc`: `InlineHeapAlloc`, `Fits`, `Split` |
| `heap_free` with `find_chunk_for_pointer`, `try_coalesce_with_next` | `InlineFree`: `InlineHeapFree`, `ChunksFor`, `Coalesced` |
| `heap_realloc` | `InlineRealloc`: in place, in place after `Coalesced`, or `Moves`, which may fail after the next chunk was absorbed |

`SegmentedAllocator` has `free` and `alloc`, the sorted tables of the heap (arena 0)
and of the bins (arenas 1, 2, ...).  An entry of a table is `metadata_t` without
`alloc_type` and `mark`.

| Code | Actions, operators |
|---|---|
| `search_by_ptr`, `search_by_size_in_free_array`, `add_into_array` | `SearchByPtr`, `SearchBySize`, `Added`: the binary searches turn by turn, and a full table stays as it is |
| `defragment_heap` | `SweepTurn` per turn of its outer loops, `Defragmented` until nothing merges; `current` points to slot i whatever was shifted into it |
| `heap_alloc` | `SegAlloc`: `AllocHeap` with `LeadSplit` and `RestSplit`, `AllocBin` |
| `heap_free`, `heap_realloc` | `SegFree`, `SegRealloc`: `ShrinksInPlace`, `MovesBlock` |

`MemAlloc` is `mem_alloc.h`: one of the two, by `caller.build`.

## 3. Runs

| Run | Instance | Faults | Properties |
|---|---|---|---|
| `build_signals` | 3 pids, 1 source, clock to 2, 1 edit | a tool is stopped, `fork` fails, the command is refused | `TypeOK`, `CallReturns` |
| `build_faults` | 3 pids, 1 source, 1 edit, at most 2 copies of the program | all of them | `ToolAwaited`, `ChildrenAccounted`, `WaitsForOwnFork`, `RootHasItsChild` |
| `build_script` | 2 pids, 2 sources, clock to 4, 2 versions of each source | `fork`, `stat` fail, the command is refused, the tool fails; interrupts | `ScriptTypeOK`, `StampsSound`, `PassSound`, `NoNeedlessWork`, `KeepsPromise`, `PassEnds` |
| `command_arguments` | 4 strings, 4 slots in nodes of 2, appends of up to 2 arguments | any allocation fails; an argument is "" | `CmdTypeOK`, `TableCovers`, `NoLeak`, `RenderFaithful`, `SoundIsDefined`, `OrderExact` |
| `self_rebuild` | 2 terminals, 3 versions of neo.c, clock to 3, up to 2 arguments | all steps of a rebuild; interrupts | `RebuildTypeOK`, `StampsTell`, `WorksCurrent`, `NewIsNew`, `NestsOnce`, `SameArguments`, `HandsOver`, `StartsEnd` |
| `vectors` | 2 vectors, 2 elements, capacities up to 4, sizes 0 to 3 | memory runs out at any allocation | `VecTypeOK`, `Fits`, `SelfExtendNeverReturns`, `KeepsSequences` |
| `failed_append` | the same as `command_arguments` | an argument is "" | `AppendedCanBeDeleted`, violated, section 5 |
| `strings` | strings of up to 6 characters, four callers: letters, numbers, settings, letters beyond ASCII | undefined calls; no memory for any of the pieces of a split | `SearchExact`, `CutsExact`, `NumbersExact`, `EditsExact`, `ConfigExact` |
| `allocators` | 4 users, a heap of 32 bytes, 6 ways of using it | a heap that is full; a table that is full | `BytesKept`, `ChunksTile`, `BlocksApart`, `FitFound`, `MemoryAddsUp` |
| `find_index` | strings of up to 4 characters | - | `FindsFirst`, violated, section 5 |
| `compile_result`, `wait_result` | 3 pids, 1 source | the tool fails; `execv` fails | one violated claim each, section 5 |

What they show:

- `ToolAwaited`: as long as nothing stops a tool, the call that forked it waits
  until it ends, even when it is killed; so no later call meets a half-written
  output.  A *stopped* tool is different, and the property says so: WSTOPPED
  makes the call return while its tool may go on later.
- `ChildrenAccounted`: every child of a copy of the program is one it waits for,
  its asynchronous job, or one that was stopped: no other zombie stays behind.
- `WaitsForOwnFork`, `RootHasItsChild`: pids are recycled and the program mixes
  synchronous and asynchronous commands, yet every wait is for the fork it
  belongs to, and only copies made by a failed `execv` ever wait for nothing.
- `CallReturns`, `PassEnds`: calls and passes come to an end.
- `StampsSound`, `PassSound`, `NoNeedlessWork`, `KeepsPromise`: under the two
  guards above the caching is right, it recovers from failed and interrupted
  passes, and it runs a tool only when there is something to do.

- `NoLeak`: every live string can be reached through the array, however many
  allocations failed, also those of nodes and of the table: `last_index` is
  raised before the allocation, and no slot that was written falls out of the
  loops because of it.
- `RenderFaithful`, `SoundIsDefined`: as long as no append has failed, a command
  renders what was appended in order, and uses and frees only its own strings.
  Two ways out of defined behaviour remain, which the properties name: a failed
  append (section 5), and an array to which nothing was ever appended, whose
  slot 0 the loops read although `is_empty`.

- `OrderExact`: a sort that fails half way has lost and doubled nothing; one that
  succeeds has sorted, and keeps the order of equals if the comparison lets it.

- `WorksCurrent`, `NewIsNew`: a program that goes on without a rebuild is current,
  and one run after a rebuild is at least as new as what its caller looked at.
  The first needs its condition: the test compares files, not the running
  program, so when another terminal rebuilds neo between the start and the test,
  the old program goes on.
- `NestsOnce`, `SameArguments`, `HandsOver`, `StartsEnd`: whatever fails or is
  interrupted, a new program never rebuilds again, its main program sees the
  user's arguments, and the caller never works as well.  `HandsOver` is not a
  promise that the work is done: when no `./neo` can be run, nobody does it and
  the exit status is success all the same.

- `Fits`, `KeepsSequences`: in any order of calls, with any capacity found, each
  macro does to the sequence of elements what its name says, moves only slots
  that exist, and never makes an element of a slot that was not stored in.
- `SelfExtendNeverReturns`: the one call that does not: a vector with elements
  extended by itself grows until memory is exhausted, because the loop's bound is
  the count that the loop raises.

- `SearchExact`, `CutsExact`, `NumbersExact`, `ConfigExact`: on every string, also
  one that edits have made, the searches find exactly the occurrences, overlapping
  ones too; a split gives the longest stretches outside them; a conversion
  succeeds exactly for the numbers in range; what the parser made of a file can be
  written and parsed again.  The first two also say exactly when a call goes beyond its
  array (more occurrences of a character than `MaxPositions`, a character that is not
  ASCII, more pieces than `MaxSubstrix`) and what a split without memory for some of
  its pieces returns.  `find_index` has what the searches get wrong.
- `EditsExact`: how far the edits can be trusted, with the conditions spelled out:
  an erasure that does not end exactly at the end, a deletion of occurrences that do
  not overlap.
- `ChunksTile`: whatever is allocated, resized and freed, the walk over the inline
  allocator's chunks meets only intact headers and ends at the end of the heap,
  also after a `heap_realloc` that absorbed a chunk in vain.
- `BytesKept`, `BlocksApart`: nobody's bytes are overwritten or handed out twice.
  For the inline allocator always; for the segmented one under `Regular`: blocks of
  the heap of one size, and either one alignment that divides it, so that no padding
  arises (`Uniform`), or several, with no padding below `SPLIT_CUTOFF` or as large as
  a block, no block resized and room in the tables for every chunk (`Padded`).  TLC
  finds a counterexample when a part of `Regular` is dropped (section 5).
- `MemoryAddsUp`: with blocks of any sizes the tables lose track of memory only
  when one of them is full; no merge of `defragment_heap` drops or doubles a byte.
  This needs `Unsplit`: no alignment above the cutoff or above the size of a block.
- `FitFound`: what the binary search by size finds is large enough; and, in a table
  sorted by address, it misses a chunk that fits only when a chunk that is too small
  lies behind one that fits.  Without such a pair, and with the sizes in order, it
  finds the smallest that fits.  It holds for callers with blocks of several sizes
  (`Unsplit`) too, whose heaps really have such pairs, and really miss.

**Bounds.**  Six characters hold three overlapping occurrences of a pattern of three or
four, or a setting with two `=`; numbers of up to six digits pass `IntMax` and
`UintMax` (77 and 87, for 2^63-1 and 2^64-1), which the digits 7 and 8 reach exactly,
miss and exceed.  `MaxSubstrix` is 2 for 2048 and `MaxPositions` 4 for 1024, so that
six characters have one piece more than a table holds, and one and two occurrences
more.  The heap of 32
bytes is scaled from the real one: a header as large as the maximal alignment, a
cutoff as large as the default alignment, a table of 3 allocated chunks, which
callers with 4 blocks fill, and one of 5 free chunks, one bin of two slots so that it
runs empty.  Each caller has its `blocks`,
the most it holds.  Its sizes split a chunk, fill it exactly, or leave less than
a chunk.  One caller of the segmented allocator is `Uniform` with a bin, one
`Padded`, one shrinks its blocks, and one has blocks of two sizes, for
`MemoryAddsUp`.

Capacity 4 is two doublings beyond the first slot, and lets a vector
be full, half full and longer than a resize.  Two terminals and three versions let one terminal rebuild under the
other; three seconds put an edit after each of two rebuilds.  Four slots in nodes of two make the second node, and with it the
growth of the table, appear in the middle of an append; two arguments per append
let its second turn fail after its first has stored a string.  Three pids let the program have a synchronous child, an asynchronous
job and a pid to recycle; with a failed `execv`, two copies of the program and a
tool of one of them.  Two sources are enough for one of several compilations to
fail and for the objects to be statted in two orders.  Four seconds allow a pass,
an edit, a second pass, and ticks within a pass.  `MaxCopies`, `MaxClock` and
`MaxVer` are the named bounds; each tool is stopped at most once, and a program
has one asynchronous job at a time.  The clock stands still in `build_faults`,
which asks about processes and not about times.

**Fairness.**  A call goes on while it can (`WF` of `CallStep`), and a tool that
is not stopped comes to its end (`WF` of `ToolStep`): the kernel schedules both,
and compilers terminate.  Nothing is assumed of the user, the signals, the clock
or the editor; in particular a stopped tool need not be continued, and
`CallReturns` still holds, because of WSTOPPED.  It is checked without failing
`execv`s: the child of a failed one is a second user program, and nothing says
that a user's program ends.

In `self_rebuild` a terminal's programs go on while they can (`WF` of
`InProgram`): the script, and the main program of neo, come to their ends.

**Deadlock** is not checked: the caller may stop calling, the clock, the editor and
the length of strings are bounded, a strix may be lost, and a full heap may refuse
every request.

Each property has a mutant in `PROJECT.json`: a change of a modelled definition
that a plausible bug would make (a wait option left out, `P_ALL` for `P_PID`, a
comparison turned round, ...) and that violates it.

## 4. What is proved

Constants are arbitrary: any set of pids and sources, any faults allowed by the
assumptions, any bounds.  `ShellAssumption` and `BuildAssumption` give the types
of the constants; `ScriptAssumption` leaves failing `execv`, stops and kills out
of the script.

| Theorem | Module | States |
|---|---|---|
| `TypeCorrect` | NeoBuild_proofs | `Spec => []TypeOK` |
| `OwnForkAwaited` | NeoBuild_proofs | `Spec => []WaitsForOwnFork` |
| `ToolsAreAwaited` | NeoBuild_proofs | `Spec => []ToolAwaited` |
| `NoChildForgotten` | NeoBuild_proofs | `Spec => []ChildrenAccounted` |
| `RootNeverWaitsInVain` | NeoBuild_proofs | `Spec => []RootHasItsChild` |
| `ScriptTypeCorrect` | BuildScript_proofs | `ScriptSpec => []ScriptTypeOK` |
| `CachingSound` | BuildScript_proofs | `ScriptSpec => []StampsSound` |
| `PassesSound` | BuildScript_proofs | `ScriptSpec => []PassSound` |
| `NothingNeedless` | BuildScript_proofs | `ScriptSpec => NoNeedlessWork` |
| `PromiseKept` | BuildScript_proofs | `ScriptSpec => KeepsPromise` |
| `CmdTypeCorrect` | NeoCmd_proofs | `CmdSpec => []CmdTypeOK` |
| `TableAlwaysCovers` | NeoCmd_proofs | `CmdSpec => []TableCovers` |
| `NothingLeaks` | NeoCmd_proofs | `CmdSpec => []NoLeak` |
| `RendersFaithfully` | NeoCmd_proofs | `CmdSpec => []RenderFaithful` |
| `SoundUseIsDefined` | NeoCmd_proofs | `CmdSpec => []SoundIsDefined` |
| `SortsExactly` | NeoCmd_proofs | `CmdSpec => []OrderExact`: sort, max and min on any range of any array that commands make, for any ranking of the items |
| `RebuildTypes` | NeoRebuild_proofs | `RebuildSpec => []RebuildTypeOK` |
| `StampsAreEnough` | NeoRebuild_proofs | `RebuildSpec => []StampsTell` |
| `OnlyCurrentWorks` | NeoRebuild_proofs | `RebuildSpec => []WorksCurrent` |
| `NewProgramIsNew` | NeoRebuild_proofs | `RebuildSpec => []NewIsNew` |
| `NestsAtMostOnce` | NeoRebuild_proofs | `RebuildSpec => []NestsOnce` |
| `ArgumentsPassOn` | NeoRebuild_proofs | `RebuildSpec => []SameArguments` |
| `OnlyOneBuilds` | NeoRebuild_proofs | `RebuildSpec => HandsOver` |
| `VecTypeCorrect` | NeoVec_proofs | `VecSpec => []VecTypeOK` |
| `AlwaysFits` | NeoVec_proofs | `VecSpec => []Fits` |
| `SequencesKept` | NeoVec_proofs | `VecSpec => KeepsSequences` |
| `SelfExtendIsForever` | NeoVec_proofs | `VecSpec => SelfExtendNeverReturns` |
| `HeapStaysTiled` | InlineAllocator_proofs | `MemSpec => []ChunksTile` |
| `InlineKeepsBytes` | InlineAllocator_proofs | `MemSpec => [](caller.build = "inline" => Kept)`, the inline half of `BytesKept` |
| `NoMemoryLost` | SegmentedAllocator_proofs | `MemSpec => MemoryAddsUp` |
| `RegularApart` | SegmentedAllocator_proofs | `MemSpec => []BlocksApart` |
| `AllKeepBytes` | SegmentedAllocator_proofs | `MemSpec => []BytesKept`, for both allocators |
| `MissesOnlySmallBehind` | SegmentedAllocator_proofs | `MemSpec => []FitFound` |
| `StrixCharacters` | Strix_proofs | `StrixSpec => []StrixInv` |
| `SearchesAreExact` | Strix_proofs | `StrixSpec => []SearchExact` |
| `EditsAreExact` | Strix_proofs | `StrixSpec => []EditsExact` |
| `NumbersAreExact` | Strix_proofs | `StrixSpec => []NumbersExact` |
| `CutsAreExact` | Strix_proofs | `StrixSpec => []CutsExact` |
| `ConfigIsExact` | Strix_proofs | `StrixSpec => []ConfigExact` |

`TypeOK` is not inductive: a frame of type `Frames` may have the op "compile"
and no source.  `TypeInv` adds `SoundFrames`, that a process at a step of a
compilation has a source.

The four theorems on waiting hold for any number of pids, of copies that failed
`execv`s make, and of recycled pids.  They follow from `WaitInv`:

| Part | Says |
|---|---|
| `TableSound` | only running copies of the program have children, and only running processes a job; a forked child awaits nothing |
| `NoCycle` | no process is its own ancestor: among any processes one has its parent outside |
| `RootWaits` | the user's program runs for good, and waits only for what it has |
| `JobsKnown` | a job is a child of the copy that started it; another copy knows it only from its parent, which is blocked waiting for that very copy |
| `ChildrenKnown` | each child is waited for, or is its parent's job, or was stopped, and then it is no copy of the program |
| `ToolsKnown` | `ToolAwaited`, as a property of the child |
| `WaitsForOwnFork`, `RootHasItsChild` | the properties themselves |

The main lemma is `OnlyOwnerKnows`: while the copy that started a job is not blocked
on another copy that knows it, no other process knows that job; so the pid is
recycled (`waitpid` frees it) only when no frame still means the old process.
There is a lemma for each kind of step
(`LocalStep`, `SyncForkStep`, `WaitStep`, `RunAsyncStep`, `ExitStep`, `ToolEndsStep`,
...), stated of the tables before and after, and then one for each group of actions
(`CallWaits`, `ProgramWaits`, `ToolWaits`).

The theorems of NeoRebuild are for any number of terminals, versions of neo.c and
arguments, and any clock, from `RebuildSpec` (fairness, which `self_rebuild` adds, is
not used).  `RebuildInv` has `RebuildTypeOK`, `StampsTell`, and for each terminal
`StackOK` (at most two copies, the lower one waiting, the upper one nested and
carrying its arguments) and `CopyOK`, what each copy may rely on at each point of
`neorebuild`: while the program on disk is the copy's own (`mine`) its times still
say which neo.c it is from, also when another terminal is linking (`Linking`); a
compilation under way is of the newest neo.c; a rebuild it has made is not older
than the neo.c it was asked for.

`PassSound` needs a real invariant, `ScriptInv`.  Its parts, and what each is for:

| Part | Says |
|---|---|
| `OneTool` | only the program and the child it waits for exist, so one writer at most |
| `CallOfPhase` | the call at work belongs to the phase, and is not a forced one |
| `NoFuture` | no time stamp is later than the clock |
| `StampsSound` | the two tests are sound on disk (also a property by itself) |
| `StampsTell` | the converse: an object older than its source, or newer than the executable, does differ from it (for `NoNeedlessWork`) |
| `StatsHold` | what a call has read of the times is still so: nothing changes the files under it |
| `ToolReadsWell` | what a tool has read is still what is on disk |
| `Progress` | in a good pass, the sources done so far have current objects; after the link the executable has them |

The proof that a step preserves `ScriptInv` goes action by action (`ReturnInv`,
`NeedsRunInv`, `StatsInv`, `SyncInv`, `ToolInv`, `SurroundingsInv`), with lemmas
on frames (`FrameFields`, `LocalStep`) and on outputs that disappear
(`OutputGone`).  `PromiseKept` maps every step to `Begin`, `Work`, `Finish`,
`Modify` or a stutter.  Each part of `ScriptInv` was model-checked before it was
proved.

The theorems of NeoCmd follow from `CmdInv`.  Beyond the properties it has
`Stored` (what was written lies in a slot that the loops reach, so it stays
reachable when an append fails) and `Holds`: while the command is sound, the
array holds exactly `given`, each argument in a live string of its own.
`AppendFacts` says what `dyn_arr_append` does to any array; `ReleaseDefined` that
freeing pairwise different live strings is defined.  The proof is for every
number of arguments, node size and minimum size, and for failing allocations as
well as without.

`SortsExactly` is for items and rankings of any number besides (`OrderAssumption`: the
items have ranks, and "no node" is none of them).  Of the array it needs only the types
of `CmdInv` and that an empty one has `last_index` 0; the rest is about sequences:

| Lemma | Says |
|---|---|
| `ReordersTwice`, `ReordersParts` | reorderings one after another, and side by side, are reorderings, and stable ones stable (`Reorders`) |
| `TakeNext` | if what is taken from a sequence comes in order, before all that is left (`Taken`), and the next one comes first of what is left (`ComesNext`), this stays so |
| `LeftFirst`, `RightFirst`, `MergedRight` | of two halves in order, each turn of the merge takes such a next one; at its end everything is taken |
| `HalvesSort`, `RangesSort` | from `Sorted` outcomes of both halves follow those of the range, whichever way it ends; so all ranges are, by their length |
| `LeadsOn`, `ExtremeLeads` | after each item max and min hold the first of those that no other beats (`Leads`) |

`Fits` is nearly inductive: `VecInv` only adds the types.  One lemma per macro
says that it keeps a vector `WellFormed`, a second what it does to the sequence
(`WithInsertedSeq`, `WithoutSeq`, ...), from what memmove and realloc do to the
slots.  `SequencesKept` needs `ExtendInv` besides: after `index` turns
(`Halfway`) the destination holds what it held and the first `index` elements of
the source; or, when the two are one vector, its count has grown by `index`,
which is also why such a call never returns.

The theorems of the inline allocator are for a heap, header, split threshold and
alignments of any size (`HeapAssumption`, `InlineAssumption`: the heap has room for
its first header), any number of users and any requests.  The segmented
allocator's steps are steps of `MemSpec` too, and leave them alone.  `InlineInv`:

| Part | Says |
|---|---|
| `Tiles` | chunks lie in the heap, each ends where the next begins or at the end of the heap, and none begins inside another |
| `Headed` | the header of each chunk is intact |
| `Placed` | each block is in a used chunk that is large enough |
| `Owned` | no two blocks share a chunk, and every used chunk is under a block |
| `AllHold` | each block holds what its user stored |

`SplitTiles` and `CoalescedTiles` say that `split_chunk_if_possible` and
`try_coalesce_with_next` keep `Tiles` and which chunks are used; `WrittenHeads` that
writing the changed headers makes all headers intact and touches no data (`Beside`);
`Allocates` and `Frees` what a whole call does; `Filled`, `CopiedIn` and
`OthersRemember` what users and memcpy do to the bytes.  `MovesStep` puts them
together for the hardest call, a `heap_realloc` that absorbs the next chunk, then
allocates, copies and frees.  `Owned` gives the equality of the two cardinalities in
`Tiled` by a bijection (`AsManyAsUsed`).  `BytesAssumption` says that "no block", junk and
headers are told apart from blocks and users' bytes, which are tuples.

`NoMemoryLost` is for a heap, bins and tables of any size (`BinsAssumption`: the
table of free chunks has room for one), any alignments and any users.  The loops of
the searches and of `defragment_heap` are recursive functions over their turns;
what a turn keeps, the loop keeps (`LoopKeeps`), and a loop that comes nearer to its
end in each turn has ended after enough turns (`LoopEnds`, for `SweepTurn` by
`TurnsLeft`).

| Lemma | Says |
|---|---|
| `PtrFound`, `FitIsFound` | `SearchByPtr` finds an entry with that `data_ptr`, and one if there is one and the table is sorted; `SearchBySize` finds one that suffices; if none that is too small lies behind one that suffices, it finds one, the smallest if the table has them by size (`SizeTurns`: what one turn keeps) |
| `InsertAtFacts`, `RemoveAtFacts`, `PlaceOf` | the tables after an insertion and a removal |
| `KnownSums`, `KnownInserted`, `KnownRemoved`, `KnownChanged` | what the bytes that a table knows of become when an entry comes, goes or changes |
| `SweepTurnIs`, `KnownJoined`, `JoinedClear`, `Settles` | `defragment_heap` only joins two entries that touch, so the bytes stay the same and the table stays sorted, up to its last turn |
| `RestSplitIs`, `AddedWithout`, `CutOut` | the entry that `chunk` points to is still the same one after the rest behind it was added, although that shifts the table |
| `AllocHeapIs`, `HeapCounts`, `AllocCounts`, `FreeCounts`, `MoveAdds`, `ShrinkAdds` | the bytes after each call |
| `BinStarts` | the bins lie behind the heap |

The invariant (`CountInv`) says that entries are numbers and tables are sorted
(`Tabled`); that no block in the heap has a padding as large as itself (`Narrow`),
and every entry starts no later than its data (`IsClear`), so that a chunk and its
`prev_chunk_ptr` are never one entry and joining them doubles nothing.

`RegularApart` and the segmented half of `AllKeepBytes` are for the
same constants and any caller that is `Regular`; these are the callers for which no
memory is handed out twice, and the invariant (`RegularInv`, with `InUse`) shows what it
rests on.  `s` is the one size of the caller's blocks in the heap, and `w` the size
itself, if no padding arises, or else the cutoff (`TheSize`, `Step`).

| Part | Says |
|---|---|
| `Sound` | no two chunks of the heap overlap; each starts and ends at a multiple of `w`, or at the end of the heap (`HeapChunk`); and what an entry calls the chunk in front of it, if there is one at that address, does end where the entry begins, however old `prev_chunk_ptr` is: it is never more than `s` bytes in front, and no chunk in use is smaller |
| `Neat` | the tables are sorted by address, with no address twice |
| `BinLaid` | the slots of a bin lie in it, on multiples of their size, each in one table |
| `Loose`, `Covered`, `Used` | only with padding: no two free chunks touch, each chunk ends where another begins or at the end of the heap, and each chunk in use starts with a block; so there is at most one free chunk more than blocks (`FewBlocks`, `FewFree`), and room in both tables (`RoomLeft`) |
| `Alike` | only without padding: no chunk in use can be split, or has another alignment than the one asked for, so `heap_realloc` leaves the block in its place |
| `BlocksLie` | each block lies in the memory, meets no free chunk, and none in use but the one it starts in (`Guarded`), and no other block |
| `BytesLie` | each block holds what its user stored |

`Loose`, `Covered` and `Used` are there for the room in the tables: that `c.blocks + 2`
entries are enough for the free chunks, with the padding that is split off, follows only
because no memory is lost and free chunks that touch are joined.

| Lemma | Says |
|---|---|
| `MultiplesAre`, `Divided`, `AlignedIs` | multiples, and when an address needs no padding |
| `FusedSound`, `CutSound`, `CutAgain` | joining two chunks that touch, and cutting one, keep chunks `Sound` |
| `JoinMerges`, `TurnMerges`, `DefragmentedSwept` | so `defragment_heap`, which tests `prev_chunk_ptr` without testing that the chunks touch, joins only chunks that do, and leaves none that do |
| `LeadCut`, `RestCut`, `HeapCarves`, `CarvedSets` | a block cut out of a free chunk, with the padding in front and the rest behind, meets nothing, also when a full table loses one of the parts |
| `HeapHands`, `HeapTakesBack`, `BinHands`, `BinTakesBack` | the tables and the blocks after `heap_alloc` and `heap_free` |
| `ArenaGives`, `ArenaTakesBack`, `OtherArena` | what one arena does meets no block in another |
| `UniformServes`, `PaddedServes` | for a regular caller any free chunk that suffices can be cut |
| `RegularGiven`, `RegularGone`, `RegularResized` | the whole calls, with what the users store |

`MissesOnlySmallBehind` needs of the heap only that its table is one, which `CountInv` and
`RegularInv` say of the two kinds of callers; the rest is `FitIsFound`: all that the search
has passed on its left are too small, all it has taken off its right are behind one it
found, and what it found last is the smallest of those.

The theorems on strings are for any callers, words, lengths and characters
(`StrixAssumption`: what a caller passes is a string, and not NULL; the table of the
splits has room for one piece; the result of an undefined call is not NULL;
`ConfigAssumption`: NULL is also no string with separators in it and no array of
settings).  `StrixInv` says
that the strix is a sequence of its caller's characters, which every edit keeps:
nothing is read beyond what is stored.  The other theorems are then facts about all
strings:

| Lemma | Says |
|---|---|
| `Nested`, `OneMore` | of two beginnings of the pattern that end at a place, the shorter ends the longer; and one ends where the one before it does, if the next characters agree |
| `SeenContinues` | falling back along `lps` finds the longest beginning that the next character continues (`Continued`) |
| `LpsLongest`, `ProgressLongest` | the tables hold the longest beginnings that end at each character (`Longest`), of the pattern below itself and of the string |
| `AscendingExact` | a loop that appends the positions of a set makes them all, once, in order, as many as the set has |
| `WholeEnds`, `MatchesAscend`, `MatchesExact` | so the ends of occurrences are where j is the length of the pattern |
| `Joined`, `Pieces` | pieces put one after another are their characters in order; the pieces between cuts that do not overlap begin and end where the cuts do |
| `AscendingOnly`, `PicksNothing`, `PicksMore` | a string without the characters at some positions (`Without`) is what one gets by picking the others in ascending order, piece by piece |
| `Erases`, `DeletesRight`, `TrimsRight` | the three edits of `EditsExact`: `strix_erase` leaves two pieces, `strix_delete_occurence` one more than there are cuts, trimming one |
| `ValueSteps`, `IntSteps`, `ANumber` | after each character the conversion holds the number the digits so far are, or has failed where they are none or their number passes the maximum, and a number past the maximum only grows |
| `DoubleSteps`, `FewPoints`, `WithoutPoint`, `ADouble` | the same for doubles: the digits are those of the string without its one point, the divisor a power of ten for each digit after it |
| `AscendingLists`, `Elements` | `Ascending` is the only rising list of the positions of a set, so `ElementsAt` may be any other way to pick in order |
| `PiecesUncut`, `PiecesAreStretches`, `FewStretches` | the non-empty pieces between cuts are the longest stretches without a cut, and there are at most one more than cuts |
| `JoinPlaces`, `JoinedCuts`, `SplitsAgain` | where each piece and each separator lies in what `strix_join_*` makes; so a separator that no piece has is found just there |
| `CharsFound` | the two searches for a character agree with those for a string of one, up to the ends of their arrays |
| `PiecesUncovered`, `SkippedInFront` | what a split by a substring stores are the stretches outside the occurrences, however these overlap; the piece that may be missing is the first, and there is one in front just when no occurrence stands at the beginning |
| `SplitOfAll`, `SplitOfSome`, `WithoutFirst` | what the split makes of these pieces when none is missing, and when some are |
| `Rejoined`, `SubstringJoin` | the pieces between occurrences that do not overlap, joined by the substring, are the string |
| `Strides` | the characters of a slice by stride are at the positions of the range that the stride divides |
| `SignFound`, `SettingIs`, `RenderedIs` | the first "=" divides a piece; key and value have no white space; a setting, written, is read as itself |
| `KeptAre`, `ParseIs`, `ParsedAgain` | the pieces with a "=" are parsed in order, and the file written from them has just these pieces |

Induction over the string is out of the prover's reach as a theorem to cite, so the
proofs do without: of the places where a table would be wrong, one is the first
(`FirstOf`), and the step before it was right.  That a recursive function is what its
equation says needs one function that satisfies the equation; for the tables it is
the explicit solution, for others it comes from `Recursion`.  The sort calls itself
for two ranges: `FixedPoint` has a solution for every function that is defined by its
values for smaller arguments.

Only model-checked: the liveness properties (`CallReturns`, `PassEnds`,
`StartsEnd`), which the prover cannot do.  Every other property of the passing runs is
a theorem.

## 5. Where code and documentation disagree

- `compile_result`: `neobuild.h:287` promises "true if compilation was
  successful".  The code tests `code` (472), the `si_code` of `waitid`
  (CLD_EXITED, CLD_KILLED, ...), which is never 0: a failed compilation returns
  true.  After a failing `fork()` nothing has stored `code`, and the call returns what
  an uninitialized variable says; that violates the same property, and is left out of
  the run, where it would hide the other.
- `wait_result`: `neobuild.h:187` promises "true if the process was successfully
  waited on".  `neocmd_run_sync` (1175) drops the result of `neoshell_wait` and
  returns true.  The run shows a copy of the program, made by a failed `execv`,
  that waits for pid 1, has no such child and reports a successful link.

- `failed_append`: `neobuild.h:144` says that `neocmd_delete` "frees allocated
  resources".  When an append fails, `neocmd_append_null` (1250) frees every
  argument but leaves the pointers in the array, and the delete frees them again.
  No lack of memory is needed: an argument "" is enough, because `strix_create`
  refuses it.  The run shows `neocmd_append(cmd, "x", "")` and `neocmd_delete(cmd)`.

- `find_index`: `header/strix.h:209` says that `strix_find` returns the "Index of
  first match".  `kmp_search` (`string_search.c:45`) returns the end of the match
  less the longest border of the pattern less one: 1 for "ab" in "ab".  It is right
  only for patterns that repeat one character.  That there is a match, or none, it
  says correctly (`SearchExact`).

Without a run, the first from reading, the others also from counterexamples met
while modelling:

- `neobuild.h:234` says that `neorebuild` returns "true if a rebuild was performed
  successfully, false otherwise".  It returns true when no rebuild was required
  (844) and when it has seen `--no-rebuild` (718), and never returns after a
  successful one (833).
- `strix_modify`: "Frees the existing string and replaces it with a new one"
  (`header/strix.h:79`).  It frees the caller's strix and assigns the new one to its
  own parameter (`strix.c:178`).
- `strix_insert_str`, `strix_insert`: what follows the inserted text is copied from the
  start of the strix instead of from `pos`, and the last byte is not written
  (`InsertAt`).
- `strix_erase`: pos is the "Starting position for erasure" (`header/strix.h:168`),
  but the character at pos stays; a length beyond the end "truncates to end of
  string" (174), but one that ends exactly there makes the length of a memcpy wrap
  (`EraseOverruns`).
- `strix_slice`: the end is "exclusive" (`header/strix.h:319`), but the code takes it
  in; its callers rely on that.
- `strix_delete_occurence`: a substring that does not occur makes the strix longer by
  two substrings of unwritten bytes, because -2 counts as a number of matches;
  overlapping matches are refused or undefined.
- `strix_split_by_substr` and `strix_split_by_substrix` are "Limited to
  MAX_SUBSTRIX_NUM (2048) splits" (`header/strix.h:296`, `:310`), but store the next
  piece beyond the end of the table (856, 986).  `strix_split_by_delim` has the same
  limit in the documentation (`:275`), and no limit in the code: its table grows.
- The same two "return NULL if memory allocation fails" (`header/strix.h:295`, `:309`),
  but without memory for the piece in front of the first occurrence they return the
  others (803-810, 933-940).
- `strix_find_all_char` stores beyond the end of its array after 1024 occurrences
  (1696-1713); `strix_find_unique_char` reads and writes in front of `found` for a byte
  of 0x80 or more, where char is signed (1580-1587).
- `neocmd_delete` "frees allocated resources" (`neobuild.h:144`), also of a command that
  nothing was appended to, whose slot 0 nobody stored (`cleanup_arg_array`, 25): the
  compile call does this for an unsupported compiler (432).
- `dyn_arr_sort` returns "true if successful, false if allocation failed or indices are
  invalid" (`buildsysdep/dynarr/inc/dynarr.h:70`).  It returns true for a range beyond
  `last_index` whose node exists, and the array counts that range from then on
  (`LastAfter`); of a single index it tests nothing.
- `inline_allocator.h:3` promises "alignment support".  `heap_alloc` reserves the padding
  but returns the pointer in front of it (`InlineHeapAlloc`), and growing in place
  looks at no alignment.  The properties therefore say nothing of alignment.
- The search by size of the segmented allocator (`segmented_allocator.h:385`) expects
  sizes in order, and the table is sorted by address: a request may be refused although
  a chunk fits, when one that is too small lies behind it (`FitFound`).
- The segmented allocator outside `Regular`.  A block with padding below
  `SPLIT_CUTOFF` reaches into the chunk split off behind it (`RestSplit`).
  `defragment_heap` merges with `prev_chunk_ptr` without testing that the chunks
  adjoin: after blocks of 96 and then 48 and 48 bytes a free chunk may cover a block
  in use; so it may when a padding as large as a block was split off and then handed
  out.  Where a block is shrunk below its padding, `data_ptr` lies behind the chunk,
  and `defragment_heap` may merge a chunk with itself: the table then knows of more
  bytes than there are (outside `Unsplit`).  `usable_size` is less by a padding that was split off, so that
  `heap_realloc` copies too little; and it stays as it was when a block shrinks in
  place, so that growing it again copies beyond the end of the new block
  (`MovesBlock`).  `heap_realloc` does not find a block of a
  bin, and a block whose entry found a full table can never be freed.  `FREE_DEFRAG_CUTOFF` has no effect: the counter it is tested with is
  never raised (861), so every free defragments.

## 6. What is not modelled

Within the modelled components:

- The text of commands and the choice among gcc, clang, as and ld: a compiler
  that has no case in a call shows only as `Refused`.  The derivation of an
  output's name: each source has one object and no two share it.
- NULL arguments and a missing file name (early returns before any state).
- Sources are never removed.  The compiled source is one file: headers are not
  looked at by the code either.
- Only tools are stopped or killed; of the build program itself, an interrupt is
  modelled in `BuildScript`, where it reaches the tool as well.
- An asynchronous command of the program touches none of the modelled files.
- Of the dynamic array: default values and `dyn_arr_set` beyond the end, which a command
  does not use.  Indexes stop at `MaxIndex`,
  and so far below the width of `size_t`.
- Of the vectors: the macros that only read (`neovec_get`, `neovec_find`,
  `neovec_foreach`, `neovec_size`, ...); `neovec_append_all` from an array of the
  program, which is repeated appends; a copy of a vector onto itself, which the
  macro's documentation excludes ("creates a new vector"); capacities whose size
  in bytes does not fit in `size_t`.
- Of the self rebuild: the objects of the library that `buildneo` makes first
  show only as failures of the script; stops of the new program (Ctrl-Z stops its
  caller too); the quoting of arguments and their cut at 2047 bytes; an append
  that fails while the new command is made, which is NeoCmd's subject.
- A killed tool may leave a half-written output (`NeoBuild`, `Garbage`).  With
  it the time stamps say "current" of an object that is not, so `BuildScript`
  excludes it: gcc and ld remove their output on an interrupt.

- Of the strings: `strix_at`, `strix_equal`, `strix_to_cstr` (no state and one line of
  meaning each), `conv_file_to_strix` and printing (I/O); `strix_errno`, which is a
  `static _Thread_local` of a header and so another variable in each source file: a
  function that sets it shows as one that fails.  Positions the callers never free
  (leaks) are not counted.  The rounding of `strix_to_double` is left out.
- Of the configuration parser: reading the file, `neo_free_config`, the search for
  `--config=` in `neo_parse_config_arg`.
- Of both allocators: use without `heap_init`, freeing what is not a block, memory
  checks, statistics and dumps; requests of 0 bytes and of NULL, which one allocator
  maps to the other's calls.  A freed block is not written to again: that is the
  users' contract.
- Of the segmented allocator: `heap_garbage_collect` with its roots, marks and sweep.
  What it takes for a root is whatever the C stack and the registers hold, which no
  model of this code has.  strix never calls it.

Components not modelled are listed in `PROJECT.json` with the reason; checksums,
logging and `neo_mkdir` stay out.

## 7. Plan

1. **Core** (done): `NeoShell`, `NeoBuild`, `BuildScript`, `BuildPromise`, all safety
   properties proved.
2. **NeoCmd**, **DynArr** (done, with proofs).
3. **NeoRebuild** (done, with proofs).
4. **NeoVec**, **VecPromise** (done, with proofs).
5. **InlineAllocator**, **SegmentedAllocator**, **MemAlloc** (done, with proofs).
6. **StrixSearch**, **Strix**, **NeoConfig**, **DynArrOrder** (done), with proofs of the
   searches, edits, numbers, cuts, the parser and the sort.
