----------------------------- MODULE HeapBlocks -----------------------------
(***************************************************************************)
(* What the users of heap_alloc, heap_realloc and heap_free hold, and the     *)
(* bytes of the heap.  Each user has at most one block, and has stored its     *)
(* own bytes in all of it; a byte nobody will read again is Junk.              *)
(***************************************************************************)
EXTENDS Integers, Sequences, FiniteSets, TLC

CONSTANTS Owner, NoBlock,
          Callers,           \* the ways of using the heap: build, sizes and alignments,
                             \* and the most blocks at a time (bound)
          HeapCapacity, MaxAlignment, DefaultAlignment,
          Alignments,        \* the alignments of alignment_t
          LastAddress,       \* the last address of the memory of the allocators
          Junk, Header       \* bytes that are not a user's

ASSUME HeapAssumption ==
  /\ HeapCapacity \in Nat \ {0} /\ LastAddress \in Nat
  /\ MaxAlignment \in Alignments /\ DefaultAlignment \in Alignments
  /\ \A a \in Alignments : a \in Nat \ {0} /\ a <= MaxAlignment /\ MaxAlignment % a = 0
  \* NO_ALIGNMENT, which is 0, is not asked for.
  /\ \A c \in Callers : /\ c.blocks \in Nat
                       /\ c.sizes \cup c.resizes \subseteq Nat \ {0}
                       /\ c.alignments \subseteq Nat \ {0}

VARIABLES held,     \* the block of each user
          byte,     \* what each address holds
          caller

userVars == <<held, byte, caller>>

Null == 0
HeapStart == MaxAlignment      \* the heap is aligned to MAX_ALIGNMENT
HeapEnd == HeapStart + HeapCapacity

Block(ptr, len) == [ptr |-> ptr, len |-> len]
Holders == {o \in Owner : held[o] # NoBlock}
MayHoldMore == Cardinality(Holders) < caller.blocks
Least(a, b) == IF a < b THEN a ELSE b

\* What tells a block from none, and a user's byte from the others.
ASSUME BytesAssumption == /\ NoBlock \notin [ptr : Int, len : Int]
                          /\ {Junk, Header} \cap (Owner \X Nat) = {}

\* (n + align - 1) & ~(align - 1)
AlignUp(n, align) == ((n + align - 1) \div align) * align

\* Not a power of two, or too large: the default is taken.
Usable(align) == IF align \in Alignments THEN align ELSE DefaultAlignment

\* The i-th byte of o, and the bytes b after o has stored those from one to another.
Stored(o, i) == <<o, i>>
Fill(b, o, ptr, first, len) ==
  [a \in DOMAIN b |-> IF a \in (ptr + first)..(ptr + len - 1) THEN Stored(o, a - ptr) ELSE b[a]]

\* memcpy(to, from, n)
Copied(b, to, from, n) ==
  [a \in DOMAIN b |-> IF a \in to..(to + n - 1) THEN b[from + (a - to)] ELSE b[a]]

\* What o has stored anywhere but in its block is never read again.
Forgotten(b, o, block) ==
  [a \in DOMAIN b |->
     IF /\ \E i \in 0..HeapCapacity : b[a] = Stored(o, i)
        /\ block = NoBlock \/ a \notin block.ptr..(block.ptr + block.len - 1)
     THEN Junk ELSE b[a]]

\* After a realloc the user stores what is new.
Resized(b, o, old, ptr, len) ==
  Forgotten(Fill(b, o, ptr, Least(old.len, len), len), o, Block(ptr, len))

BlocksInit == /\ held = [o \in Owner |-> NoBlock]
              /\ caller \in Callers

\* Every block holds what its user stored in it, whatever was allocated, resized
\* and freed since.
Kept == \A o \in Holders : \A i \in 0..(held[o].len - 1) :
          held[o].ptr + i \in DOMAIN byte /\ byte[held[o].ptr + i] = Stored(o, i)
=============================================================================
