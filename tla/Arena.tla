------------------------------- MODULE Arena -------------------------------
(***************************************************************************)
(* core/me_arena: an allocator that moves an offset through one piece of    *)
(* memory.  Nothing is freed one by one: a temporary scope puts the offset  *)
(* back, a clear starts again.  The thread's scratch memory (me_memory.cpp) *)
(* is such an arena, made when first asked for.                            *)
(*                                                                         *)
(* The caller's side is kept as the blocks it may still use: those handed   *)
(* out and not given up by a clear or by the end of the scope they were     *)
(* made in.  broken is set by the two uses that the header forbids: ending  *)
(* scopes in another order, and using the last block of an outer scope to   *)
(* grow in an inner one.  A resize that cannot be served stops the program  *)
(* (failed): it asserts, or copies to the null that ArenaAlloc returned.    *)
(***************************************************************************)
EXTENDS Naturals, FiniteSets, Sequences, SequencesExt

CONSTANTS
    MemSize,    \* bytes of backing memory
    MaxScopes   \* bound of the instance: scopes open at once

VARIABLES
    arena,   \* backing_mem, backing_mem_size, offset and prev_offset
    blocks,  \* the caller's blocks: where, how long, in which scope made
    scopes,  \* open ArenaTemp values, the innermost last
    broken, failed

vars == <<arena, blocks, scopes, broken, failed>>

NoMemory == [mem |-> FALSE, size |-> 0, offset |-> 0, prev |-> 0]

Moved(offset, prev) == [arena EXCEPT !.offset = offset, !.prev = prev]

\* Mutant: the check leaves out the size that is asked for.
FitsOffset(n) == arena.offset <= arena.size

\* ArenaAlloc: refused when the offset would pass the end.
Fits(n) == arena.offset + n <= arena.size

\* Mutant: prev_offset stays at an older block.
BumpedKeepsPrev(n) == Moved(arena.offset + n, arena.prev)

Bumped(n) == Moved(arena.offset + n, arena.offset)

NewBlock(n) == [at |-> arena.offset, len |-> n, scope |-> Len(scopes)]

Init == arena = NoMemory /\ blocks = {} /\ scopes = <<>> /\ broken = FALSE /\ failed = FALSE

\* GetTLScratch: the memory comes from the default allocator.
ArenaInit ==
    /\ ~arena.mem
    /\ arena' = [mem |-> TRUE, size |-> MemSize, offset |-> 0, prev |-> 0]
    /\ UNCHANGED <<blocks, scopes, broken, failed>>

ArenaAlloc(n) ==
    /\ arena.mem
    /\ IF Fits(n)
       THEN /\ arena' = Bumped(n)
            /\ blocks' = blocks \union {NewBlock(n)}
       ELSE UNCHANGED <<arena, blocks>>
    /\ UNCHANGED <<scopes, broken, failed>>

\* The last block grows or shrinks where it is, without a look at the end of the memory.
ResizeInPlace(b, n) ==
    /\ b.at < arena.offset /\ b.at = arena.prev
    /\ arena' = Moved(arena.prev + n, arena.prev)
    /\ blocks' = (blocks \ {b}) \union {[b EXCEPT !.len = n]}
    /\ broken' = (broken \/ b.scope # Len(scopes))
    /\ UNCHANGED failed

\* Another one is copied to a new block.
ResizeByCopy(b, n) ==
    /\ b.at < arena.offset /\ b.at # arena.prev /\ Fits(n)
    /\ arena' = Bumped(n)
    /\ blocks' = (blocks \ {b}) \union {NewBlock(n)}
    /\ UNCHANGED <<broken, failed>>

\* It is copied to null when there is no new block, and what lies beyond the offset
\* asserts.
ResizeFails(b, n) ==
    /\ b.at < arena.offset => b.at # arena.prev /\ ~Fits(n)
    /\ failed' = TRUE
    /\ UNCHANGED <<arena, blocks, broken>>

ArenaResize(b, n) ==
    /\ ResizeInPlace(b, n) \/ ResizeByCopy(b, n) \/ ResizeFails(b, n)
    /\ UNCHANGED scopes

ArenaTempInit ==
    /\ arena.mem /\ Len(scopes) < MaxScopes
    /\ scopes' = Append(scopes, [offset |-> arena.offset, prev |-> arena.prev])
    /\ UNCHANGED <<arena, blocks, broken, failed>>

\* Scope i is ended; what was made in it, or in a scope opened after it, is given up.
ArenaTempEnd(i) ==
    /\ arena' = Moved(scopes[i].offset, scopes[i].prev)
    /\ blocks' = {b \in blocks : b.scope < i}
    /\ scopes' = RemoveAt(scopes, i)
    /\ broken' = (broken \/ i # Len(scopes))
    /\ UNCHANGED failed

\* Between frames no scope is open.
ArenaClear ==
    /\ scopes = <<>>
    /\ arena' = Moved(0, 0)
    /\ blocks' = {}
    /\ UNCHANGED <<scopes, broken, failed>>

\* meClear(true), ArenaFreeAll: the memory goes back and is asked for again later.
ArenaFreeAll ==
    /\ scopes = <<>> /\ arena.mem
    /\ arena' = NoMemory
    /\ blocks' = {}
    /\ UNCHANGED <<scopes, broken, failed>>

Next ==
    /\ ~failed
    /\ \/ ArenaInit \/ ArenaTempInit \/ ArenaClear \/ ArenaFreeAll
       \/ \E n \in 1 .. MemSize : ArenaAlloc(n)
       \/ \E b \in blocks, n \in 1 .. MemSize : ArenaResize(b, n)
       \/ \E i \in DOMAIN scopes : ArenaTempEnd(i)

Spec == Init /\ [][Next]_vars

-----------------------------------------------------------------------------

Arenas == [mem : BOOLEAN, size : {0, MemSize}, offset : 0 .. 2 * MemSize, prev : 0 .. 2 * MemSize]

Block == [at : 0 .. 2 * MemSize, len : 1 .. MemSize, scope : 0 .. MaxScopes]

TypeOK ==
    /\ arena \in Arenas
    /\ blocks \subseteq Block
    /\ Len(scopes) <= MaxScopes
    /\ broken \in BOOLEAN /\ failed \in BOOLEAN

Disjoint(b, c) == b.at + b.len <= c.at \/ c.at + c.len <= b.at

\* Blocks that the caller may use never share a byte, and the offset is past them all:
\* the next allocation cannot hand one out again.  Each begins inside the memory and ends
\* there, but for the last one, which alone can have grown beyond the end.
BlocksDisjoint ==
    ~broken =>
        /\ \A b, c \in blocks : b = c \/ Disjoint(b, c)
        /\ \A b \in blocks :
              /\ b.at + b.len <= arena.offset /\ b.at < arena.size
              /\ b.at + b.len <= arena.size \/ b.at = arena.prev

\* A resize stays inside the memory: ArenaResize asserts that none is out of bounds
\* (me_arena.cpp:136), and ArenaAlloc refuses what does not fit.  But a block that grows
\* in place is not looked at.
ResizeStaysInside ==
    ~broken => ~failed /\ \A b \in blocks : b.at + b.len <= arena.size
=============================================================================
