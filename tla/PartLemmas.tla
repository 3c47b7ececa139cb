----------------------------- MODULE PartLemmas -----------------------------
(***************************************************************************)
(* The parts that are proved in the run of all the parts, each alone: the  *)
(* arena, for every size of the memory and every depth of scopes; the      *)
(* strings, for any set of them; the window and the selection, for any     *)
(* values of their constants; the editor; files and processes of the       *)
(* system, scene files, the locks on a template, and the engine from start  *)
(* to end.  Of each, an invariant that its initial states have and its      *)
(* steps keep, and what it implies.                                        *)
(***************************************************************************)
EXTENDS PartsState, SequenceTheorems, FiniteSetTheorems, WellFoundedInduction, TLAPS

-----------------------------------------------------------------------------
(* The arena: s1 is the arena, s2 the blocks, s3 the open scopes, s4       *)
(* broken and s5 failed.  The block at prev_offset is the topmost one, so    *)
(* that growing it in place meets no other; and each open scope remembers  *)
(* an offset and a topmost block of the blocks it will leave.              *)
Scope == [offset : 0 .. 2 * MemSize, prev : 0 .. MemSize]

Sizes == MemSize \in Nat /\ MaxScopes \in Nat

(* Types, and what memory that was not asked for yet has: nothing.         *)
ArenaShape ==
    /\ Sizes /\ Memory!TypeOK
    /\ s3 \in Seq(Scope)
    /\ s1.prev <= MemSize
    /\ s1.mem => s1.size = MemSize
    /\ ~s1.mem => s2 = {} /\ s3 = <<>>

(* Block b ends before offset, and is the one at prev or ends before that. *)
Below(b, offset, prev) ==
    /\ b.at + b.len <= offset
    /\ b.at = prev \/ b.at + b.len <= prev

(* What the offset leaves free now, and will leave free at the end of each *)
(* open scope, is no block's.                                              *)
OffsetsAbove ==
    /\ \A b \in s2 : Below(b, s1.offset, s1.prev) /\ b.scope <= Len(s3)
    /\ \A i \in DOMAIN s3 : \A b \in s2 :
          b.scope < i => Below(b, s3[i].offset, s3[i].prev)

BlocksApart == \A b, c \in s2 : b = c \/ Memory!Disjoint(b, c)

(* A block is inside the memory, but for the end of the topmost one.       *)
Inside(b, prev) ==
    /\ b.at < MemSize
    /\ b.at + b.len <= MemSize \/ b.at = prev

InsideMemory ==
    /\ \A b \in s2 : Inside(b, s1.prev)
    /\ \A i \in DOMAIN s3 : \A b \in s2 : b.scope < i => Inside(b, s3[i].prev)

(* The inductive invariant: of an arena used as its header asks.           *)
ArenaInv == ArenaShape /\ (~s4 => OffsetsAbove /\ BlocksApart /\ InsideMemory)

-----------------------------------------------------------------------------
LEMMA WithoutOne ==
    ASSUME NEW S, NEW s \in Seq(S), NEW i \in DOMAIN s
    PROVE  /\ Memory!RemoveAt(s, i) \in Seq(S)
           /\ Len(Memory!RemoveAt(s, i)) = Len(s) - 1
           /\ \A j \in 1 .. i - 1 : Memory!RemoveAt(s, i)[j] = s[j]
  BY DEF Memory!RemoveAt

LEMMA NoMemoryType ==
    ASSUME Sizes
    PROVE  /\ Memory!NoMemory \in Memory!Arenas /\ ~Memory!NoMemory.mem /\ Memory!NoMemory.prev = 0
           /\ Memory!NoMemory.offset = 0 /\ Memory!NoMemory.size = 0
  BY DEF Sizes, Memory!NoMemory, Memory!Arenas

LEMMA ArenaShapeInit == Sizes /\ Memory!Init => ArenaShape
<1> SUFFICES ASSUME Sizes, Memory!Init PROVE ArenaShape
  OBVIOUS
<1>1. s3 \in Seq(Scope) /\ Len(s3) = 0
  BY DEF Memory!Init
<1>2. s1 \in Memory!Arenas /\ ~s1.mem /\ s1.prev = 0
  BY NoMemoryType, Zenon DEF Memory!Init
<1>3. s2 = {} /\ s3 = <<>> /\ s4 \in BOOLEAN /\ s5 \in BOOLEAN
  BY DEF Memory!Init
<1>4. QED
  BY <1>1, <1>2, <1>3 DEF Sizes, ArenaShape, Memory!TypeOK

(* A step that moves the offset leaves the memory what it is.              *)
LEMMA MovedTo ==
    ASSUME s1 \in Memory!Arenas, NEW o \in 0 .. 2 * MemSize, NEW p \in 0 .. 2 * MemSize,
           s1' = Memory!Moved(o, p)
    PROVE  /\ s1' \in Memory!Arenas /\ s1'.offset = o /\ s1'.prev = p
           /\ s1'.mem = s1.mem /\ s1'.size = s1.size
<1>1. Memory!Moved(o, p) \in Memory!Arenas
  BY DEF Memory!Moved, Memory!Arenas
<1>2. s1'.mem = s1.mem
  BY Zenon DEF Memory!Moved, Memory!Arenas
<1>3. s1'.offset = o /\ s1'.prev = p /\ s1'.size = s1.size
  BY DEF Memory!Moved, Memory!Arenas
<1>4. QED
  BY <1>1, <1>2, <1>3, Zenon

(* The types of Shape without their definitions.                           *)
LEMMA ArenaTyped ==
    ASSUME ArenaShape
    PROVE  /\ MemSize \in Nat /\ MaxScopes \in Nat /\ s1 \in Memory!Arenas
           /\ s1.offset \in 0 .. 2 * MemSize /\ s1.offset \in Nat
           /\ s1.prev \in 0 .. MemSize /\ s1.prev \in 0 .. 2 * MemSize
           /\ s1.size \in {0, MemSize}
           /\ s2 \subseteq Memory!Block /\ s3 \in Seq(Scope)
           /\ Len(s3) \in 0 .. MaxScopes /\ DOMAIN s3 = 1 .. Len(s3)
           /\ \A b \in s2 : b.at \in Nat /\ b.len \in Nat /\ b.len > 0 /\ b.scope \in Nat
<1>1. /\ MemSize \in Nat /\ MaxScopes \in Nat /\ s1 \in Memory!Arenas
      /\ s2 \subseteq Memory!Block /\ s3 \in Seq(Scope) /\ Len(s3) <= MaxScopes
      /\ s1.prev <= MemSize
  BY DEF Sizes, ArenaShape, Memory!TypeOK
<1>2. \A b \in s2 : b.at \in Nat /\ b.len \in Nat /\ b.len > 0 /\ b.scope \in Nat
  BY <1>1 DEF Memory!Block
<1>3. QED
  BY <1>1, <1>2 DEF Memory!Arenas

(* A new block is in the memory, and the offset at most at its end.        *)
LEMMA Bumps ==
    ASSUME ArenaShape, s1.mem, NEW n \in 1 .. MemSize, Memory!Fits(n), s1' = Memory!Bumped(n)
    PROVE  /\ s1' \in Memory!Arenas /\ s1'.mem /\ s1'.size = MemSize /\ s1.size = MemSize
           /\ s1'.offset = s1.offset + n /\ s1'.prev = s1.offset
           /\ s1'.offset <= MemSize /\ s1'.prev <= MemSize
           /\ Memory!NewBlock(n) \in Memory!Block
           /\ Memory!NewBlock(n).at = s1.offset /\ Memory!NewBlock(n).len = n
           /\ Memory!NewBlock(n).scope = Len(s3)
<1>1. s1.size = MemSize
  BY DEF ArenaShape
<1>2. s1.offset + n <= MemSize
  BY <1>1, ArenaTyped DEF Memory!Fits
<1>3. s1.offset + n \in 0 .. 2 * MemSize /\ s1.offset <= MemSize
  BY <1>2, ArenaTyped
<1>4. /\ s1' \in Memory!Arenas /\ s1'.offset = s1.offset + n /\ s1'.prev = s1.offset
      /\ s1'.mem = s1.mem /\ s1'.size = s1.size
  <2>1. s1' = Memory!Moved(s1.offset + n, s1.offset)
    BY DEF Memory!Bumped
  <2>2. QED
    BY <1>3, <2>1, ArenaTyped, MovedTo
<1>5. Memory!NewBlock(n) \in Memory!Block
  BY ArenaTyped DEF Memory!NewBlock, Memory!Block
<1>6. QED
  BY <1>1, <1>2, <1>3, <1>4, <1>5 DEF Memory!NewBlock

LEMMA ArenaShapeStep == ArenaShape /\ [Memory!Next]_Memory!vars => ArenaShape'
<1> SUFFICES ASSUME ArenaShape, [Memory!Next]_Memory!vars PROVE ArenaShape'
  OBVIOUS
<1> USE ArenaTyped
<1>1. CASE Memory!ArenaInit
  <2>1. s1' \in Memory!Arenas /\ s1'.mem /\ s1'.prev = 0 /\ s1'.size = MemSize
    BY <1>1 DEF Memory!ArenaInit, Memory!Arenas
  <2>2. QED
    BY <1>1, <2>1 DEF Memory!ArenaInit, ArenaShape, Memory!TypeOK
<1>2. CASE Memory!ArenaTempInit
  <2> DEFINE saved == [offset |-> s1.offset, prev |-> s1.prev]
  <2>1. saved \in Scope
    BY DEF Scope
  <2>2. s3' \in Seq(Scope) /\ Len(s3') <= MaxScopes
    BY <1>2, <2>1 DEF Memory!ArenaTempInit
  <2>3. QED
    BY <1>2, <2>2 DEF Memory!ArenaTempInit, ArenaShape, Memory!TypeOK
<1>3. CASE Memory!ArenaClear
  <2>1. 0 \in 0 .. 2 * MemSize /\ s1' = Memory!Moved(0, 0)
    BY <1>3 DEF Memory!ArenaClear
  <2>2. s1' \in Memory!Arenas /\ s1'.prev = 0 /\ s1'.mem = s1.mem /\ s1'.size = s1.size
    BY <2>1, MovedTo
  <2>3. s2' = {} /\ UNCHANGED s3 /\ s4' \in BOOLEAN /\ s5' \in BOOLEAN
    BY <1>3 DEF Memory!ArenaClear, ArenaShape, Memory!TypeOK
  <2>4. QED
    BY <2>2, <2>3 DEF ArenaShape, Memory!TypeOK
<1>4. CASE Memory!ArenaFreeAll
  <2>1. s1' \in Memory!Arenas /\ ~s1'.mem /\ s1'.prev = 0
    BY <1>4, NoMemoryType, Zenon DEF Memory!ArenaFreeAll, ArenaShape
  <2>2. /\ s2' = {} /\ s3 = <<>> /\ UNCHANGED s3
        /\ s4' \in BOOLEAN /\ s5' \in BOOLEAN
    BY <1>4 DEF Memory!ArenaFreeAll, ArenaShape, Memory!TypeOK
  <2>3. QED
    BY <2>1, <2>2 DEF ArenaShape, Memory!TypeOK
<1>5. ASSUME NEW n \in 1 .. MemSize, Memory!ArenaAlloc(n) PROVE ArenaShape'
  <2>1. CASE Memory!Fits(n)
    <3>1. s1.mem /\ s1' = Memory!Bumped(n) /\ s2' = s2 \cup {Memory!NewBlock(n)}
      BY <1>5, <2>1 DEF Memory!ArenaAlloc
    <3>2. QED
      BY <1>5, <2>1, <3>1, Bumps DEF Memory!ArenaAlloc, ArenaShape, Memory!TypeOK
  <2>2. CASE ~Memory!Fits(n)
    BY <1>5, <2>2 DEF Memory!ArenaAlloc, ArenaShape, Memory!TypeOK
  <2>3. QED
    BY <2>1, <2>2
<1>6. ASSUME NEW b \in s2, NEW n \in 1 .. MemSize, Memory!ArenaResize(b, n) PROVE ArenaShape'
  <2>1. s1.mem /\ s1.size = MemSize
    BY DEF ArenaShape
  <2>2. CASE Memory!ResizeInPlace(b, n)
    <3>1. [b EXCEPT !.len = n] \in Memory!Block
      BY DEF Memory!Block
    <3>2. s1.prev + n \in 0 .. 2 * MemSize /\ s1' = Memory!Moved(s1.prev + n, s1.prev)
      BY <2>2 DEF Memory!ResizeInPlace
    <3>3. /\ s1' \in Memory!Arenas /\ s1'.prev = s1.prev /\ s1'.mem = s1.mem
          /\ s1'.size = s1.size
      BY <3>2, MovedTo
    <3>4. s2' \subseteq Memory!Block
      BY <2>2, <3>1 DEF Memory!ResizeInPlace
    <3>5. s5' \in BOOLEAN /\ s4' \in BOOLEAN
      BY <2>2 DEF Memory!ResizeInPlace, ArenaShape, Memory!TypeOK
    <3>6. QED
      BY <1>6, <2>1, <3>3, <3>4, <3>5 DEF Memory!ArenaResize, ArenaShape, Memory!TypeOK
  <2>3. CASE Memory!ResizeByCopy(b, n)
    <3>1. Memory!Fits(n) /\ s1' = Memory!Bumped(n) /\ s2' = (s2 \ {b}) \cup {Memory!NewBlock(n)}
      BY <2>3 DEF Memory!ResizeByCopy
    <3>2. UNCHANGED <<s3, s4, s5>>
      BY <1>6, <2>3 DEF Memory!ArenaResize, Memory!ResizeByCopy
    <3>3. QED
      BY <2>1, <3>1, <3>2, Bumps DEF ArenaShape, Memory!TypeOK
  <2>4. CASE Memory!ResizeFails(b, n)
    BY <1>6, <2>4 DEF Memory!ArenaResize, Memory!ResizeFails, ArenaShape, Memory!TypeOK
  <2>5. QED
    BY <1>6, <2>2, <2>3, <2>4 DEF Memory!ArenaResize
<1>7. ASSUME NEW i \in DOMAIN s3, Memory!ArenaTempEnd(i) PROVE ArenaShape'
  <2>1. s3[i] \in Scope /\ s3 # <<>>
    OBVIOUS
  <2>2. s3' \in Seq(Scope) /\ Len(s3') = Len(s3) - 1
    BY <1>7, WithoutOne DEF Memory!ArenaTempEnd
  <2>3. /\ s3[i].offset \in 0 .. 2 * MemSize /\ s3[i].prev \in 0 .. 2 * MemSize
        /\ s3[i].prev <= MemSize
    BY <2>1 DEF Scope
  <2>4. /\ s1' \in Memory!Arenas /\ s1'.prev = s3[i].prev /\ s1'.mem = s1.mem
        /\ s1'.size = s1.size
    <3>1. s1' = Memory!Moved(s3[i].offset, s3[i].prev)
      BY <1>7 DEF Memory!ArenaTempEnd
    <3>2. QED
      BY <2>3, <3>1, MovedTo
  <2>5. s1.mem /\ s1.size = MemSize
    BY <2>1 DEF ArenaShape
  <2>6. s2' \subseteq Memory!Block /\ s5' \in BOOLEAN /\ s4' \in BOOLEAN
    BY <1>7 DEF Memory!ArenaTempEnd, ArenaShape, Memory!TypeOK
  <2>7. QED
    BY <2>2, <2>3, <2>4, <2>5, <2>6 DEF ArenaShape, Memory!TypeOK
<1>8. CASE UNCHANGED Memory!vars
  BY <1>8 DEF Memory!vars, ArenaShape, Memory!TypeOK
<1>9. QED
  BY <1>1, <1>2, <1>3, <1>4, <1>5, <1>6, <1>7, <1>8 DEF Memory!Next

-----------------------------------------------------------------------------
(* A new block starts where all others have ended: it is the topmost one.  *)
(* It is in the innermost scope, and in the way of no other scope's end.   *)
LEMMA NewBlockApart ==
    ASSUME ArenaShape, ~s4, OffsetsAbove, BlocksApart, InsideMemory, s1.mem,
           NEW n \in 1 .. MemSize, Memory!Fits(n), NEW kept \in SUBSET s2,
           s1' = Memory!Bumped(n), s2' = kept \cup {Memory!NewBlock(n)},
           UNCHANGED s3
    PROVE  OffsetsAbove' /\ BlocksApart' /\ InsideMemory'
<1> USE ArenaTyped
<1>1. /\ s1'.offset = s1.offset + n /\ s1'.prev = s1.offset
      /\ s1'.size = s1.size
      /\ Memory!NewBlock(n).at = s1.offset /\ Memory!NewBlock(n).len = n
      /\ Memory!NewBlock(n).scope = Len(s3)
  BY Bumps
<1>2. \A b \in kept : b.at + b.len <= s1.offset
  BY DEF OffsetsAbove, Below
<1>3. OffsetsAbove'
  <2>1. ASSUME NEW b \in s2' PROVE Below(b, s1'.offset, s1'.prev) /\ b.scope <= Len(s3)
    <3>1. CASE b = Memory!NewBlock(n)
      BY <1>1, <3>1 DEF Below
    <3>2. CASE b \in kept
      <4>1. b \in s2 /\ b.at + b.len <= s1.offset
        BY <1>2, <3>2
      <4>2. b.at \in Nat /\ b.len \in Nat /\ b.scope <= Len(s3)
        BY <4>1 DEF OffsetsAbove
      <4>3. QED
        BY <1>1, <4>1, <4>2 DEF Below
    <3>3. QED
      BY <3>1, <3>2
  <2>2. \A i \in DOMAIN s3 : \A b \in s2' :
            b.scope < i => Below(b, s3[i].offset, s3[i].prev)
    BY <1>1 DEF OffsetsAbove
  <2>3. QED
    BY <2>1, <2>2 DEF OffsetsAbove, Below
<1>4. BlocksApart'
  BY <1>1, <1>2 DEF BlocksApart, Memory!Disjoint
<1>5. InsideMemory'
  <2>1. s1.offset + n <= MemSize
    BY Bumps DEF Memory!Fits
  <2>2. ASSUME NEW b \in s2' PROVE Inside(b, s1'.prev)
    <3>1. CASE b = Memory!NewBlock(n)
      BY <1>1, <2>1, <3>1 DEF Inside
    <3>2. CASE b \in kept
      <4>1. b.at + b.len <= s1.offset /\ b.at \in Nat /\ b.len \in Nat /\ b.len > 0
        BY <1>2, <3>2
      <4>2. QED
        BY <2>1, <4>1 DEF Inside
    <3>3. QED
      BY <3>1, <3>2
  <2>3. \A i \in DOMAIN s3 : \A b \in s2' : b.scope < i => Inside(b, s3[i].prev)
    BY <1>1 DEF InsideMemory
  <2>4. QED
    BY <2>2, <2>3 DEF InsideMemory, Inside
<1>6. QED
  BY <1>3, <1>4, <1>5

(* The block at prev_offset is the topmost one: its growth meets no other. *)
LEMMA GrowthApart ==
    ASSUME ArenaShape, ~s4, OffsetsAbove, BlocksApart, InsideMemory,
           NEW b \in s2, NEW n \in 1 .. MemSize, Memory!ResizeInPlace(b, n),
           ~s4', UNCHANGED s3
    PROVE  OffsetsAbove' /\ BlocksApart' /\ InsideMemory'
<1> DEFINE grown == [b EXCEPT !.len = n]
<1> USE ArenaTyped
<1>0. s1.prev + n \in 0 .. 2 * MemSize /\ s1' = Memory!Moved(s1.prev + n, s1.prev)
      /\ b.at = s1.prev
  BY DEF Memory!ResizeInPlace
<1>1. /\ s1'.offset = s1.prev + n /\ s1'.prev = s1.prev
      /\ s1'.size = s1.size
      /\ s2' = (s2 \ {b}) \cup {grown} /\ s3' = s3
      /\ b.scope = Len(s3)
  BY <1>0, MovedTo DEF Memory!ResizeInPlace
<1>2. grown.at = s1.prev /\ grown.len = n /\ grown.scope = Len(s3)
  BY <1>0, <1>1 DEF Memory!Block
<1>3. \A c \in s2 \ {b} : c.at + c.len <= s1.prev
  <2> SUFFICES ASSUME NEW c \in s2 \ {b}, c.at = s1.prev PROVE FALSE
    BY <1>0 DEF OffsetsAbove, Below
  <2>1. Memory!Disjoint(b, c)
    BY DEF BlocksApart
  <2>2. QED
    BY <1>0, <2>1 DEF Memory!Disjoint
<1> HIDE DEF grown
<1>4. OffsetsAbove'
  <2>1. ASSUME NEW c \in s2' PROVE Below(c, s1'.offset, s1'.prev) /\ c.scope <= Len(s3')
    <3>1. CASE c = grown
      BY <1>1, <1>2, <3>1 DEF Below
    <3>2. CASE c \in s2 \ {b}
      <4>1. c.at + c.len <= s1.prev /\ c.scope <= Len(s3)
        BY <1>3, <3>2 DEF OffsetsAbove
      <4>2. c.at \in Nat /\ c.len \in Nat
        BY <3>2
      <4>3. QED
        BY <1>1, <4>1, <4>2 DEF Below
    <3>3. QED
      BY <1>1, <3>1, <3>2
  <2>2. \A i \in DOMAIN s3' : \A c \in s2' :
            c.scope < i => Below(c, s3'[i].offset, s3'[i].prev)
    BY <1>0, <1>1, <1>2 DEF OffsetsAbove
  <2>3. QED
    BY <2>1, <2>2 DEF OffsetsAbove, Below
<1>5. BlocksApart'
  BY <1>1, <1>2, <1>3 DEF BlocksApart, Memory!Disjoint
<1>6. InsideMemory'
  <2>1. ASSUME NEW c \in s2' PROVE Inside(c, s1'.prev)
    <3>1. CASE c = grown
      BY <1>0, <1>1, <1>2, <3>1 DEF InsideMemory, Inside
    <3>2. CASE c \in s2 \ {b}
      BY <1>1, <3>2 DEF InsideMemory, Inside
    <3>3. QED
      BY <1>1, <3>1, <3>2
  <2>2. ASSUME NEW i \in DOMAIN s3, NEW c \in s2', c.scope < i PROVE Inside(c, s3[i].prev)
    <3>1. c # grown
      BY <1>2, <2>2
    <3>2. c \in s2
      BY <1>1, <3>1
    <3>3. QED
      BY <2>2, <3>2 DEF InsideMemory
  <2>3. QED
    BY <1>1, <2>1, <2>2 DEF InsideMemory, Inside
<1>7. QED
  BY <1>4, <1>5, <1>6

(* The innermost scope leaves the blocks made before it, below what it     *)
(* remembers.                                                              *)
LEMMA ScopeEndApart ==
    ASSUME ArenaShape, ~s4, OffsetsAbove, BlocksApart, InsideMemory,
           NEW i \in DOMAIN s3, Memory!ArenaTempEnd(i), ~s4'
    PROVE  OffsetsAbove' /\ BlocksApart' /\ InsideMemory'
<1> USE ArenaTyped
<1>0. /\ i = Len(s3) /\ i \in Nat /\ s1' = Memory!Moved(s3[i].offset, s3[i].prev)
      /\ s3[i].offset \in 0 .. 2 * MemSize /\ s3[i].prev \in 0 .. 2 * MemSize
  <2>1. i = Len(s3) /\ s1' = Memory!Moved(s3[i].offset, s3[i].prev)
    BY Zenon DEF Memory!ArenaTempEnd
  <2>2. s3[i] \in Scope
    OBVIOUS
  <2>3. QED
    BY <2>1, <2>2 DEF Scope
<1>1. /\ s1'.offset = s3[i].offset /\ s1'.prev = s3[i].prev
      /\ s1'.size = s1.size
      /\ s2' = {b \in s2 : b.scope < i}
  BY <1>0, MovedTo DEF Memory!ArenaTempEnd
<1>2. /\ s3' \in Seq(Scope) /\ Len(s3') = i - 1
      /\ \A j \in 1 .. i - 1 : s3'[j] = s3[j]
  BY <1>0, WithoutOne DEF Memory!ArenaTempEnd
<1>3. DOMAIN s3' = 1 .. i - 1 /\ 1 .. i - 1 \subseteq DOMAIN s3
  BY <1>0, <1>2
<1>4. OffsetsAbove'
  <2>1. \A b \in s2' : Below(b, s1'.offset, s1'.prev) /\ b.scope <= Len(s3')
    <3> SUFFICES ASSUME NEW b \in s2'
                 PROVE  Below(b, s3[i].offset, s3[i].prev) /\ b.scope <= i - 1
      BY <1>1, <1>2
    <3>1. b \in s2 /\ b.scope < i
      BY <1>1
    <3>2. b.scope \in Nat
      BY <3>1 DEF ArenaShape
    <3>3. Below(b, s3[i].offset, s3[i].prev)
      BY <3>1 DEF OffsetsAbove
    <3> QED
      BY <1>0, <3>1, <3>2, <3>3
  <2>2. \A j \in DOMAIN s3' : \A b \in s2' :
            b.scope < j => Below(b, s3'[j].offset, s3'[j].prev)
    BY <1>1, <1>2, <1>3 DEF OffsetsAbove
  <2>3. QED
    BY <2>1, <2>2 DEF OffsetsAbove, Below
<1>5. BlocksApart'
  BY <1>1 DEF BlocksApart, Memory!Disjoint
<1>6. InsideMemory'
  <2>1. \A b \in s2' : Inside(b, s1'.prev)
    BY <1>1 DEF InsideMemory
  <2>2. \A j \in DOMAIN s3' : \A b \in s2' : b.scope < j => Inside(b, s3'[j].prev)
    BY <1>1, <1>2, <1>3 DEF InsideMemory
  <2>3. QED
    BY <2>1, <2>2 DEF InsideMemory, Inside
<1>7. QED
  BY <1>4, <1>5, <1>6

(* A new scope remembers the offset that all blocks are below.             *)
LEMMA ScopeBeginApart ==
    ASSUME ArenaShape, OffsetsAbove, BlocksApart, InsideMemory, Memory!ArenaTempInit
    PROVE  OffsetsAbove' /\ BlocksApart' /\ InsideMemory'
<1> DEFINE n == Len(s3)
           saved == [offset |-> s1.offset, prev |-> s1.prev]
<1> USE ArenaTyped
<1>0. s3 \in Seq(Scope) /\ n \in Nat /\ DOMAIN s3 = 1 .. n
  OBVIOUS
<1>1. \A b \in s2 : b.scope \in Nat /\ b.scope <= n
  BY DEF OffsetsAbove
<1>2. saved \in Scope
  BY DEF Scope
<1>3. /\ Len(s3') = n + 1 /\ DOMAIN s3' = 1 .. n + 1
      /\ s3'[n + 1] = saved
      /\ \A i \in 1 .. n : s3'[i] = s3[i]
  BY <1>0, <1>2 DEF Memory!ArenaTempInit
<1>4. UNCHANGED <<s1, s2>>
  BY DEF Memory!ArenaTempInit
<1>5. OffsetsAbove'
  <2>1. \A b \in s2' : Below(b, s1'.offset, s1'.prev) /\ b.scope <= Len(s3')
    BY <1>0, <1>1, <1>3, <1>4 DEF OffsetsAbove
  <2>2. ASSUME NEW i \in DOMAIN s3', NEW b \in s2', b.scope < i
        PROVE  Below(b, s3'[i].offset, s3'[i].prev)
    <3>1. CASE i = n + 1
      BY <1>3, <1>4, <3>1 DEF OffsetsAbove
    <3>2. CASE i \in 1 .. n
      BY <1>0, <1>3, <1>4, <2>2, <3>2 DEF OffsetsAbove
    <3>3. QED
      BY <1>0, <1>3, <3>1, <3>2
  <2>3. QED
    BY <2>1, <2>2 DEF OffsetsAbove, Below
<1>6. BlocksApart'
  BY <1>4 DEF BlocksApart, Memory!Disjoint
<1>7. InsideMemory'
  <2>1. ASSUME NEW i \in DOMAIN s3', NEW b \in s2', b.scope < i
        PROVE  Inside(b, s3'[i].prev)
    <3>1. CASE i = n + 1
      BY <1>3, <1>4, <3>1 DEF InsideMemory
    <3>2. CASE i \in 1 .. n
      BY <1>0, <1>3, <1>4, <2>1, <3>2 DEF InsideMemory
    <3>3. QED
      BY <1>0, <1>3, <3>1, <3>2
  <2>2. QED
    BY <1>4, <2>1 DEF InsideMemory, Inside
<1>8. QED
  BY <1>5, <1>6, <1>7

LEMMA ArenaStart == Sizes /\ Memory!Init => ArenaInv
<1> SUFFICES ASSUME Sizes, Memory!Init PROVE ArenaInv
  OBVIOUS
<1>1. OffsetsAbove /\ BlocksApart /\ InsideMemory
  BY DEF Memory!Init, Memory!NoMemory, OffsetsAbove, BlocksApart, InsideMemory
<1>2. QED
  BY <1>1, ArenaShapeInit DEF ArenaInv

LEMMA ArenaStep == ArenaInv /\ [Memory!Next]_Memory!vars => ArenaInv'
<1> SUFFICES ASSUME ArenaInv, [Memory!Next]_Memory!vars, ~s4'
             PROVE  OffsetsAbove' /\ BlocksApart' /\ InsideMemory'
  BY ArenaShapeStep DEF ArenaInv
<1>0. ArenaShape /\ ~s4 /\ OffsetsAbove /\ BlocksApart /\ InsideMemory
  <2>1. ~s4
    BY DEF Memory!Next, Memory!ArenaInit, Memory!ArenaTempInit, Memory!ArenaClear,
           Memory!ArenaFreeAll, Memory!ArenaAlloc, Memory!ArenaResize, Memory!ResizeInPlace,
           Memory!ResizeByCopy, Memory!ResizeFails, Memory!ArenaTempEnd, Memory!vars
  <2>2. QED
    BY <2>1 DEF ArenaInv
<1>1. CASE Memory!ArenaInit
  BY <1>0, <1>1, ArenaTyped
    DEF Memory!ArenaInit, ArenaShape, OffsetsAbove, BlocksApart, InsideMemory
<1>2. CASE Memory!ArenaTempInit
  BY <1>0, <1>2, ScopeBeginApart
<1>3. CASE Memory!ArenaClear \/ Memory!ArenaFreeAll
  <2>1. s2' = {} /\ s3' = <<>>
    BY <1>3 DEF Memory!ArenaClear, Memory!ArenaFreeAll
  <2>2. s1' = Memory!Moved(0, 0) \/ s1' = Memory!NoMemory
    BY <1>3 DEF Memory!ArenaClear, Memory!ArenaFreeAll
  <2>3. s1'.offset = 0 /\ s1'.size \in Nat
    <3>1. 0 \in 0 .. 2 * MemSize
      BY <1>0, ArenaTyped
    <3>2. QED
      BY <1>0, <2>2, <3>1, ArenaTyped, MovedTo, NoMemoryType DEF Sizes
  <2>4. QED
    BY <2>1, <2>3 DEF OffsetsAbove, BlocksApart, InsideMemory
<1>4. ASSUME NEW n \in 1 .. MemSize, Memory!ArenaAlloc(n)
      PROVE  OffsetsAbove' /\ BlocksApart' /\ InsideMemory'
  <2>1. CASE Memory!Fits(n)
    BY <1>0, <1>4, <2>1, NewBlockApart DEF Memory!ArenaAlloc
  <2>2. CASE ~Memory!Fits(n)
    BY <1>0, <1>4, <2>2
      DEF Memory!ArenaAlloc, OffsetsAbove, BlocksApart, InsideMemory, Inside, Below,
          Memory!Disjoint
  <2>3. QED
    BY <2>1, <2>2
<1>5. ASSUME NEW b \in s2, NEW n \in 1 .. MemSize, Memory!ArenaResize(b, n)
      PROVE  OffsetsAbove' /\ BlocksApart' /\ InsideMemory'
  <2>0. UNCHANGED s3
    BY <1>5 DEF Memory!ArenaResize
  <2>1. CASE Memory!ResizeInPlace(b, n)
    BY <1>0, <2>0, <2>1, GrowthApart
  <2>2. CASE Memory!ResizeByCopy(b, n)
    <3>1. s1.mem
      BY <1>0 DEF ArenaShape
    <3>2. QED
      BY <1>0, <2>0, <2>2, <3>1, NewBlockApart DEF Memory!ResizeByCopy
  <2>3. CASE Memory!ResizeFails(b, n)
    BY <1>0, <2>0, <2>3
      DEF Memory!ResizeFails, OffsetsAbove, BlocksApart, InsideMemory, Inside, Below,
          Memory!Disjoint
  <2>4. QED
    BY <1>5, <2>1, <2>2, <2>3 DEF Memory!ArenaResize
<1>6. ASSUME NEW i \in DOMAIN s3, Memory!ArenaTempEnd(i)
      PROVE  OffsetsAbove' /\ BlocksApart' /\ InsideMemory'
  BY <1>0, <1>6, ScopeEndApart
<1>7. CASE UNCHANGED Memory!vars
  BY <1>0, <1>7
    DEF Memory!vars, OffsetsAbove, BlocksApart, InsideMemory, Inside, Below, Memory!Disjoint
<1>8. QED
  BY <1>1, <1>2, <1>3, <1>4, <1>5, <1>6, <1>7 DEF Memory!Next

-----------------------------------------------------------------------------
(* The inductive invariant holds for every size of the memory and every    *)
(* depth of scopes.                                                        *)
THEOREM ArenaInvariant == Memory!Spec => []ArenaInv
<1>1. Sizes
  BY PartsAssumption DEF Sizes
<1>2. QED
  BY <1>1, ArenaStart, ArenaStep, PTL DEF Memory!Spec

(* The offset stays within twice the memory (a last block that grows is    *)
(* not checked against the end), and every block within its bounds.        *)
THEOREM ArenaTypeOK == Memory!Spec => []Memory!TypeOK
<1>1. ArenaInv => Memory!TypeOK
  BY DEF ArenaInv, ArenaShape
<1>2. QED
  BY <1>1, ArenaInvariant, PTL

LEMMA ArenaHolds == ArenaInv => Memory!BlocksDisjoint
<1>1. ArenaShape => (s2 # {} => s1.size = MemSize)
  BY DEF ArenaShape
<1>2. QED
  BY <1>1 DEF ArenaInv, OffsetsAbove, Below, BlocksApart, InsideMemory, Inside,
              Memory!BlocksDisjoint

(* Blocks a caller may still use never share a byte, none is handed out    *)
(* again, and they lie inside the memory, but for the end of the last one: *)
(* when scopes end in order and no outer block is grown in an inner scope.  *)
THEOREM ArenaBlocksDisjoint == Memory!Spec => []Memory!BlocksDisjoint
  BY ArenaInvariant, ArenaHolds, PTL

-----------------------------------------------------------------------------
(* The strings.  An allocation is a string's data, so their number bounds   *)
(* the number of allocations, and there is a block more than strings.      *)
StrShape ==
    /\ DOMAIN s1 = Strs /\ DOMAIN s3 = Strs
    /\ \A s \in Strs : s1[s].data \in Str!Blocks \cup {None}

BuilderShape == s4.cap \in Nat /\ s4.len \in Nat /\ s4.given \in BOOLEAN

\* The buffer that call c of n wrote when i is the next one: the calls go round the ring,
\* one buffer each.
Back(i, n, c) == IF i + c > n THEN i + c - n - 1 ELSE i + c - n - 1 + MaxBuffers
BufferOf(c) == Back(s5.index, s5.calls, c)

TmpShape ==
    /\ s5.index \in 0 .. MaxBuffers - 1 /\ s5.calls \in Nat
    /\ DOMAIN s5.bufs = 0 .. MaxBuffers - 1

RingHolds ==
    \A c \in 1 .. s5.calls : c + MaxBuffers > s5.calls => s5.bufs[BufferOf(c)] = c

StrInv ==
    /\ StrShape /\ Str!StringsOwnTheirText
    /\ BuilderShape /\ Str!BuilderHasRoom
    /\ TmpShape /\ RingHolds

LEMMA NoneIsNoBlock == None \notin Str!Blocks /\ Str!Blocks \subseteq Nat
<1>1. Cardinality(Strs) \in Nat
  BY PartsAssumption, FS_CardinalityType
<1>2. QED
  BY <1>1, PartsAssumption DEF Str!Blocks

\* There is always memory for one more string, and it is nobody's.
LEMMA NewBlockIsFree ==
    ASSUME StrShape, Str!StringsOwnTheirText, s6 = {}
    PROVE  Str!NewBlock \in Str!Blocks /\ Str!NewBlock \notin DOMAIN s2
<1> DEFINE n == Cardinality(Strs)
           Full == {s \in Strs : s1[s].data # None}
           f == [s \in Full |-> s1[s].data]
<1>1. n \in Nat
  BY PartsAssumption, FS_CardinalityType
<1>2. IsFiniteSet(Full) /\ Cardinality(Full) <= n /\ Cardinality(Full) \in Nat
  <2>1. Full \in SUBSET Strs
    OBVIOUS
  <2>2. QED
    BY <2>1, PartsAssumption, FS_Subset, FS_CardinalityType
<1>3. f \in Surjection(Full, DOMAIN s2)
  <2>1. DOMAIN s2 = {s1[s].data : s \in Full}
    BY DEF Str!StringsOwnTheirText, StrShape
  <2>2. QED
    BY <2>1 DEF Surjection
<1>4. IsFiniteSet(DOMAIN s2) /\ Cardinality(DOMAIN s2) <= n /\ Cardinality(DOMAIN s2) \in Nat
  <2>1. IsFiniteSet(DOMAIN s2) /\ Cardinality(DOMAIN s2) <= Cardinality(Full)
    BY <1>2, <1>3, FS_Surjection
  <2>2. Cardinality(DOMAIN s2) \in Nat
    BY <2>1, FS_CardinalityType
  <2>3. QED
    BY <1>1, <1>2, <2>1, <2>2
<1>5. Cardinality(Str!Blocks) = n + 1
  <2>1. Str!Cardinality(Strs) = n
    BY DEF Str!Cardinality, Cardinality, Str!IsFiniteSet, IsFiniteSet
  <2>2. Cardinality(1 .. n + 1) = n + 1
    BY <1>1, FS_Interval
  <2>3. QED
    BY <2>1, <2>2 DEF Str!Blocks
<1>6. ~ (Str!Blocks \subseteq DOMAIN s2)
  <2>1. SUFFICES ASSUME Str!Blocks \in SUBSET (DOMAIN s2) PROVE FALSE
    OBVIOUS
  <2>2. Cardinality(Str!Blocks) <= Cardinality(DOMAIN s2)
    BY <1>4, <2>1, FS_Subset
  <2>3. QED
    BY <1>1, <1>4, <1>5, <2>2
<1>7. \E b \in Str!Blocks : b \notin DOMAIN s2
  BY <1>6
<1>8. QED
  BY <1>7 DEF Str!NewBlock

\* The text of a string as the code reads it: none, or what its data points to.
TextOf(t) == IF s1[t].data = None THEN Empty ELSE s2[s1[t].data].text

HoldsItsText ==
    \A t \in Strs : /\ TextOf(t) = s3[t]
                    /\ s1[t].data # None => s2[s1[t].data].alloc = s1[t].alloc
DataApart == \A t, u \in Strs : t # u => s1[t].data = None \/ s1[t].data # s1[u].data
NothingLost ==
    /\ DOMAIN s2 = ({s1[t].data : t \in Strs} \ {None}) \cup s6
    /\ \A t \in Strs : s1[t].data \notin s6

LEMMA OwnTextAfter == HoldsItsText' /\ DataApart' /\ NothingLost' => Str!StringsOwnTheirText'
  BY DEF HoldsItsText, DataApart, NothingLost, Str!StringsOwnTheirText, TextOf, Str!Text,
         Str!Empties

\* Giving a string a text of its own leaves every other string its own.
LEMMA FillKeeps ==
    ASSUME StrShape, Str!StringsOwnTheirText, s6 = {}, s6' = {},
           NEW s \in Strs, NEW text, NEW a, Str!Filled(s, text, a, Str!Dropped(s))
    PROVE  StrShape' /\ Str!StringsOwnTheirText'
<1> DEFINE b == Str!NewBlock
           h == Str!Dropped(s)
<1>1. b \in Str!Blocks /\ b \notin DOMAIN s2 /\ b # None
  BY NewBlockIsFree, NoneIsNoBlock
<1>2. /\ DOMAIN h = DOMAIN s2 \ {s1[s].data}
      /\ \A x \in DOMAIN h : h[x] = s2[x]
  BY DEF Str!Dropped, Str!FreedIn, Str!Empties, Str!StringsOwnTheirText
<1>3. Str!Blocks' = Str!Blocks
  BY DEF Str!Blocks
<1> HIDE DEF b, h
<1>4. QED
  <2>1. /\ DOMAIN s1' = Strs /\ DOMAIN s3' = Strs
        /\ s1'[s].data = b /\ s1'[s].alloc = a /\ s3'[s] = text
        /\ \A t \in Strs \ {s} : s1'[t] = s1[t] /\ s3'[t] = s3[t]
    BY DEF b, Str!Filled, StrShape
  <2>2. /\ DOMAIN s2' = DOMAIN h \cup {b}
        /\ s2'[b].text = text /\ s2'[b].alloc = a
        /\ \A x \in DOMAIN h : x # b => s2'[x] = h[x]
    BY DEF b, h, Str!Filled, Str!AllocIn
  <2>3. StrShape'
    BY <1>1, <1>3, <2>1 DEF StrShape
  <2>4. b # s1[s].data /\ \A t \in Strs \ {s} : s1[t].data # b
    BY <1>1 DEF Str!StringsOwnTheirText
  <2>5. \A t \in Strs \ {s} : s1[t].data # None =>
            s1[t].data \in DOMAIN h /\ s2'[s1[t].data] = s2[s1[t].data]
    BY <1>2, <2>2, <2>4 DEF Str!StringsOwnTheirText, Str!Empties
  <2>6. HoldsItsText'
    <3>1. TextOf(s)' = s3'[s] /\ s2'[s1'[s].data].alloc = s1'[s].alloc
      BY <1>1, <2>1, <2>2 DEF TextOf, Str!Empties
    <3>2. ASSUME NEW t \in Strs \ {s}
          PROVE  /\ TextOf(t)' = s3'[t]
                 /\ s1'[t].data # None => s2'[s1'[t].data].alloc = s1'[t].alloc
      BY <2>1, <2>5 DEF Str!StringsOwnTheirText, TextOf, Str!Text, Str!Empties
    <3>3. QED
      BY <3>1, <3>2 DEF HoldsItsText, TextOf
  <2>7. DataApart'
    BY <2>1, <2>4 DEF DataApart, Str!StringsOwnTheirText, Str!Empties
  <2>8. NothingLost'
    <3>1. DOMAIN h = {s1[t].data : t \in Strs \ {s}} \ {None}
      BY <1>2 DEF Str!StringsOwnTheirText, Str!Empties
    <3>2. QED
      BY <1>1, <2>1, <2>2, <3>1 DEF NothingLost
  <2>9. QED
    BY <2>3, <2>6, <2>7, <2>8, OwnTextAfter

\* Taking its text from a string leaves every other string its own.
LEMMA EmptyKeeps ==
    ASSUME StrShape, Str!StringsOwnTheirText, s6 = {}, s6' = {},
           NEW s \in Strs, Str!Emptied(s, Str!Dropped(s))
    PROVE  StrShape' /\ Str!StringsOwnTheirText'
<1> DEFINE b == Str!NewBlock
           h == Str!Dropped(s)
<1>1. b \in Str!Blocks /\ b \notin DOMAIN s2 /\ b # None
  BY NewBlockIsFree, NoneIsNoBlock
<1>2. /\ DOMAIN h = DOMAIN s2 \ {s1[s].data}
      /\ \A x \in DOMAIN h : h[x] = s2[x]
  BY DEF Str!Dropped, Str!FreedIn, Str!Empties, Str!StringsOwnTheirText
<1>3. Str!Blocks' = Str!Blocks
  BY DEF Str!Blocks
<1> HIDE DEF b, h
<1>4. QED
  <2>1. /\ DOMAIN s1' = Strs /\ DOMAIN s3' = Strs
        /\ s1'[s].data = None /\ s3'[s] = Empty
        /\ \A t \in Strs \ {s} : s1'[t] = s1[t] /\ s3'[t] = s3[t]
        /\ s2' = h
    BY DEF h, Str!Emptied, Str!NoString, StrShape
  <2>2. StrShape'
    BY <1>3, <2>1 DEF StrShape
  <2>3. \A t \in Strs \ {s} : s1[t].data # None =>
            s1[t].data \in DOMAIN h /\ s2'[s1[t].data] = s2[s1[t].data]
    BY <1>2, <2>1 DEF Str!StringsOwnTheirText, Str!Empties
  <2>4. HoldsItsText'
    <3>1. TextOf(s)' = s3'[s]
      BY <2>1 DEF TextOf, Str!Empties
    <3>2. ASSUME NEW t \in Strs \ {s}
          PROVE  /\ TextOf(t)' = s3'[t]
                 /\ s1'[t].data # None => s2'[s1'[t].data].alloc = s1'[t].alloc
      BY <2>1, <2>3 DEF Str!StringsOwnTheirText, TextOf, Str!Text, Str!Empties
    <3>3. QED
      BY <2>1, <3>1, <3>2 DEF HoldsItsText, TextOf
  <2>5. DataApart'
    BY <2>1 DEF DataApart, Str!StringsOwnTheirText, Str!Empties
  <2>6. NothingLost'
    <3>1. DOMAIN h = {s1[t].data : t \in Strs \ {s}} \ {None}
      BY <1>2 DEF Str!StringsOwnTheirText, Str!Empties
    <3>2. QED
      BY <2>1, <3>1 DEF NothingLost
  <2>7. QED
    BY <2>2, <2>4, <2>5, <2>6, OwnTextAfter

\* The bytes of a string that is assigned an empty text are left over.
LEMMA ClearKeeps ==
    ASSUME StrShape, Str!StringsOwnTheirText, s6 = {},
           NEW s \in Strs, s1[s].data # None, Str!Emptied(s, s2), s6' = {s1[s].data}
    PROVE  StrShape' /\ Str!StringsOwnTheirText'
<1>1. /\ DOMAIN s1' = Strs /\ DOMAIN s3' = Strs
      /\ s1'[s].data = None /\ s3'[s] = Empty
      /\ \A t \in Strs \ {s} : s1'[t] = s1[t] /\ s3'[t] = s3[t]
      /\ s2' = s2
  BY DEF Str!Emptied, Str!NoString, StrShape
<1>2. StrShape'
  BY <1>1 DEF StrShape, Str!Blocks
<1>3. HoldsItsText'
  <2>1. ASSUME NEW t \in Strs
        PROVE  /\ TextOf(t)' = s3'[t]
               /\ s1'[t].data # None => s2'[s1'[t].data].alloc = s1'[t].alloc
    <3>1. CASE t = s
      BY <1>1, <3>1 DEF TextOf
    <3>2. CASE t # s
      BY <1>1, <3>2 DEF Str!StringsOwnTheirText, TextOf, Str!Text, Str!Empties
    <3>3. QED
      BY <3>1, <3>2
  <2>2. QED
    BY <2>1 DEF HoldsItsText, TextOf
<1>4. DataApart'
  BY <1>1 DEF DataApart, Str!StringsOwnTheirText, Str!Empties
<1>5. NothingLost'
  <2>1. \A t \in Strs : s1'[t].data # s1[s].data
    BY <1>1 DEF Str!StringsOwnTheirText, Str!Empties
  <2>2. {s1[t].data : t \in Strs} \ {None} = ({s1'[t].data : t \in Strs} \ {None}) \cup {s1[s].data}
    BY <1>1
  <2>3. QED
    BY <1>1, <2>1, <2>2 DEF NothingLost, Str!StringsOwnTheirText
<1>6. QED
  BY <1>2, <1>3, <1>4, <1>5, OwnTextAfter

LEMMA CopyKeeps ==
    ASSUME StrShape, Str!StringsOwnTheirText, s6 = {}, s6' = {},
           NEW s \in Strs, NEW text, NEW a, Str!CopyOf(s, text, a, Str!Dropped(s))
    PROVE  StrShape' /\ Str!StringsOwnTheirText'
  BY FillKeeps, EmptyKeeps DEF Str!CopyOf

LEMMA MoveKeeps ==
    ASSUME StrShape, Str!StringsOwnTheirText, s6 = {}, s6' = {},
           NEW s \in Strs, NEW t \in Strs, Str!MoveAssign(s, t)
    PROVE  StrShape' /\ Str!StringsOwnTheirText'
<1> DEFINE h == Str!Dropped(s)
<1>1. /\ DOMAIN h = DOMAIN s2 \ {s1[s].data}
      /\ \A x \in DOMAIN h : h[x] = s2[x]
  BY DEF Str!Dropped, Str!FreedIn, Str!Empties, Str!StringsOwnTheirText
<1>2. Str!Blocks' = Str!Blocks
  BY DEF Str!Blocks
<1> HIDE DEF h
<1>3. /\ s # t
      /\ DOMAIN s1' = Strs /\ DOMAIN s3' = Strs
      /\ s1'[s] = s1[t] /\ s3'[s] = s3[t]
      /\ s1'[t].data = None /\ s3'[t] = Empty
      /\ \A u \in Strs \ {s, t} : s1'[u] = s1[u] /\ s3'[u] = s3[u]
      /\ s2' = h
  BY DEF h, Str!MoveAssign, Str!NoString, StrShape
<1>4. StrShape'
  BY <1>2, <1>3 DEF StrShape
<1>5. HoldsItsText'
  <2>1. \A u \in Strs \ {s} : s1[u].data # None =>
            s1[u].data \in DOMAIN h /\ s2'[s1[u].data] = s2[s1[u].data]
    BY <1>1, <1>3 DEF Str!StringsOwnTheirText, Str!Empties
  <2>2. ASSUME NEW u \in Strs \ {s}
        PROVE  /\ s1[u].data # None => s2'[s1[u].data] = s2[s1[u].data]
               /\ s1[u].data = None => s3[u] = Empty
               /\ s1[u].data # None => /\ s2[s1[u].data].text = s3[u]
                                       /\ s2[s1[u].data].alloc = s1[u].alloc
    BY <2>1 DEF Str!StringsOwnTheirText, Str!Text, Str!Empties
  <2>3. ASSUME NEW v \in Strs
        PROVE  /\ TextOf(v)' = s3'[v]
               /\ s1'[v].data # None => s2'[s1'[v].data].alloc = s1'[v].alloc
    <3>1. CASE v = s
      BY <1>3, <2>2, <3>1 DEF TextOf
    <3>2. CASE v = t
      BY <1>3, <3>2 DEF TextOf
    <3>3. CASE v \in Strs \ {s, t}
      BY <1>3, <2>2, <3>3 DEF TextOf
    <3>4. QED
      BY <3>1, <3>2, <3>3
  <2>4. QED
    BY <2>3 DEF HoldsItsText, TextOf
<1>6. DataApart'
  BY <1>3 DEF DataApart, Str!StringsOwnTheirText, Str!Empties
<1>7. NothingLost'
  <2>1. DOMAIN s2 = {s1[u].data : u \in Strs} \ {None}
    BY DEF Str!StringsOwnTheirText
  <2>2. \A u \in Strs \ {s} : s1[u].data = None \/ s1[u].data # s1[s].data
    BY DEF Str!StringsOwnTheirText, Str!Empties
  <2>3. {s1[u].data : u \in Strs} \ {None, s1[s].data} = {s1'[u].data : u \in Strs} \ {None}
    BY <1>3, <2>2
  <2>4. QED
    BY <1>1, <1>3, <2>1, <2>3 DEF NothingLost
<1>8. QED
  BY <1>4, <1>5, <1>6, <1>7, OwnTextAfter
LEMMA BuilderKeeps ==
    ASSUME BuilderShape, Str!BuilderHasRoom,
           (\E n \in 0 .. 2 : Str!NewBuilder(n)) \/ (\E n \in 1 .. 3 : Str!AppendText(n))
             \/ Str!ClearBuilder
    PROVE  BuilderShape' /\ Str!BuilderHasRoom'
<1>1. CASE \E n \in 0 .. 2 : Str!NewBuilder(n)
  <2>1. PICK n \in 0 .. 2 : Str!NewBuilder(n)
    BY <1>1
  <2>2. s4'.cap = n /\ s4'.len = 0 /\ s4'.given = (n > 0)
    BY <2>1 DEF Str!NewBuilder
  <2>3. s4'.given = TRUE \/ s4'.given = FALSE
    <3>1. CASE n = 0
      <4>1. s4'.given = (0 > 0)
        BY <2>2, <3>1
      <4>2. QED
        BY <4>1
    <3>2. CASE n # 0
      <4>1. (n > 0) = TRUE
        BY <3>2
      <4>2. QED
        BY <2>2, <4>1
    <3>3. QED
      BY <3>1, <3>2
  <2>4. QED
    <3>1. (s4'.given => n > 0) /\ s4'.given \in BOOLEAN
      BY <2>2, <2>3, Zenon
    <3>2. QED
      BY <2>2, <3>1 DEF BuilderShape, Str!BuilderHasRoom
<1>2. ASSUME NEW n \in 1 .. 3, Str!AppendText(n) PROVE BuilderShape' /\ Str!BuilderHasRoom'
  <2> DEFINE cap == IF s4.len + n + 1 <= s4.cap THEN s4.cap
                    ELSE IF n > s4.cap THEN s4.cap + n ELSE 2 * s4.cap
  <2>1. /\ s4'.cap = cap /\ s4'.len = s4.len + n /\ s4'.given = s4.given
    BY <1>2 DEF Str!AppendText
  <2>2. cap \in Nat /\ s4.len + n \in Nat /\ s4.len + n <= cap
    BY DEF BuilderShape, Str!BuilderHasRoom
  <2>3. s4.given => s4.len + n < cap
    BY DEF BuilderShape, Str!BuilderHasRoom
  <2> HIDE DEF cap
  <2>4. QED
    BY <2>1, <2>2, <2>3 DEF BuilderShape, Str!BuilderHasRoom
<1>3. CASE Str!ClearBuilder
  BY <1>3 DEF Str!ClearBuilder, BuilderShape, Str!BuilderHasRoom
<1>4. QED
  BY <1>1, <1>2, <1>3

\* The next call moves the ring on: it takes the buffer of no later call, and the others
\* stay where they were.
LEMMA BackIsBuffer ==
    ASSUME NEW i \in 0 .. MaxBuffers - 1, NEW n \in Nat, NEW c \in 1 .. n, c + MaxBuffers > n
    PROVE  Back(i, n, c) \in 0 .. MaxBuffers - 1
  BY PartsAssumption, SMT DEF Back

LEMMA BackMovesOn ==
    ASSUME NEW i \in 0 .. MaxBuffers - 1, NEW n \in Nat, NEW c \in 1 .. n,
           c + MaxBuffers > n + 1
    PROVE  /\ Back(IF i + 1 >= MaxBuffers THEN 0 ELSE i + 1, n + 1, c) = Back(i, n, c)
           /\ Back(i, n, c) # i
<1>1. MaxBuffers \in Nat \ {0}
  BY PartsAssumption
<1>2. CASE i + 1 >= MaxBuffers
  <2>1. Back(0, n + 1, c) = Back(i, n, c)
    BY <1>1, <1>2 DEF Back
  <2>2. Back(i, n, c) # i
    BY <1>1 DEF Back
  <2>3. QED
    BY <1>2, <2>1, <2>2
<1>3. CASE ~ (i + 1 >= MaxBuffers)
  <2>1. Back(i + 1, n + 1, c) = Back(i, n, c)
    BY <1>1, <1>3 DEF Back
  <2>2. Back(i, n, c) # i
    BY <1>1 DEF Back
  <2>3. QED
    BY <1>3, <2>1, <2>2
<1>4. QED
  BY <1>2, <1>3

\* A call writes the next buffer, which is that of the call MaxBuffers before it.
LEMMA RingKeeps ==
    ASSUME TmpShape, RingHolds, Str!FormatTmp
    PROVE  TmpShape' /\ RingHolds'
<1>1. /\ s5'.index = (IF s5.index + 1 >= MaxBuffers THEN 0 ELSE s5.index + 1)
      /\ s5'.calls = s5.calls + 1
      /\ s5'.bufs = [s5.bufs EXCEPT ![s5.index] = s5.calls + 1]
  BY DEF Str!FormatTmp
<1>2. MaxBuffers \in Nat \ {0}
  BY PartsAssumption
<1>3. TmpShape'
  BY <1>1, <1>2 DEF TmpShape
<1>4. ASSUME NEW c \in 1 .. s5.calls + 1, c + MaxBuffers > s5.calls + 1
      PROVE  s5'.bufs[BufferOf(c)'] = c
  <2>1. CASE c = s5.calls + 1
    <3>1. BufferOf(c)' = s5.index
      BY <1>1, <1>2, <2>1 DEF TmpShape, BufferOf, Back
    <3>2. QED
      BY <1>1, <2>1, <3>1 DEF TmpShape
  <2>2. CASE c # s5.calls + 1
    <3>1. c \in 1 .. s5.calls /\ c + MaxBuffers > s5.calls
      BY <1>2, <1>4, <2>2 DEF TmpShape
    <3>2. s5.bufs[BufferOf(c)] = c
      BY <3>1 DEF RingHolds
    <3>3. BufferOf(c)' = BufferOf(c) /\ BufferOf(c) # s5.index
      BY <1>1, <1>4, <3>1, BackMovesOn DEF TmpShape, BufferOf
    <3>4. BufferOf(c) \in 0 .. MaxBuffers - 1
      BY <3>1, BackIsBuffer DEF TmpShape, BufferOf
    <3>5. QED
      BY <1>1, <3>2, <3>3, <3>4 DEF TmpShape
  <2>3. QED
    BY <2>1, <2>2
<1>5. QED
  BY <1>1, <1>3, <1>4 DEF RingHolds

LEMMA RingIsRead ==
    ASSUME TmpShape, RingHolds
    PROVE  Str!TmpResultsLast
<1>1. ASSUME NEW c \in 1 .. s5.calls, c + MaxBuffers > s5.calls
      PROVE  \E i \in DOMAIN s5.bufs : s5.bufs[i] = c
  <2>1. BufferOf(c) \in 0 .. MaxBuffers - 1
    BY <1>1, BackIsBuffer DEF TmpShape, BufferOf
  <2>2. s5.bufs[BufferOf(c)] = c
    BY <1>1 DEF RingHolds
  <2>3. QED
    BY <2>1, <2>2 DEF TmpShape
<1>2. QED
  BY <1>1 DEF Str!TmpResultsLast

LEMMA StringsStart == Str!Init => StrInv
<1>1. SUFFICES ASSUME Str!Init PROVE StrInv
  OBVIOUS
<1>2. StrShape /\ Str!StringsOwnTheirText
  BY <1>1 DEF Str!Init, Str!NoString, StrShape, Str!StringsOwnTheirText, Str!Text, Str!Empties
<1>3. BuilderShape /\ Str!BuilderHasRoom
  BY <1>1 DEF Str!Init, Str!NoBuilder, BuilderShape, Str!BuilderHasRoom
<1>4. TmpShape /\ RingHolds
  BY <1>1, PartsAssumption DEF Str!Init, TmpShape, RingHolds
<1>5. QED
  BY <1>2, <1>3, <1>4 DEF StrInv

LEMMA StringsStep ==
    ASSUME StrInv, Str!Next
    PROVE  StrInv'
<1>1. /\ StrShape /\ Str!StringsOwnTheirText
      /\ BuilderShape /\ Str!BuilderHasRoom /\ TmpShape /\ RingHolds /\ s6 = {}
  BY DEF StrInv, Str!Next
<1>2. ASSUME UNCHANGED <<s4, s5>>, StrShape' /\ Str!StringsOwnTheirText' PROVE StrInv'
  BY <1>1, <1>2
    DEF StrInv, BuilderShape, Str!BuilderHasRoom, TmpShape, RingHolds, BufferOf
<1>3. ASSUME NEW s \in Strs, NEW text, Str!ViewAssign(s, text) PROVE StrInv'
  <2>1. CASE text = Empty /\ ~Str!Empties(s)
    <3>1. /\ Str!Emptied(s, s2) /\ s6' = {s1[s].data} /\ UNCHANGED <<s4, s5>>
          /\ s1[s].data # None
      BY <1>3, <2>1 DEF Str!ViewAssign, Str!Empties
    <3>2. QED
      BY <1>1, <1>2, <3>1, ClearKeeps
  <2>2. CASE ~(text = Empty /\ ~Str!Empties(s))
    BY <1>1, <1>2, <1>3, <2>2, CopyKeeps DEF Str!ViewAssign, Str!OnlyStrings
  <2>3. QED
    BY <2>1, <2>2
<1>4. ASSUME NEW s \in Strs, NEW text, NEW a, Str!Construct(s, text, a) PROVE StrInv'
  <2>1. Str!CopyOf(s, text, a, Str!Dropped(s)) /\ UNCHANGED <<s4, s5, s6>>
    BY <1>4 DEF Str!Construct, Str!Dropped, Str!OnlyStrings
  <2>2. QED
    BY <1>1, <1>2, <2>1, CopyKeeps
<1>10. ASSUME NEW s \in Strs, NEW text, NEW a, Str!CopyOfCStr(s, text, a) PROVE StrInv'
  <2>1. Str!Filled(s, text, a, Str!Dropped(s)) /\ UNCHANGED <<s4, s5, s6>>
    BY <1>10 DEF Str!CopyOfCStr, Str!Dropped, Str!OnlyStrings
  <2>2. QED
    BY <1>1, <1>2, <2>1, FillKeeps
<1>5. ASSUME NEW s \in Strs, NEW t \in Strs, Str!CopyAssign(s, t) PROVE StrInv'
  BY <1>1, <1>2, <1>5, CopyKeeps DEF Str!CopyAssign, Str!OnlyStrings
<1>6. ASSUME NEW s \in Strs, NEW t \in Strs, Str!MoveAssign(s, t) PROVE StrInv'
  <2>1. UNCHANGED <<s4, s5, s6>>
    BY <1>6 DEF Str!MoveAssign, Str!OnlyStrings
  <2>2. QED
    BY <1>1, <1>2, <1>6, <2>1, MoveKeeps
<1>7. ASSUME NEW s \in Strs, Str!Destroy(s) PROVE StrInv'
  <2>1. Str!Emptied(s, Str!Dropped(s)) /\ UNCHANGED <<s4, s5, s6>>
    BY <1>7 DEF Str!Destroy, Str!OnlyStrings
  <2>2. QED
    BY <1>1, <1>2, <2>1, EmptyKeeps
<1>8. ASSUME (\E n \in 0 .. 2 : Str!NewBuilder(n)) \/ (\E n \in 1 .. 3 : Str!AppendText(n))
               \/ Str!ClearBuilder
      PROVE  StrInv'
  <2>1. UNCHANGED <<s1, s2, s3, s5, s6>>
    BY <1>8 DEF Str!NewBuilder, Str!AppendText, Str!ClearBuilder, Str!OnlyBuilder
  <2>2. BuilderShape' /\ Str!BuilderHasRoom'
    BY <1>1, <1>8, BuilderKeeps
  <2>3. QED
    BY <1>1, <2>1, <2>2
      DEF StrInv, StrShape, Str!Blocks, Str!StringsOwnTheirText, Str!Text, Str!Empties,
          TmpShape, RingHolds, BufferOf
<1>9. ASSUME Str!FormatTmp PROVE StrInv'
  <2>1. UNCHANGED <<s1, s2, s3, s4, s6>>
    BY <1>9 DEF Str!FormatTmp
  <2>2. TmpShape' /\ RingHolds'
    BY <1>1, <1>9, RingKeeps
  <2>3. QED
    BY <1>1, <2>1, <2>2
      DEF StrInv, StrShape, Str!Blocks, Str!StringsOwnTheirText, Str!Text, Str!Empties,
          BuilderShape, Str!BuilderHasRoom
<1>11. QED
  BY <1>3, <1>4, <1>5, <1>6, <1>7, <1>8, <1>9, <1>10 DEF Str!Next

-----------------------------------------------------------------------------
(* The window, for any keys, buttons and bounds: a key that the program    *)
(* takes for down is accounted for, and so is each message that says so.  *)
Win(K, B, Q, S) == INSTANCE Window WITH phys <- s1, queue <- s2, in <- s3, cur <- s4, frame <- s5,
    Keys <- K, Buttons <- B, MaxQueue <- Q, MaxShow <- S

Message(K) ==
    ({"keydown", "keyup"} \X K)
    \cup {<<"input">>, <<"killfocus">>, <<"capturechanged">>, <<"quit">>}

WinShape(K) ==
    /\ DOMAIN s1 = {"keys", "focus", "iconic"} /\ s1.keys \subseteq K
    /\ s2 \in Seq(Message(K))
    /\ DOMAIN s3 = {"keys", "prevKeys", "raw", "delta"} /\ s3.keys \subseteq K
    /\ DOMAIN s4 = {"show", "capture", "failed"} /\ s4.show \in Int

\* k is down, and the window sees it let go; or a message from n on says that it is not.
Held(k) == k \in s1.keys /\ s1.focus
EndsFrom(n, k) == \E m \in n .. Len(s2) : s2[m] = <<"keyup", k>> \/ s2[m] = <<"killfocus">>

KeyAccounted(k) ==
    /\ k \in s3.keys => Held(k) \/ EndsFrom(1, k)
    /\ \A n \in 1 .. Len(s2) : s2[n] = <<"keydown", k>> => Held(k) \/ EndsFrom(n + 1, k)

CursorCounted == ~s4.failed => s4.show = (IF s3.raw THEN -1 ELSE 0)

WinInv(K, B) == /\ WinShape(K) /\ CursorCounted
                /\ \A k \in K \ B : KeyAccounted(k)

\* A message that is posted is the last, and ends what it ends for all before it.
LEMMA PostKeeps ==
    ASSUME NEW K, NEW k \in K, s2 \in Seq(Message(K)), NEW m \in Message(K), s2' = Append(s2, m)
    PROVE  /\ s2' \in Seq(Message(K)) /\ Len(s2') = Len(s2) + 1
           /\ \A n \in 1 .. Len(s2) : s2'[n] = s2[n]
           /\ s2'[Len(s2) + 1] = m
           /\ \A n \in Nat \ {0} : EndsFrom(n, k) => EndsFrom(n, k)'
           /\ m \in {<<"keyup", k>>, <<"killfocus">>} =>
                 \A n \in 1 .. Len(s2) + 1 : EndsFrom(n, k)'
<1>1. /\ s2' \in Seq(Message(K)) /\ Len(s2') = Len(s2) + 1 /\ Len(s2) \in Nat
      /\ \A n \in 1 .. Len(s2) : s2'[n] = s2[n]
      /\ s2'[Len(s2) + 1] = m
  OBVIOUS
<1>2. \A n \in Nat \ {0} : EndsFrom(n, k) => EndsFrom(n, k)'
  BY <1>1 DEF EndsFrom
<1>3. m \in {<<"keyup", k>>, <<"killfocus">>} => \A n \in 1 .. Len(s2) + 1 : EndsFrom(n, k)'
  BY <1>1 DEF EndsFrom
<1>4. QED
  BY <1>1, <1>2, <1>3

LEMMA DispatchMoves ==
    ASSUME NEW K, NEW k \in K, s2 \in Seq(Message(K)), s2 # <<>>, s2' = Tail(s2)
    PROVE  /\ s2' \in Seq(Message(K)) /\ Len(s2') = Len(s2) - 1
           /\ Len(s2) \in Nat \ {0} /\ Head(s2) = s2[1] /\ s2[1] \in Message(K)
           /\ \A n \in 1 .. Len(s2) - 1 : s2'[n] = s2[n + 1]
           /\ \A n \in Nat \ {0} : EndsFrom(n + 1, k) => EndsFrom(n, k)'
           /\ EndsFrom(1, k) => \/ s2[1] \in {<<"keyup", k>>, <<"killfocus">>}
                                \/ EndsFrom(1, k)'
<1>1. /\ s2' \in Seq(Message(K)) /\ Len(s2') = Len(s2) - 1
      /\ Len(s2) \in Nat \ {0} /\ Head(s2) = s2[1] /\ s2[1] \in Message(K)
      /\ \A n \in 1 .. Len(s2) - 1 : s2'[n] = s2[n + 1]
  OBVIOUS
<1>2. ASSUME NEW n \in Nat \ {0}, EndsFrom(n + 1, k) PROVE EndsFrom(n, k)'
  <2>1. PICK m \in n + 1 .. Len(s2) : s2[m] = <<"keyup", k>> \/ s2[m] = <<"killfocus">>
    BY <1>2 DEF EndsFrom
  <2>2. m - 1 \in n .. Len(s2') /\ s2'[m - 1] = s2[m]
    BY <1>1, <2>1
  <2>3. QED
    BY <2>1, <2>2 DEF EndsFrom
<1>3. ASSUME EndsFrom(1, k), s2[1] \notin {<<"keyup", k>>, <<"killfocus">>} PROVE EndsFrom(2, k)
  <2>1. PICK m \in 1 .. Len(s2) : s2[m] = <<"keyup", k>> \/ s2[m] = <<"killfocus">>
    BY <1>3 DEF EndsFrom
  <2>2. m # 1
    BY <1>3, <2>1
  <2>3. m \in 2 .. Len(s2)
    BY <1>1, <2>2
  <2>4. QED
    BY <2>1, <2>3 DEF EndsFrom
<1>4. EndsFrom(1, k) => s2[1] \in {<<"keyup", k>>, <<"killfocus">>} \/ EndsFrom(1, k)'
  BY <1>2, <1>3
<1>5. QED
  BY <1>1, <1>2, <1>4

\* What the messages ask of k, after something was posted.
LEMMA KeyAfterPost ==
    ASSUME NEW K, NEW B, NEW Q, NEW S, NEW k \in K, s2 \in Seq(Message(K)), KeyAccounted(k),
           NEW m \in Message(K), Win(K, B, Q, S)!Post(m), s3'.keys = s3.keys,
           m = <<"keydown", k>> => Held(k)',
           Held(k) => Held(k)' \/ m \in {<<"keyup", k>>, <<"killfocus">>}
    PROVE  s2' \in Seq(Message(K)) /\ KeyAccounted(k)'
<1>1. s2' = Append(s2, m)
  BY DEF Win!Post
<1>2. /\ s2' \in Seq(Message(K)) /\ Len(s2') = Len(s2) + 1 /\ Len(s2) \in Nat
      /\ \A n \in 1 .. Len(s2) : s2'[n] = s2[n]
      /\ s2'[Len(s2) + 1] = m
      /\ \A n \in Nat \ {0} : EndsFrom(n, k) => EndsFrom(n, k)'
      /\ m \in {<<"keyup", k>>, <<"killfocus">>} =>
            \A n \in 1 .. Len(s2) + 1 : EndsFrom(n, k)'
  BY <1>1, PostKeeps
<1>3. s3'.keys = s3.keys
  OBVIOUS
<1>4. k \in s3'.keys => Held(k)' \/ EndsFrom(1, k)'
  BY <1>2, <1>3 DEF KeyAccounted
<1>5. ASSUME NEW n \in 1 .. Len(s2'), s2'[n] = <<"keydown", k>>
      PROVE  Held(k)' \/ EndsFrom(n + 1, k)'
  <2>1. CASE n \in 1 .. Len(s2)
    <3>1. Held(k) \/ EndsFrom(n + 1, k)
      BY <1>2, <1>5, <2>1 DEF KeyAccounted
    <3>2. QED
      BY <1>2, <2>1, <3>1
  <2>2. CASE n = Len(s2) + 1
    BY <1>2, <1>5, <2>2
  <2>3. QED
    BY <1>2, <2>1, <2>2
<1>6. QED
  BY <1>2, <1>4, <1>5 DEF KeyAccounted

LEMMA KeyStays ==
    ASSUME NEW k, KeyAccounted(k), s2' = s2, s3'.keys = s3.keys, Held(k) => Held(k)'
    PROVE  KeyAccounted(k)'
<1>1. \A n : EndsFrom(n, k)' <=> EndsFrom(n, k)
  BY DEF EndsFrom
<1>2. s2' = s2 /\ s3'.keys = s3.keys /\ (Held(k) => Held(k)')
  OBVIOUS
<1>3. k \in s3'.keys => Held(k)' \/ EndsFrom(1, k)'
  BY <1>1, <1>2 DEF KeyAccounted
<1>4. ASSUME NEW n \in 1 .. Len(s2'), s2'[n] = <<"keydown", k>>
      PROVE  Held(k)' \/ EndsFrom(n + 1, k)'
  <2>1. Held(k) \/ EndsFrom(n + 1, k)
    BY <1>2, <1>4 DEF KeyAccounted
  <2>2. QED
    BY <1>1, <1>2, <2>1
<1>5. QED
  BY <1>3, <1>4 DEF KeyAccounted

LEMMA PressKeyKeeps ==
    ASSUME NEW K, NEW B, NEW Q, NEW S, WinInv(K, B), NEW j \in K, Win(K, B, Q, S)!PressKey(j)
    PROVE  WinInv(K, B)'
<1>1. /\ s1.focus /\ UNCHANGED <<s3, s4>>
      /\ DOMAIN s1' = DOMAIN s1 /\ s1'.focus = s1.focus /\ s1'.keys = s1.keys \cup {j}
      /\ (j \in B /\ UNCHANGED s2) \/ Win(K, B, Q, S)!Post(<<"keydown", j>>)
  BY DEF Win!PressKey, Win!Posts, WinInv, WinShape
<1>2. <<"keydown", j>> \in Message(K)
  BY DEF Message
<1>3. \A k : Held(k) => Held(k)'
  BY <1>1 DEF Held
<1>4. Held(j)'
  BY <1>1 DEF Held
<1>5. s2' \in Seq(Message(K))
  <2>1. s2 \in Seq(Message(K)) /\ (s2' = s2 \/ s2' = Append(s2, <<"keydown", j>>))
    BY <1>1 DEF Win!Post, WinInv, WinShape
  <2>2. QED
    BY <1>2, <2>1
<1>6. ASSUME NEW k \in K \ B PROVE KeyAccounted(k)'
  <2>1. KeyAccounted(k) /\ s2 \in Seq(Message(K))
    BY DEF WinInv, WinShape
  <2>2. CASE UNCHANGED s2
    BY <1>1, <1>3, <2>1, <2>2, KeyStays
  <2>3. CASE Win(K, B, Q, S)!Post(<<"keydown", j>>)
    <3>1. <<"keydown", j>> = <<"keydown", k>> => Held(k)'
      BY <1>4
    <3>2. s3'.keys = s3.keys
      BY <1>1
    <3>3. QED
      BY <1>2, <1>3, <2>1, <2>3, <3>1, <3>2, KeyAfterPost
  <2>4. QED
    BY <1>1, <2>2, <2>3
<1>7. WinShape(K)' /\ CursorCounted'
  BY <1>1, <1>5 DEF WinInv, WinShape, CursorCounted
<1>8. QED
  BY <1>6, <1>7 DEF WinInv

LEMMA ReleaseKeyKeeps ==
    ASSUME NEW K, NEW B, NEW Q, NEW S, WinInv(K, B), NEW j \in K, Win(K, B, Q, S)!ReleaseKey(j)
    PROVE  WinInv(K, B)'
<1>1. /\ UNCHANGED <<s3, s4>>
      /\ DOMAIN s1' = DOMAIN s1 /\ s1'.focus = s1.focus /\ s1'.keys = s1.keys \ {j}
      /\ ((~s1.focus \/ j \in B) /\ UNCHANGED s2) \/ Win(K, B, Q, S)!Post(<<"keyup", j>>)
  BY DEF Win!ReleaseKey, Win!Posts, WinInv, WinShape
<1>2. <<"keyup", j>> \in Message(K)
  BY DEF Message
<1>3. \A k : k # j \/ ~s1.focus => (Held(k) => Held(k)')
  BY <1>1 DEF Held
<1>5. s2' \in Seq(Message(K))
  <2>1. s2 \in Seq(Message(K)) /\ (s2' = s2 \/ s2' = Append(s2, <<"keyup", j>>))
    BY <1>1 DEF Win!Post, WinInv, WinShape
  <2>2. QED
    BY <1>2, <2>1
<1>6. ASSUME NEW k \in K \ B PROVE KeyAccounted(k)'
  <2>1. KeyAccounted(k) /\ s2 \in Seq(Message(K)) /\ s3'.keys = s3.keys
    BY <1>1 DEF WinInv, WinShape
  <2>2. CASE (~s1.focus \/ j \in B) /\ UNCHANGED s2
    <3>1. Held(k) => Held(k)'
      BY <1>3, <2>2
    <3>2. QED
      BY <2>1, <2>2, <3>1, KeyStays
  <2>3. CASE Win(K, B, Q, S)!Post(<<"keyup", j>>)
    <3>1. Held(k) => Held(k)' \/ <<"keyup", j>> \in {<<"keyup", k>>, <<"killfocus">>}
      BY <1>3
    <3>2. <<"keyup", j>> = <<"keydown", k>> => Held(k)'
      OBVIOUS
    <3>3. QED
      BY <1>2, <2>1, <2>3, <3>1, <3>2, KeyAfterPost
  <2>4. QED
    BY <1>1, <2>2, <2>3
<1>7. WinShape(K)' /\ CursorCounted'
  BY <1>1, <1>5 DEF WinInv, WinShape, CursorCounted
<1>8. QED
  BY <1>6, <1>7 DEF WinInv

\* The messages that say nothing of one key.
LEMMA OtherPostKeeps ==
    ASSUME NEW K, NEW B, NEW Q, NEW S, WinInv(K, B),
           Win(K, B, Q, S)!Motion \/ Win(K, B, Q, S)!LoseFocus \/ Win(K, B, Q, S)!TakeCapture
             \/ Win(K, B, Q, S)!Close
    PROVE  WinInv(K, B)'
<1>1. /\ s3' = s3 /\ DOMAIN s1' = DOMAIN s1 /\ s1'.keys = s1.keys
      /\ DOMAIN s4' = DOMAIN s4 /\ s4'.show = s4.show /\ s4'.failed = s4.failed
      /\ \E m \in {<<"input">>, <<"killfocus">>, <<"capturechanged">>, <<"quit">>} :
            /\ Win(K, B, Q, S)!Post(m)
            /\ s1'.focus = s1.focus \/ m = <<"killfocus">>
  BY DEF Win!Motion, Win!LoseFocus, Win!TakeCapture, Win!Close, WinInv, WinShape
<1>2. PICK m \in {<<"input">>, <<"killfocus">>, <<"capturechanged">>, <<"quit">>} :
            /\ Win(K, B, Q, S)!Post(m)
            /\ s1'.focus = s1.focus \/ m = <<"killfocus">>
  BY <1>1
<1>3. m \in Message(K)
  BY DEF Message
<1>4. s2' \in Seq(Message(K))
  BY <1>2, <1>3 DEF Win!Post, WinInv, WinShape
<1>5. ASSUME NEW k \in K \ B PROVE KeyAccounted(k)'
  <2>1. KeyAccounted(k) /\ s2 \in Seq(Message(K)) /\ s3'.keys = s3.keys
    BY <1>1 DEF WinInv, WinShape
  <2>2. m # <<"keydown", k>>
    OBVIOUS
  <2>3. Held(k) => Held(k)' \/ m \in {<<"keyup", k>>, <<"killfocus">>}
    BY <1>1, <1>2 DEF Held
  <2>4. QED
    BY <1>2, <1>3, <2>1, <2>2, <2>3, KeyAfterPost
<1>6. WinShape(K)' /\ CursorCounted'
  BY <1>1, <1>4 DEF WinInv, WinShape, CursorCounted
<1>7. QED
  BY <1>5, <1>6 DEF WinInv

\* The cursor is shown again when it was hidden, and hidden when it was shown; a call that
\* fails is remembered.
LEMMA FreedCounts ==
    ASSUME NEW K, NEW B, NEW Q, NEW S, WinInv(K, B), s3.raw, NEW ok \in BOOLEAN,
           s3' = Win(K, B, Q, S)!Freed(s3, s4, ok).in,
           s4' = Win(K, B, Q, S)!Freed(s3, s4, ok).cur
    PROVE  /\ DOMAIN s3' = DOMAIN s3 /\ s3'.keys = s3.keys
           /\ DOMAIN s4' = DOMAIN s4 /\ s4'.show \in Int /\ CursorCounted'
<1> DEFINE again == s4.capture /\ s3.raw /\ ~ok
           i == [s3 EXCEPT !.raw = s3.raw /\ ~ok]
           c == [s4 EXCEPT !.show = @ + (IF again THEN 2 ELSE 1), !.capture = FALSE,
                           !.failed = @ \/ ~ok]
<1>1. s3' = i /\ s4' = c
  BY DEF Win!Freed
<1>2. DOMAIN s3 = {"keys", "prevKeys", "raw", "delta"} /\ DOMAIN s4 = {"show", "capture", "failed"}
      /\ s4.show \in Int
  BY DEF WinInv, WinShape
<1>3. DOMAIN i = DOMAIN s3 /\ i.keys = s3.keys /\ i.raw = (s3.raw /\ ~ok)
  BY <1>2
<1>4. /\ DOMAIN c = DOMAIN s4 /\ c.show = s4.show + (IF again THEN 2 ELSE 1)
      /\ c.failed = (s4.failed \/ ~ok)
  BY <1>2
<1>5. c.show \in Int
  BY <1>2, <1>4
<1> HIDE DEF i, c
<1>6. CASE ok = TRUE
  <2>1. ~s4.failed => s4.show = -1
    BY DEF WinInv, CursorCounted
  <2>2. c.show = s4.show + 1 /\ (c.failed => s4.failed) /\ (s4.failed => c.failed) /\ ~i.raw
    BY <1>3, <1>4, <1>6
  <2>3. QED
    BY <1>1, <1>2, <1>3, <1>4, <1>5, <2>1, <2>2 DEF CursorCounted
<1>7. CASE ok = FALSE
  <2>1. c.failed
    BY <1>4, <1>7
  <2>2. QED
    BY <1>1, <1>2, <1>3, <1>4, <1>5, <2>1 DEF CursorCounted
<1>8. QED
  BY <1>6, <1>7

LEMMA CapturedCounts ==
    ASSUME NEW K, NEW B, NEW Q, NEW S, NEW i, NEW c, NEW ok \in BOOLEAN,
           DOMAIN i = {"keys", "prevKeys", "raw", "delta"},
           DOMAIN c = {"show", "capture", "failed"}, c.show \in Int,
           ~c.failed => c.show = 0
    PROVE  LET s == Win(K, B, Q, S)!Captured(i, c, ok) IN
           /\ DOMAIN s.in = DOMAIN i /\ s.in.keys = i.keys
           /\ DOMAIN s.cur = DOMAIN c /\ s.cur.show \in Int
           /\ ~s.cur.failed => s.cur.show = (IF s.in.raw THEN -1 ELSE 0)
<1> DEFINE j == [i EXCEPT !.raw = ok]
           d == [c EXCEPT !.show = @ - 1, !.capture = TRUE, !.failed = @ \/ ~ok]
<1>1. DOMAIN j = DOMAIN i /\ j.keys = i.keys /\ j.raw = ok
  OBVIOUS
<1>2. DOMAIN d = DOMAIN c /\ d.show = c.show - 1 /\ d.failed = (c.failed \/ ~ok)
  OBVIOUS
<1> HIDE DEF j, d
<1>3. ~d.failed => d.show = (IF j.raw THEN -1 ELSE 0)
  <2>1. CASE ok = TRUE
    <3>1. j.raw = TRUE
      BY <1>1, <2>1
    <3>2. ~d.failed => ~c.failed
      BY <1>2
    <3>3. c.show = 0 => d.show = -1
      BY <1>2
    <3>4. QED
      BY <3>1, <3>2, <3>3
  <2>2. CASE ok = FALSE
    BY <1>2, <2>2
  <2>3. QED
    BY <2>1, <2>2
<1>4. d.show \in Int
  BY <1>2
<1>5. Win(K, B, Q, S)!Captured(i, c, ok) = [in |-> j, cur |-> d]
  BY DEF Win!Captured, j, d
<1>6. QED
  BY <1>1, <1>2, <1>3, <1>4, <1>5

LEMMA DispatchKeeps ==
    ASSUME NEW K, NEW B, NEW Q, NEW S, WinInv(K, B), Win(K, B, Q, S)!Dispatch
    PROVE  WinInv(K, B)'
<1> DEFINE m == s2[1]
<1>1. /\ s1' = s1 /\ s2 # <<>> /\ s2' = Tail(s2) /\ s2 \in Seq(Message(K)) /\ Head(s2) = m
      /\ m \in Message(K)
  BY DEF Win!Dispatch, WinInv, WinShape
<1>2. /\ DOMAIN s3' = DOMAIN s3 /\ DOMAIN s4' = DOMAIN s4 /\ s4'.show \in Int
      /\ CursorCounted'
      /\ s3'.keys = CASE m[1] = "keydown" -> s3.keys \cup {m[2]}
                      [] m[1] = "keyup" -> s3.keys \ {m[2]}
                      [] m[1] = "killfocus" -> {}
                      [] OTHER -> s3.keys
  <2>1. CASE m[1] = "capturechanged" /\ s3.raw
    <3>1. PICK ok \in BOOLEAN : s3' = Win(K, B, Q, S)!Freed(s3, s4, ok).in
                             /\ s4' = Win(K, B, Q, S)!Freed(s3, s4, ok).cur
      BY <1>1, <2>1 DEF Win!Dispatch
    <3>2. QED
      <4>1. m[1] # "keydown" /\ m[1] # "keyup" /\ m[1] # "killfocus"
        BY <2>1
      <4>2. QED
        BY <2>1, <3>1, <4>1, FreedCounts
  <2>2. CASE ~ (m[1] = "capturechanged" /\ s3.raw)
    <3>1. s3' = Win(K, B, Q, S)!Handled(s3, m) /\ s4' = s4
      BY <1>1, <2>2 DEF Win!Dispatch
    <3>2. QED
      BY <3>1 DEF Win!Handled, Win!ForgetInput, WinInv, WinShape, CursorCounted
  <2>3. QED
    BY <2>1, <2>2
<1>3. /\ m[1] = "keydown" => m[2] \in K /\ m = <<"keydown", m[2]>>
      /\ m[1] = "keyup" => m[2] \in K /\ m = <<"keyup", m[2]>>
      /\ m[1] = "killfocus" <=> m = <<"killfocus">>
  BY <1>1 DEF Message
<1>4. ASSUME NEW k \in K \ B PROVE KeyAccounted(k)'
  <2>1. KeyAccounted(k)
    BY DEF WinInv
  <2>2. /\ Len(s2') = Len(s2) - 1 /\ Len(s2) \in Nat \ {0}
        /\ \A n \in 1 .. Len(s2) - 1 : s2'[n] = s2[n + 1]
        /\ \A n \in Nat \ {0} : EndsFrom(n + 1, k) => EndsFrom(n, k)'
        /\ EndsFrom(1, k) => m \in {<<"keyup", k>>, <<"killfocus">>} \/ EndsFrom(1, k)'
    BY <1>1, DispatchMoves
  <2>3. Held(k)' <=> Held(k)
    BY <1>1 DEF Held
  <2>4. ASSUME k \in s3'.keys PROVE Held(k)' \/ EndsFrom(1, k)'
    <3>1. CASE k \in s3.keys
      <4>1. Held(k) \/ EndsFrom(1, k)
        BY <2>1, <3>1 DEF KeyAccounted
      <4>2. m # <<"keyup", k>> /\ m # <<"killfocus">>
        BY <1>2, <2>4
      <4>3. QED
        BY <2>2, <2>3, <4>1, <4>2
    <3>2. CASE k \notin s3.keys
      <4>1. m[1] = "keydown" /\ m[2] = k
        BY <1>2, <2>4, <3>2
      <4>2. m = <<"keydown", k>>
        BY <1>3, <4>1
      <4>3. Held(k) \/ EndsFrom(2, k)
        BY <2>1, <2>2, <4>2 DEF KeyAccounted
      <4>4. QED
        BY <2>2, <2>3, <4>3
    <3>3. QED
      BY <3>1, <3>2
  <2>5. ASSUME NEW n \in 1 .. Len(s2'), s2'[n] = <<"keydown", k>>
        PROVE  Held(k)' \/ EndsFrom(n + 1, k)'
    <3>1. n + 1 \in 1 .. Len(s2) /\ s2[n + 1] = <<"keydown", k>>
      BY <2>2, <2>5
    <3>2. Held(k) \/ EndsFrom(n + 1 + 1, k)
      BY <2>1, <3>1 DEF KeyAccounted
    <3>3. QED
      BY <2>2, <2>3, <3>1, <3>2
  <2>6. QED
    BY <2>4, <2>5 DEF KeyAccounted
<1>5. s2' \in Seq(Message(K)) /\ s3'.keys \subseteq K
  BY <1>1, <1>2, <1>3 DEF WinInv, WinShape
<1>6. WinShape(K)'
  BY <1>1, <1>2, <1>5 DEF WinInv, WinShape
<1>7. QED
  BY <1>2, <1>4, <1>6 DEF WinInv

\* The tick and the camera read no messages and let go of no key.
LEMMA TickKeeps ==
    ASSUME NEW K, NEW B, NEW Q, NEW S, WinInv(K, B),
           Win(K, B, Q, S)!TickBegin \/ Win(K, B, Q, S)!Minimise \/ Win(K, B, Q, S)!TickEnd
             \/ Win(K, B, Q, S)!MoveCamera \/ Win(K, B, Q, S)!GainFocus
    PROVE  WinInv(K, B)'
<1>1. /\ DOMAIN s1' = DOMAIN s1 /\ s1'.keys = s1.keys /\ (s1.focus => s1'.focus)
      /\ s2' = s2
  BY DEF Win!TickBegin, Win!Minimise, Win!TickEnd, Win!MoveCamera, Win!GainFocus, WinInv, WinShape
<1>2. /\ DOMAIN s3' = DOMAIN s3 /\ s3'.keys = s3.keys
      /\ DOMAIN s4' = DOMAIN s4 /\ s4'.show \in Int /\ CursorCounted'
  <2>1. CASE Win(K, B, Q, S)!TickEnd
    <3>1. Win(K, B, Q, S)!TabToggles
      BY <2>1 DEF Win!TickEnd
    <3>2. CASE UNCHANGED <<s3, s4>>
      BY <3>2 DEF WinInv, WinShape, CursorCounted
    <3>3. CASE s3.raw /\ \E ok \in BOOLEAN : s3' = Win(K, B, Q, S)!Freed(s3, s4, ok).in
                                        /\ s4' = Win(K, B, Q, S)!Freed(s3, s4, ok).cur
      BY <3>3, FreedCounts
    <3>4. CASE ~s3.raw /\ \E ok \in BOOLEAN : s3' = Win(K, B, Q, S)!Captured(s3, s4, ok).in
                                         /\ s4' = Win(K, B, Q, S)!Captured(s3, s4, ok).cur
      <4>1. PICK ok \in BOOLEAN : s3' = Win(K, B, Q, S)!Captured(s3, s4, ok).in
                              /\ s4' = Win(K, B, Q, S)!Captured(s3, s4, ok).cur
        BY <3>4
      <4>2. /\ DOMAIN s3 = {"keys", "prevKeys", "raw", "delta"}
            /\ DOMAIN s4 = {"show", "capture", "failed"} /\ s4.show \in Int
            /\ ~s4.failed => s4.show = 0
        BY <3>4 DEF WinInv, WinShape, CursorCounted
      <4>3. QED
        BY <4>1, <4>2, CapturedCounts DEF CursorCounted
    <3>5. QED
      BY <3>1, <3>2, <3>3, <3>4 DEF Win!TabToggles
  <2>2. CASE ~ Win(K, B, Q, S)!TickEnd
    <3>1. /\ s4' = s4 /\ DOMAIN s3' = DOMAIN s3 /\ s3'.keys = s3.keys /\ s3'.raw = s3.raw
      BY <2>2 DEF Win!TickBegin, Win!Minimise, Win!MoveCamera, Win!GainFocus, WinInv, WinShape
    <3>2. QED
      BY <3>1 DEF WinInv, WinShape, CursorCounted
  <2>3. QED
    BY <2>1, <2>2
<1>3. ASSUME NEW k \in K \ B PROVE KeyAccounted(k)'
  <2>1. KeyAccounted(k)
    BY DEF WinInv
  <2>2. Held(k) => Held(k)'
    BY <1>1 DEF Held
  <2>3. QED
    BY <1>1, <1>2, <2>1, <2>2, KeyStays
<1>4. WinShape(K)'
  BY <1>1, <1>2 DEF WinInv, WinShape
<1>5. QED
  BY <1>2, <1>3, <1>4 DEF WinInv

LEMMA WinStep ==
    ASSUME NEW K, NEW B, NEW Q, NEW S, WinInv(K, B), Win(K, B, Q, S)!Next
    PROVE  WinInv(K, B)'
  BY PressKeyKeeps, ReleaseKeyKeeps, OtherPostKeeps, DispatchKeeps, TickKeeps DEF Win!Next

LEMMA WinStart ==
    ASSUME NEW K, NEW B, NEW Q, NEW S, Win(K, B, Q, S)!Init
    PROVE  WinInv(K, B)
<1>1. WinShape(K) /\ CursorCounted /\ s2 = <<>> /\ s3.keys = {}
  <2> DEFINE none == [keys |-> {}, prevKeys |-> {}, raw |-> FALSE, delta |-> 0]
             arrow == [show |-> 0, capture |-> FALSE, failed |-> FALSE]
  <2>1. PICK ok \in BOOLEAN : s3 = Win(K, B, Q, S)!Captured(none, arrow, ok).in
                          /\ s4 = Win(K, B, Q, S)!Captured(none, arrow, ok).cur
    BY DEF Win!Init
  <2>2. /\ DOMAIN none = {"keys", "prevKeys", "raw", "delta"}
        /\ DOMAIN arrow = {"show", "capture", "failed"} /\ arrow.show = 0 /\ none.keys = {}
    OBVIOUS
  <2>3. s2 = <<>> /\ DOMAIN s1 = {"keys", "focus", "iconic"} /\ s1.keys = {}
    BY DEF Win!Init
  <2> HIDE DEF none, arrow
  <2>4. QED
    BY <2>1, <2>2, <2>3, CapturedCounts DEF WinShape, CursorCounted
<1>2. QED
  BY <1>1 DEF WinInv, KeyAccounted

LEMMA WinHolds ==
    ASSUME NEW K, NEW B, NEW Q, NEW S, WinInv(K, B)
    PROVE  Win(K, B, Q, S)!NoStuckKeys /\ Win(K, B, Q, S)!CursorHiddenWhileRaw
<1>1. Win(K, B, Q, S)!CursorHiddenWhileRaw
  BY DEF WinInv, CursorCounted, Win!CursorHiddenWhileRaw
<1>2. ASSUME NEW k \in s3.keys \ B
      PROVE  \/ k \in s1.keys
             \/ \E n \in 1 .. Len(s2) : s2[n] \in {<<"keyup", k>>, <<"killfocus">>}
  <2>1. Held(k) \/ EndsFrom(1, k)
    BY DEF WinInv, WinShape, KeyAccounted
  <2>2. QED
    BY <2>1 DEF Held, EndsFrom
<1>3. QED
  BY <1>1, <1>2 DEF Win!NoStuckKeys

-----------------------------------------------------------------------------
(* Picking entities, for any instances with any templates.                 *)
Sel(I, D, M, Q) == INSTANCE Selection WITH queue <- s1, sel <- s2, insp <- s3,
    Insts <- I, InstId <- D, Materials <- M, MaxQueue <- Q

InspectorOf(I, D) == [active : BOOLEAN, asset : {[id |-> D[i], h |-> i] : i \in I}]

SelShape(I, D, M) ==
    /\ s1 \in Seq(I \cup {None})
    /\ s2.who \in I \cup {None} /\ s2.look \in [I -> M]
    /\ DOMAIN s2 = {"who", "look", "lit", "touched"}
    /\ s3 \in Seq(InspectorOf(I, D))

SelInv(I, D, M, Q) ==
    SelShape(I, D, M) /\ Sel(I, D, M, Q)!LitIsSelected /\ Sel(I, D, M, Q)!OneInspectorPerAsset

LEMMA InspectedFacts ==
    ASSUME NEW I, NEW D, NEW M, NEW Q, SelInv(I, D, M, Q), NEW hit \in I,
           s3' = Sel(I, D, M, Q)!Inspected(hit)
    PROVE  /\ s3' \in Seq(InspectorOf(I, D))
           /\ \A n, k \in 1 .. Len(s3') : s3'[n].asset.id = s3'[k].asset.id => n = k
           /\ \E n \in 1 .. Len(s3') : s3'[n].asset = [id |-> D[hit], h |-> hit]
<1> DEFINE there == {n \in 1 .. Len(s3) : s3[n].asset.id = D[hit]}
           window == [active |-> TRUE, asset |-> [id |-> D[hit], h |-> hit]]
           first == CHOOSE n \in there : \A m \in there : n <= m
<1>1. s3 \in Seq(InspectorOf(I, D)) /\ window \in InspectorOf(I, D)
  BY DEF SelInv, SelShape, InspectorOf
<1>2. \A n, k \in 1 .. Len(s3) : s3[n].asset.id = s3[k].asset.id => n = k
  BY DEF SelInv, Sel!OneInspectorPerAsset
<1>3. window.asset = [id |-> D[hit], h |-> hit] /\ window.asset.id = D[hit]
  OBVIOUS
<1>4. s3' = IF there = {} THEN Append(s3, window) ELSE [s3 EXCEPT ![first] = window]
  BY DEF Sel!Inspected, Sel!Instance
<1> HIDE DEF window
<1>5. CASE there = {}
  <2>1. /\ s3' \in Seq(InspectorOf(I, D)) /\ Len(s3') = Len(s3) + 1 /\ Len(s3) \in Nat
        /\ \A n \in 1 .. Len(s3) : s3'[n] = s3[n]
        /\ s3'[Len(s3) + 1] = window
    BY <1>1, <1>4, <1>5
  <2>2. \A n \in 1 .. Len(s3) : s3[n].asset.id # D[hit]
    BY <1>5
  <2>3. ASSUME NEW n \in 1 .. Len(s3'), NEW k \in 1 .. Len(s3'),
               s3'[n].asset.id = s3'[k].asset.id
        PROVE  n = k
    <3>1. CASE n \in 1 .. Len(s3) /\ k \in 1 .. Len(s3)
      BY <1>2, <2>1, <2>3, <3>1
    <3>2. CASE n = Len(s3) + 1 /\ k \in 1 .. Len(s3)
      BY <1>3, <2>1, <2>2, <2>3, <3>2
    <3>3. CASE k = Len(s3) + 1 /\ n \in 1 .. Len(s3)
      BY <1>3, <2>1, <2>2, <2>3, <3>3
    <3>4. QED
      BY <2>1, <3>1, <3>2, <3>3
  <2>4. QED
    BY <1>3, <2>1, <2>3
<1>6. CASE there # {}
  <2>1. PICK n \in there : TRUE
    BY <1>6
  <2>2. there = {n}
    BY <1>2, <2>1
  <2>3. first = n
    BY <2>2
  <2>4. /\ s3' \in Seq(InspectorOf(I, D)) /\ Len(s3') = Len(s3)
        /\ \A k \in 1 .. Len(s3) : s3'[k] = IF k = n THEN window ELSE s3[k]
    <3>1. s3' = [s3 EXCEPT ![n] = window] /\ n \in 1 .. Len(s3)
      BY <1>4, <1>6, <2>1, <2>3
    <3>2. QED
      BY <1>1, <3>1
  <2>5. \A k \in 1 .. Len(s3) : s3'[k].asset.id = s3[k].asset.id
    BY <1>3, <2>1, <2>4
  <2>6. \A k, m \in 1 .. Len(s3') : s3'[k].asset.id = s3'[m].asset.id => k = m
    BY <1>2, <2>4, <2>5
  <2>7. QED
    BY <1>3, <2>1, <2>4, <2>6
<1>7. QED
  BY <1>5, <1>6

LEMMA SelStep ==
    ASSUME NEW I \in SUBSET Nat, NEW D, NEW M, NEW Q, SelInv(I, D, M, Q), Sel(I, D, M, Q)!Next
    PROVE  SelInv(I, D, M, Q)'
<1> DEFINE Lit(t, i) == IF i = None THEN {} ELSE {t.look[i]}
<1>1. None \notin I
  BY PartsAssumption
<1>2. /\ SelShape(I, D, M)
      /\ ~s2.touched => s2.lit = (IF s2.who = None THEN {} ELSE {s2.look[s2.who]})
      /\ \A n, k \in 1 .. Len(s3) : s3[n].asset.id = s3[k].asset.id => n = k
      /\ s2.who # None => \E n \in 1 .. Len(s3) : s3[n].asset = [id |-> D[s2.who], h |-> s2.who]
  BY DEF SelInv, Sel!LitIsSelected, Sel!OneInspectorPerAsset, Sel!Instance
<1>3. ASSUME SelShape(I, D, M)',
             ~s2'.touched => s2'.lit = (IF s2'.who = None THEN {} ELSE {s2'.look[s2'.who]}),
             \A n, k \in 1 .. Len(s3') : s3'[n].asset.id = s3'[k].asset.id => n = k,
             s2'.who # None =>
                \E n \in 1 .. Len(s3') : s3'[n].asset = [id |-> D[s2'.who], h |-> s2'.who]
      PROVE  SelInv(I, D, M, Q)'
  BY <1>3 DEF SelInv, Sel!LitIsSelected, Sel!OneInspectorPerAsset, Sel!Instance
<1>4. ASSUME Sel(I, D, M, Q)!HandlePickEntity PROVE SelInv(I, D, M, Q)'
  <2> DEFINE hit == Head(s1)
  <2>1. hit \in I \cup {None} /\ s1' \in Seq(I \cup {None})
    BY <1>2, <1>4 DEF Sel!HandlePickEntity, SelShape
  <2>2. /\ s2' = Sel(I, D, M, Q)!Chosen(hit)
        /\ s3' = IF hit = None THEN s3 ELSE Sel(I, D, M, Q)!Inspected(hit)
    BY <1>4 DEF Sel!HandlePickEntity
  <2> HIDE DEF hit
  <2>3. /\ DOMAIN s2' = DOMAIN s2 /\ s2'.who = hit /\ s2'.look = s2.look
        /\ s2'.touched = s2.touched
    BY <1>2, <2>2 DEF Sel!Chosen, SelShape
  <2>4. ~s2'.touched => s2'.lit = (IF hit = None THEN {} ELSE {s2.look[hit]})
    <3>1. CASE s2.who = hit
      BY <1>2, <2>2, <3>1 DEF Sel!Chosen
    <3>2. CASE s2.who # hit
      <4>1. s2'.lit = Sel(I, D, M, Q)!Lit(Sel(I, D, M, Q)!Lit(s2.lit, s2.who, FALSE), hit, TRUE)
        BY <1>2, <2>2, <3>2 DEF Sel!Chosen, SelShape
      <4>2. ~s2.touched => Sel(I, D, M, Q)!Lit(s2.lit, s2.who, FALSE) = {}
        BY <1>2 DEF Sel!Lit
      <4>3. QED
        BY <2>3, <4>1, <4>2 DEF Sel!Lit
    <3>3. QED
      BY <3>1, <3>2
  <2>5. CASE hit = None
    BY <1>2, <1>3, <2>1, <2>2, <2>3, <2>4, <2>5 DEF SelShape
  <2>6. CASE hit \in I
    <3>1. /\ s3' \in Seq(InspectorOf(I, D))
          /\ \A n, k \in 1 .. Len(s3') : s3'[n].asset.id = s3'[k].asset.id => n = k
          /\ \E n \in 1 .. Len(s3') : s3'[n].asset = [id |-> D[hit], h |-> hit]
      BY <1>1, <2>2, <2>6, InspectedFacts
    <3>2. SelShape(I, D, M)'
      BY <1>2, <2>1, <2>3, <3>1 DEF SelShape
    <3>3. QED
      BY <1>3, <2>3, <2>4, <3>1, <3>2
  <2>7. QED
    BY <2>1, <2>5, <2>6
<1>5. ASSUME NEW hit \in I \cup {None}, Sel(I, D, M, Q)!Pick(hit) PROVE SelInv(I, D, M, Q)'
  <2>1. s1' \in Seq(I \cup {None}) /\ UNCHANGED <<s2, s3>>
    BY <1>2, <1>5 DEF Sel!Pick, SelShape
  <2>2. QED
    BY <1>2, <1>3, <2>1 DEF SelShape
<1>6. ASSUME NEW i \in I, NEW m \in M, Sel(I, D, M, Q)!Remodel(i, m) PROVE SelInv(I, D, M, Q)'
  <2>1. /\ UNCHANGED <<s1, s3>> /\ DOMAIN s2' = DOMAIN s2 /\ s2'.who = s2.who /\ s2'.lit = s2.lit
        /\ s2'.look = [s2.look EXCEPT ![i] = m]
        /\ s2'.touched = (s2.touched \/ i = s2.who)
    BY <1>2, <1>6 DEF Sel!Remodel, SelShape
  <2>2. ~s2'.touched => ~s2.touched /\ i # s2.who
    BY <2>1
  <2>3. QED
    BY <1>2, <1>3, <2>1, <2>2 DEF SelShape
<1>7. ASSUME NEW n \in 1 .. Len(s3), Sel(I, D, M, Q)!CloseInspector(n) PROVE SelInv(I, D, M, Q)'
  <2>1. /\ UNCHANGED <<s1, s2>> /\ s3' \in Seq(InspectorOf(I, D)) /\ Len(s3') = Len(s3)
        /\ \A k \in 1 .. Len(s3) : s3'[k].asset = s3[k].asset
    <3>1. s3' = [s3 EXCEPT ![n] = [s3[n] EXCEPT !.active = FALSE]] /\ UNCHANGED <<s1, s2>>
      BY <1>7 DEF Sel!CloseInspector
    <3>2. /\ s3 \in Seq(InspectorOf(I, D)) /\ s3[n] \in InspectorOf(I, D)
      BY <1>2 DEF SelShape
    <3>3. /\ [s3[n] EXCEPT !.active = FALSE] \in InspectorOf(I, D)
          /\ [s3[n] EXCEPT !.active = FALSE].asset = s3[n].asset
      BY <3>2 DEF InspectorOf
    <3>4. QED
      BY <3>1, <3>2, <3>3
  <2>2. QED
    BY <1>2, <1>3, <2>1 DEF SelShape
<1>8. QED
  BY <1>4, <1>5, <1>6, <1>7 DEF Sel!Next

LEMMA SelStart ==
    ASSUME NEW I \in SUBSET Nat, NEW D, NEW M, NEW Q, Sel(I, D, M, Q)!Init
    PROVE  SelInv(I, D, M, Q)
  BY DEF Sel!Init, SelInv, SelShape, Sel!LitIsSelected, Sel!OneInspectorPerAsset

-----------------------------------------------------------------------------
(* The editor.                                                             *)
EdRefs == [id : {"e", "m"}, h : Int]

EdShape ==
    /\ DOMAIN s1 = {"loaded", "val"} /\ s1.loaded \subseteq {"e"} /\ DOMAIN s1.val = {"e"}
    /\ DOMAIN s2 = {"val", "writes", "failed"} /\ DOMAIN s2.val = {"e"}
    /\ DOMAIN s3 = {"root", "open", "dirty"}
    /\ IsFiniteSet(s3.dirty)
    /\ s3.open \in Seq(EdRefs)
    /\ \A n \in 1 .. Len(s3.open) : s3.open[n].h \in {-1, 0} => s3.open[n].id = "e"
    /\ \E S : s4 \in Seq(S)

EdInv == EdShape /\ Edit!UnsavedIsKnown /\ Edit!OpenOnce

\* Save All leaves no dirty asset out.
LEMMA SavesAll ==
    ASSUME NEW S, IsFiniteSet(S)
    PROVE  /\ Edit!SetToSeq(S) \in Seq(S)
           /\ Edit!ToSet(Edit!SetToSeq(S)) = S
<1> DEFINE f == Edit!SetToSeq(S)
           n == Cardinality(S)
<1>1. n \in Nat /\ \E g \in [1 .. n -> S] : IsInjective(g)
  BY FS_CardinalityType DEF ExistsBijection, Bijection, Injection
<1>2. Edit!Cardinality(S) = n
  BY DEF Edit!Cardinality, Cardinality, Edit!IsFiniteSet, IsFiniteSet
<1>3. f \in Injection(1 .. n, S)
  BY <1>1, <1>2 DEF Edit!SetToSeq, Edit!IsInjective, IsInjective, Injection
<1>4. Cardinality(1 .. n) = n
  BY <1>1, FS_Interval
<1>5. f \in Surjection(1 .. n, S)
  BY <1>3, <1>4, FS_Injection
<1> HIDE DEF f
<1>6. f \in [1 .. n -> S] /\ \A x \in S : \E i \in 1 .. n : f[i] = x
  BY <1>5 DEF Surjection
<1>7. QED
  <2>1. f \in Seq(S)
    BY <1>1, <1>6
  <2>2. Edit!ToSet(f) = S
    BY <1>6 DEF Edit!ToSet
  <2>3. QED
    BY <2>1, <2>2 DEF f

LEMMA EdInit == Edit!Init => EdInv
<1> SUFFICES ASSUME Edit!Init PROVE EdInv
  OBVIOUS
<1>1. IsFiniteSet({})
  BY FS_EmptySet
<1>2. QED
  BY <1>1 DEF Edit!Init, EdInv, EdShape, Edit!UnsavedIsKnown, Edit!OpenOnce

\* What is dirty or in the queue is on its way.
OnItsWay(id) == \E ref \in s3.dirty \cup Edit!ToSet(s4) : ref.id = id

\* The open assets are of different ids.
Opens(open) ==
    /\ \A n, k \in 1 .. Len(open) : open[n].id = open[k].id => n = k
    /\ \A n \in 1 .. Len(open) : open[n].h \in {-1, 0} => open[n].id = "e"

LEMMA EdStep ==
    ASSUME EdInv, Edit!Next
    PROVE  EdInv'
<1>1. EdShape /\ Edit!OpenOnce
      /\ \A id \in s1.loaded : s1.val[id] # s2.val[id] =>
            OnItsWay(id) \/ id \in s2.writes \cup s2.failed
  BY DEF EdInv, Edit!UnsavedIsKnown, OnItsWay
<1>2. ASSUME EdShape', Edit!OpenOnce',
             \A id \in s1'.loaded : s1'.val[id] # s2'.val[id] =>
                OnItsWay(id)' \/ id \in s2'.writes \cup s2'.failed
      PROVE  EdInv'
  BY <1>2 DEF EdInv, Edit!UnsavedIsKnown, OnItsWay
<1>3. ASSUME NEW open \in Seq(EdRefs), Opens(open), NEW ref \in EdRefs,
             ref.h \in {-1, 0} => ref.id = "e"
      PROVE  Edit!AddOpen(open, ref) \in Seq(EdRefs) /\ Opens(Edit!AddOpen(open, ref))
  <2>1. CASE Edit!AddOpen(open, ref) = open
    BY <1>3, <2>1
  <2>2. CASE /\ Edit!AddOpen(open, ref) = Append(open, ref)
             /\ \A n \in 1 .. Len(open) : open[n].id # ref.id
    <3> DEFINE new == Append(open, ref)
    <3>1. /\ new \in Seq(EdRefs) /\ Len(new) = Len(open) + 1 /\ Len(open) \in Nat
          /\ \A n \in 1 .. Len(open) : new[n] = open[n]
          /\ new[Len(open) + 1] = ref
      OBVIOUS
    <3> HIDE DEF new
    <3>2. Opens(new)
      <4>1. ASSUME NEW n \in 1 .. Len(new), NEW k \in 1 .. Len(new), new[n].id = new[k].id
            PROVE  n = k
        <5>1. CASE n \in 1 .. Len(open) /\ k \in 1 .. Len(open)
          BY <1>3, <3>1, <4>1, <5>1 DEF Opens
        <5>2. CASE n = Len(open) + 1 /\ k \in 1 .. Len(open)
          BY <2>2, <3>1, <4>1, <5>2
        <5>3. CASE k = Len(open) + 1 /\ n \in 1 .. Len(open)
          BY <2>2, <3>1, <4>1, <5>3
        <5>4. QED
          BY <3>1, <5>1, <5>2, <5>3
      <4>2. ASSUME NEW n \in 1 .. Len(new), new[n].h \in {-1, 0} PROVE new[n].id = "e"
        BY <1>3, <3>1, <4>2 DEF Opens
      <4>3. QED
        BY <4>1, <4>2 DEF Opens
    <3>3. QED
      BY <2>2, <3>1, <3>2 DEF new
  <2>3. QED
    BY <2>1, <2>2 DEF Edit!AddOpen
<1>4. Opens(s3.open) /\ s3.open \in Seq(EdRefs)
  BY <1>1 DEF Opens, EdShape, Edit!OpenOnce
<1>5. \A id \in {"e"} : Edit!Reference(id) \in EdRefs /\ Edit!Reference(id).id = id
  BY DEF Edit!Reference, Edit!Template, Edit!Unloaded, EdRefs
<1>6. ASSUME NEW open \in Seq(EdRefs), Opens(open), s3'.open = open, DOMAIN s3' = DOMAIN s3,
             s3'.dirty = s3.dirty, UNCHANGED <<s1, s2, s4>>
      PROVE  EdInv'
  <2>1. EdShape' /\ Edit!OpenOnce'
    BY <1>1, <1>6 DEF Opens, EdShape, Edit!OpenOnce
  <2>2. \A id : OnItsWay(id)' <=> OnItsWay(id)
    BY <1>6 DEF OnItsWay
  <2>3. QED
    BY <1>1, <1>2, <1>6, <2>1, <2>2
<1>7. ASSUME Edit!OpenAsset PROVE EdInv'
  <2>1. PICK ref \in {Edit!Reference(id) : id \in {"e"}} \cup {Edit!Instance(i) : i \in {1, 2}} :
              s3' = [s3 EXCEPT !.root = ref, !.open = Edit!AddOpen(<<>>, ref)]
    BY <1>7 DEF Edit!OpenAsset
  <2>2. ref \in EdRefs /\ (ref.h \in {-1, 0} => ref.id = "e")
    <3>1. CASE ref \in {Edit!Reference(id) : id \in {"e"}}
      BY <1>5, <3>1
    <3>2. CASE ref \in {Edit!Instance(i) : i \in {1, 2}}
      BY <3>2 DEF Edit!Instance, EdRefs
    <3>3. QED
      BY <3>1, <3>2
  <2>3. <<>> \in Seq(EdRefs) /\ Opens(<<>>)
    BY DEF Opens
  <2>4. /\ Edit!AddOpen(<<>>, ref) \in Seq(EdRefs) /\ Opens(Edit!AddOpen(<<>>, ref))
    BY <1>3, <2>2, <2>3
  <2>5. /\ s3'.open = Edit!AddOpen(<<>>, ref) /\ DOMAIN s3' = DOMAIN s3 /\ s3'.dirty = s3.dirty
    BY <1>1, <2>1 DEF EdShape
  <2>6. UNCHANGED <<s1, s2, s4>>
    BY <1>7 DEF Edit!OpenAsset
  <2>7. QED
    BY <1>6, <2>4, <2>5, <2>6
<1>8. ASSUME NEW id \in {"e"}, Edit!OpenField(id) PROVE EdInv'
  <2>1. /\ s3'.open = Edit!AddOpen(s3.open, Edit!Reference(id)) /\ DOMAIN s3' = DOMAIN s3
        /\ s3'.dirty = s3.dirty /\ UNCHANGED <<s1, s2, s4>>
    BY <1>1, <1>8 DEF Edit!OpenField, EdShape
  <2>2. QED
    BY <1>3, <1>4, <1>5, <1>6, <2>1
<1>9. ASSUME NEW id \in {"e"}, Edit!LoadDone(id) PROVE EdInv'
  <2>1. /\ s1'.loaded = s1.loaded \cup {id} /\ DOMAIN s1' = DOMAIN s1
        /\ s1'.val = [s1.val EXCEPT ![id] = s2.val[id]] /\ UNCHANGED <<s2, s3, s4>>
    BY <1>1, <1>9 DEF Edit!LoadDone, EdShape
  <2>2. EdShape' /\ Edit!OpenOnce'
    BY <1>1, <2>1 DEF EdShape, Edit!OpenOnce
  <2>3. \A x : OnItsWay(x)' <=> OnItsWay(x)
    BY <2>1 DEF OnItsWay
  <2>4. QED
    BY <1>1, <1>2, <2>1, <2>2, <2>3 DEF EdShape
<1>10. ASSUME Edit!SaveAll PROVE EdInv'
  <2> DEFINE q == Edit!SetToSeq(s3.dirty)
  <2>1. /\ s4' = s4 \o q /\ s3'.dirty = {} /\ s3'.open = s3.open /\ DOMAIN s3' = DOMAIN s3
        /\ UNCHANGED <<s1, s2>>
    BY <1>1, <1>10 DEF Edit!SaveAll, EdShape
  <2>2. q \in Seq(s3.dirty) /\ Edit!ToSet(q) = s3.dirty
    BY <1>1, SavesAll DEF EdShape
  <2> HIDE DEF q
  <2>3. PICK S : s4 \in Seq(S)
    BY <1>1 DEF EdShape
  <2>4. s4 \in Seq(S \cup s3.dirty) /\ q \in Seq(S \cup s3.dirty)
    BY <2>2, <2>3
  <2>5. /\ s4' \in Seq(S \cup s3.dirty) /\ Len(s4') = Len(s4) + Len(q)
        /\ Len(s4) \in Nat /\ Len(q) \in Nat
        /\ \A n \in 1 .. Len(s4) : s4'[n] = s4[n]
        /\ \A n \in 1 .. Len(q) : s4'[Len(s4) + n] = q[n]
    BY <2>1, <2>4
  <2>6. ASSUME NEW x \in Edit!ToSet(s4) \cup Edit!ToSet(q) PROVE x \in Edit!ToSet(s4')
    <3>1. CASE x \in Edit!ToSet(s4)
      BY <2>4, <2>5, <3>1 DEF Edit!ToSet
    <3>2. CASE x \in Edit!ToSet(q)
      <4>1. PICK n \in 1 .. Len(q) : x = q[n]
        BY <2>4, <3>2 DEF Edit!ToSet
      <4>2. Len(s4) + n \in 1 .. Len(s4')
        BY <2>5
      <4>3. QED
        BY <2>5, <4>1, <4>2 DEF Edit!ToSet
    <3>3. QED
      BY <2>6, <3>1, <3>2
  <2>7. \A id : OnItsWay(id) => OnItsWay(id)'
    BY <2>1, <2>2, <2>6 DEF OnItsWay
  <2>8. EdShape'
    <3>1. IsFiniteSet(s3'.dirty)
      BY <2>1, FS_EmptySet
    <3>2. QED
      BY <1>1, <2>1, <2>5, <3>1 DEF EdShape
  <2>9. Edit!OpenOnce'
    BY <1>1, <2>1 DEF Edit!OpenOnce
  <2>10. QED
    BY <1>1, <1>2, <2>1, <2>7, <2>8, <2>9
<1>11. ASSUME NEW n \in 1 .. 2, Edit!Change(n) PROVE EdInv'
  <2> DEFINE ref == Edit!Refreshed[n]
  <2>1. /\ Edit!Refreshed \in Seq(EdRefs) /\ Opens(Edit!Refreshed)
        /\ Len(Edit!Refreshed) = Len(s3.open)
    <3>1. /\ DOMAIN Edit!Refreshed = 1 .. Len(s3.open) /\ Len(s3.open) \in Nat
          /\ \A k \in 1 .. Len(s3.open) :
                Edit!Refreshed[k] = IF s3.open[k].h = -1 THEN Edit!Reference(s3.open[k].id)
                                    ELSE s3.open[k]
      BY <1>4 DEF Edit!Refreshed
    <3>2. \A k \in 1 .. Len(s3.open) :
             /\ Edit!Refreshed[k] \in EdRefs /\ Edit!Refreshed[k].id = s3.open[k].id
             /\ Edit!Refreshed[k].h \in {-1, 0} => Edit!Refreshed[k].id = "e"
      BY <1>4, <1>5, <3>1 DEF Opens
    <3>3. Edit!Refreshed \in Seq(EdRefs) /\ Len(Edit!Refreshed) = Len(s3.open)
      <4> DEFINE e(k) == IF s3.open[k].h = -1 THEN Edit!Reference(s3.open[k].id)
                         ELSE s3.open[k]
                 r == [k \in 1 .. Len(s3.open) |-> e(k)]
      <4>1. Edit!Refreshed = r
        BY DEF Edit!Refreshed
      <4>2. \A k \in 1 .. Len(s3.open) : e(k) \in EdRefs
        BY <3>1, <3>2
      <4> HIDE DEF e
      <4>3. r \in Seq(EdRefs) /\ Len(r) = Len(s3.open)
        BY <3>1, <4>2
      <4>4. QED
        BY <4>1, <4>3
    <3>4. QED
      BY <1>4, <3>2, <3>3 DEF Opens
  <2>2. ref \in EdRefs /\ (ref.h \in {-1, 0} => ref.id = "e")
    BY <1>11, <2>1 DEF Edit!Change, Opens
  <2>3. /\ s3'.open = Edit!Refreshed /\ DOMAIN s3' = DOMAIN s3
        /\ s3'.dirty = Edit!Marked(ref) /\ s4' = s4
    BY <1>1, <1>11 DEF Edit!Change, EdShape
  <2>4. \/ /\ ref.id = "e" /\ DOMAIN s1' = DOMAIN s1 /\ s1'.loaded = s1.loaded \cup {"e"}
           /\ DOMAIN s1'.val = {"e"}
           /\ DOMAIN s2' = DOMAIN s2 /\ s2'.val = s2.val
        \/ UNCHANGED <<s1, s2>>
    <3>1. CASE ref.h \in {-1, 0}
      <4>1. ref.id = "e"
        BY <2>2, <3>1
      <4>2. PICK v : s1' = [loaded |-> s1.loaded \cup {ref.id},
                            val |-> [s1.val EXCEPT ![ref.id] = v]]
        BY <1>11, <3>1 DEF Edit!Change
      <4>3. s2' = [s2 EXCEPT !.failed = @ \ {ref.id}]
        BY <1>11, <3>1 DEF Edit!Change
      <4>4. QED
        BY <1>1, <4>1, <4>2, <4>3 DEF EdShape
    <3>2. CASE ref.h \notin {-1, 0}
      BY <1>11, <3>2 DEF Edit!Change
    <3>3. QED
      BY <3>1, <3>2
  <2>5. /\ IsFiniteSet(s3'.dirty) /\ ref \in s3'.dirty /\ s3.dirty \subseteq s3'.dirty
    <3>1. /\ IsFiniteSet(s3.dirty) /\ IsFiniteSet(s3.dirty \cup {ref})
          /\ IsFiniteSet(s3.dirty \cup {ref} \cup {s3.root})
      <4>1. IsFiniteSet(s3.dirty)
        BY <1>1 DEF EdShape
      <4>2. IsFiniteSet(s3.dirty \cup {ref})
        BY <4>1, FS_AddElement
      <4>3. QED
        BY <4>1, <4>2, FS_AddElement
    <3>2. s3'.dirty = s3.dirty \cup {ref} \cup IF ref.id = s3.root.id THEN {s3.root} ELSE {}
      BY <2>3 DEF Edit!Marked
    <3>3. CASE ref.id = s3.root.id
      <4>1. s3'.dirty = s3.dirty \cup {ref} \cup {s3.root}
        BY <3>2, <3>3
      <4>2. QED
        BY <3>1, <4>1
    <3>4. CASE ref.id # s3.root.id
      <4>1. s3'.dirty = s3.dirty \cup {ref}
        BY <3>2, <3>4
      <4>2. QED
        BY <3>1, <4>1
    <3>5. QED
      BY <3>3, <3>4
  <2> HIDE DEF ref
  <2>6. (\A id : OnItsWay(id) => OnItsWay(id)') /\ (ref.id = "e" => OnItsWay("e")')
    BY <2>3, <2>5 DEF OnItsWay
  <2>7. EdShape' /\ Edit!OpenOnce'
    BY <1>1, <2>1, <2>3, <2>4, <2>5 DEF Opens, EdShape, Edit!OpenOnce
  <2>8. QED
    BY <1>1, <1>2, <2>4, <2>6, <2>7 DEF EdShape
<1>12. ASSUME Edit!HandleSaveAsset PROVE EdInv'
  <2>1. /\ s4 # <<>> /\ s4' = Tail(s4) /\ UNCHANGED <<s1, s3>>
        /\ DOMAIN s2' = DOMAIN s2 /\ s2'.val = s2.val /\ s2'.failed = s2.failed
        /\ s2'.writes = s2.writes \cup ({Head(s4).id} \cap s1.loaded)
    BY <1>1, <1>12 DEF Edit!HandleSaveAsset, EdShape
  <2>2. PICK S : s4 \in Seq(S)
    BY <1>1 DEF EdShape
  <2>3. s4' \in Seq(S) /\ Edit!ToSet(s4) = {Head(s4)} \cup Edit!ToSet(s4')
    <3>1. /\ s4' \in Seq(S) /\ Len(s4') = Len(s4) - 1 /\ Len(s4) \in Nat \ {0}
          /\ Head(s4) = s4[1] /\ \A n \in 1 .. Len(s4) - 1 : s4'[n] = s4[n + 1]
      BY <2>1, <2>2
    <3>2. ASSUME NEW n \in 1 .. Len(s4) PROVE s4[n] \in {Head(s4)} \cup Edit!ToSet(s4')
      <4>1. CASE n = 1
        BY <3>1, <4>1
      <4>2. CASE n # 1
        <5>1. n - 1 \in 1 .. Len(s4') /\ s4'[n - 1] = s4[n]
          BY <3>1, <4>2
        <5>2. QED
          BY <3>1, <5>1 DEF Edit!ToSet
      <4>3. QED
        BY <4>1, <4>2
    <3>3. ASSUME NEW n \in 1 .. Len(s4') PROVE s4'[n] \in Edit!ToSet(s4)
      <4>1. n + 1 \in 1 .. Len(s4) /\ s4'[n] = s4[n + 1]
        BY <3>1
      <4>2. QED
        BY <2>2, <4>1 DEF Edit!ToSet
    <3>4. Head(s4) \in Edit!ToSet(s4)
      BY <2>2, <3>1 DEF Edit!ToSet
    <3>5. QED
      BY <2>2, <3>1, <3>2, <3>3, <3>4 DEF Edit!ToSet
  <2>4. \A id : OnItsWay(id) => OnItsWay(id)' \/ id = Head(s4).id
    BY <2>1, <2>3 DEF OnItsWay
  <2>5. EdShape' /\ Edit!OpenOnce'
    BY <1>1, <2>1, <2>3 DEF EdShape, Edit!OpenOnce
  <2>6. QED
    BY <1>1, <1>2, <2>1, <2>4, <2>5
<1>13. ASSUME NEW id \in {"e"}, Edit!WriteDone(id) \/ Edit!WriteFails(id) PROVE EdInv'
  <2>1. /\ DOMAIN s2' = DOMAIN s2 /\ UNCHANGED <<s1, s3, s4>>
        /\ \/ s2'.val = [s2.val EXCEPT ![id] = s1.val[id]]
              /\ s2'.writes = s2.writes \ {id} /\ s2'.failed = s2.failed \ {id}
           \/ s2'.val = s2.val
              /\ s2'.writes = s2.writes \ {id} /\ s2'.failed = s2.failed \cup {id}
    <3>1. CASE Edit!WriteDone(id)
      BY <1>1, <3>1 DEF Edit!WriteDone, EdShape
    <3>2. CASE Edit!WriteFails(id)
      BY <1>1, <3>2 DEF Edit!WriteFails, EdShape
    <3>3. QED
      BY <1>13, <3>1, <3>2
  <2>2. EdShape' /\ Edit!OpenOnce'
    BY <1>1, <2>1 DEF EdShape, Edit!OpenOnce
  <2>3. \A x : OnItsWay(x)' <=> OnItsWay(x)
    BY <2>1 DEF OnItsWay
  <2>4. QED
    BY <1>1, <1>2, <2>1, <2>2, <2>3 DEF EdShape
<1>14. QED
  BY <1>7, <1>8, <1>9, <1>10, <1>11, <1>12, <1>13 DEF Edit!Next

-----------------------------------------------------------------------------
(* Files: s1 is the disk, s2 the kernel's handles, s3 the references and   *)
(* s4 the save that runs.  Who owns a handle is said without counting: an  *)
(* owner's handle is open, no two owners have the same, and an open one    *)
(* has an owner.                                                           *)
FileHandle == [path : {"file", "temp"}, write : BOOLEAN, delete : BOOLEAN]

FileRef(x) ==
    \E fl \in SUBSET {"exists", "read", "scoped"}, h \in FileHandles \union {None} :
    \E size, mapping, view :
        x = [flags |-> fl, handle |-> h, size |-> size, mapping |-> mapping, view |-> view]

FileSave(x) ==
    \E st \in {"idle", "writing", "failed", "moved"}, h \in FileHandles \union {None} :
    \E text, pos :
        x = [st |-> st, text |-> text, handle |-> h, pos |-> pos]

FileShape ==
    /\ s2 \in [FileHandles -> FileHandle \union {None}]
    /\ s3 = [r \in FileRefs |-> s3[r]] /\ \A r \in FileRefs : FileRef(s3[r])
    /\ FileSave(s4)

HandlesOwned ==
    /\ \A r \in FileRefs : s3[r].handle # None => s2[s3[r].handle] # None
    /\ s4.handle # None => s2[s4.handle] # None
    /\ \A q, r \in FileRefs : s3[q].handle = s3[r].handle => q = r \/ s3[r].handle = None
    /\ \A r \in FileRefs : s3[r].handle = s4.handle => s4.handle = None
    /\ \A h \in FileHandles : s2[h] # None =>
          s4.handle = h \/ \E r \in FileRefs : s3[r].handle = h

OwnersAgree ==
    /\ \A r \in FileRefs : /\ "scoped" \in s3[r].flags => s3[r].handle # None
                           /\ s3[r].view => s3[r].handle # None
    /\ s4.st = "idle" <=> s4.handle = None

FileInv == FileShape /\ HandlesOwned /\ OwnersAgree

HandlesAreSomething == None \notin FileHandles /\ None \notin FileHandle

LEMMA FileStart == HandlesAreSomething /\ File!Init => FileInv
<1> SUFFICES ASSUME HandlesAreSomething, File!Init PROVE FileInv
  OBVIOUS
<1>1. \A r \in FileRefs : s3[r] = File!NoRef
  BY DEF File!Init
<1>2. FileRef(File!NoRef) /\ File!NoRef.handle = None /\ File!NoRef.flags = {} /\ ~File!NoRef.view
  BY DEF FileRef, File!NoRef
<1>3. FileSave(s4) /\ s4.handle = None /\ s4.st = "idle"
  BY DEF File!Init, FileSave, File!NoSave
<1>4. FileShape
  BY <1>1, <1>2, <1>3 DEF File!Init, FileShape
<1>5. QED
  BY <1>1, <1>2, <1>3, <1>4 DEF File!Init, FileInv, HandlesOwned, OwnersAgree, HandlesAreSomething

(* An owner takes a handle that is free: reference r, or the save.         *)
LEMMA HandleTaken ==
    ASSUME HandlesAreSomething, FileInv, NEW h \in FileHandles, s2[h] = None,
           NEW x \in FileHandle, s2' = [s2 EXCEPT ![h] = x],
           FileShape', OwnersAgree',
           \/ /\ s4.handle = None /\ s4'.handle = h
              /\ \A r \in FileRefs : s3'[r].handle = s3[r].handle
           \/ /\ s4'.handle = s4.handle
              /\ \E r \in FileRefs :
                    /\ s3[r].handle = None /\ s3'[r].handle = h
                    /\ \A q \in FileRefs \ {r} : s3'[q].handle = s3[q].handle
    PROVE  FileInv'
<1>1. \A k \in FileHandles : s2'[k] # None <=> k = h \/ s2[k] # None
  BY DEF FileInv, FileShape, HandlesAreSomething
<1>2. h # None
  BY DEF HandlesAreSomething
<1>3. \A r \in FileRefs : s3[r].handle \in FileHandles \union {None} /\ s3'[r].handle \in FileHandles \union {None}
  BY DEF FileInv, FileShape, FileRef
<1>4. s4.handle \in FileHandles \union {None} /\ s4'.handle \in FileHandles \union {None}
  BY DEF FileInv, FileShape, FileSave
<1>5. /\ \A r \in FileRefs : s3[r].handle # h
      /\ s4.handle # h
  BY <1>2 DEF FileInv, HandlesOwned
<1>6. CASE s4.handle = None /\ s4'.handle = h /\ \A r \in FileRefs : s3'[r].handle = s3[r].handle
  <2>1. /\ \A q \in FileRefs : s3'[q].handle # None => s2'[s3'[q].handle] # None
        /\ s4'.handle # None => s2'[s4'.handle] # None
    BY <1>1, <1>3, <1>4, <1>5, <1>6 DEF FileInv, HandlesOwned
  <2>2. \A q, t \in FileRefs : s3'[q].handle = s3'[t].handle => q = t \/ s3'[t].handle = None
    BY <1>6 DEF FileInv, HandlesOwned
  <2>3. \A q \in FileRefs : s3'[q].handle = s4'.handle => s4'.handle = None
    BY <1>5, <1>6
  <2>4. \A k \in FileHandles : s2'[k] # None =>
            s4'.handle = k \/ \E q \in FileRefs : s3'[q].handle = k
    <3> SUFFICES ASSUME NEW k \in FileHandles, s2'[k] # None, k # h
                 PROVE  \E q \in FileRefs : s3'[q].handle = k
      BY <1>6
    <3>1. PICK q \in FileRefs : s3[q].handle = k
      BY <1>1, <1>6 DEF FileInv, HandlesOwned, HandlesAreSomething
    <3>2. QED
      BY <1>6, <3>1
  <2>5. QED
    BY <2>1, <2>2, <2>3, <2>4 DEF FileInv, HandlesOwned
<1>7. ASSUME s4'.handle = s4.handle, NEW r \in FileRefs, s3[r].handle = None, s3'[r].handle = h,
             \A q \in FileRefs \ {r} : s3'[q].handle = s3[q].handle
      PROVE  FileInv'
  <2>1. /\ \A q \in FileRefs : s3'[q].handle # None => s2'[s3'[q].handle] # None
        /\ s4'.handle # None => s2'[s4'.handle] # None
    BY <1>1, <1>3, <1>4, <1>5, <1>7 DEF FileInv, HandlesOwned
  <2>2. \A q, t \in FileRefs : s3'[q].handle = s3'[t].handle => q = t \/ s3'[t].handle = None
    BY <1>2, <1>5, <1>7 DEF FileInv, HandlesOwned
  <2>3. \A q \in FileRefs : s3'[q].handle = s4'.handle => s4'.handle = None
    BY <1>2, <1>5, <1>7 DEF FileInv, HandlesOwned
  <2>4. \A k \in FileHandles : s2'[k] # None =>
            s4'.handle = k \/ \E q \in FileRefs : s3'[q].handle = k
    <3> SUFFICES ASSUME NEW k \in FileHandles, s2'[k] # None, k # h, s4.handle # k
                 PROVE  \E q \in FileRefs : s3'[q].handle = k
      BY <1>7
    <3>1. PICK q \in FileRefs : s3[q].handle = k
      BY <1>1 DEF FileInv, HandlesOwned
    <3>2. q # r
      BY <1>7, <3>1 DEF HandlesAreSomething
    <3>3. QED
      BY <1>7, <3>1, <3>2
  <2>5. QED
    BY <2>1, <2>2, <2>3, <2>4 DEF FileInv, HandlesOwned
<1>8. QED
  BY <1>6, <1>7

(* An owner gives its handle back.                                         *)
LEMMA HandleGiven ==
    ASSUME HandlesAreSomething, FileInv, NEW h \in FileHandles,
           s2' = [s2 EXCEPT ![h] = None],
           FileShape', OwnersAgree',
           \/ /\ s4.handle = h /\ s4'.handle = None
              /\ \A r \in FileRefs : s3'[r].handle = s3[r].handle
           \/ /\ s4'.handle = s4.handle
              /\ \E r \in FileRefs :
                    /\ s3[r].handle = h /\ s3'[r].handle = None
                    /\ \A q \in FileRefs \ {r} : s3'[q].handle = s3[q].handle
    PROVE  FileInv'
<1>1. \A k \in FileHandles : s2'[k] # None <=> k # h /\ s2[k] # None
  BY DEF FileInv, FileShape, HandlesAreSomething
<1>2. h # None
  BY DEF HandlesAreSomething
<1>3. \A r \in FileRefs : s3[r].handle \in FileHandles \union {None} /\ s3'[r].handle \in FileHandles \union {None}
  BY DEF FileInv, FileShape, FileRef
<1>4. s4.handle \in FileHandles \union {None} /\ s4'.handle \in FileHandles \union {None}
  BY DEF FileInv, FileShape, FileSave
<1>5. HandlesOwned'
  BY <1>1, <1>2, <1>3, <1>4 DEF FileInv, HandlesOwned
<1>6. QED
  BY <1>5 DEF FileInv

LEMMA RefMade ==
    ASSUME NEW fl \in SUBSET {"exists", "read", "scoped"}, NEW h \in FileHandles \union {None},
           NEW size, NEW mapping, NEW view
    PROVE  FileRef([flags |-> fl, handle |-> h, size |-> size, mapping |-> mapping, view |-> view])
  BY DEF FileRef

(* What a reference is after it has been given a whole new value.          *)
LEMMA RefReplaced ==
    ASSUME FileInv, NEW r \in FileRefs, NEW x, FileRef(x), s3' = [s3 EXCEPT ![r] = x]
    PROVE  /\ \A q \in FileRefs \ {r} : s3'[q] = s3[q]
           /\ s3'[r] = x
           /\ s3' = [q \in FileRefs |-> s3'[q]] /\ \A q \in FileRefs : FileRef(s3'[q])
  BY DEF FileInv, FileShape

LEMMA OpenKeeps ==
    ASSUME HandlesAreSomething, FileInv, NEW r \in FileRefs,
           NEW f \in {{"exists", "read", "scoped"}, {"exists"}}, File!OpenFile(r, f)
    PROVE  FileInv'
<1> DEFINE flags == f \union s3[r].flags
<1>1. PICK h \in FileHandles :
          /\ s2[h] = None
          /\ s2' = [s2 EXCEPT ![h] = File!Handle("file", flags)]
          /\ s3' = [s3 EXCEPT ![r].flags = flags, ![r].handle = h]
  BY DEF File!OpenFile, File!Open
<1>2. s3[r].handle = None /\ s4' = s4
  BY DEF File!OpenFile
<1>3. File!Handle("file", flags) \in FileHandle /\ flags \subseteq {"exists", "read", "scoped"}
  <2>1. s3[r].flags \subseteq {"exists", "read", "scoped"}
    BY DEF FileInv, FileShape, FileRef
  <2>2. QED
    BY <2>1 DEF File!Handle, FileHandle
<1> HIDE DEF flags
<1> DEFINE x == [s3[r] EXCEPT !.flags = flags, !.handle = h]
<1>4. /\ \A q \in FileRefs \ {r} : s3'[q] = s3[q]
      /\ s3'[r].handle = h /\ s3'[r].view = s3[r].view /\ FileRef(s3'[r])
      /\ s3' = [q \in FileRefs |-> s3'[q]]
  <2>1. FileRef(x) /\ x.handle = h /\ x.view = s3[r].view
    <3>1. PICK fl, g, size, mapping, view :
              s3[r] = [flags |-> fl, handle |-> g, size |-> size, mapping |-> mapping, view |-> view]
      BY DEF FileInv, FileShape, FileRef
    <3>2. x = [flags |-> flags, handle |-> h, size |-> size, mapping |-> mapping, view |-> view]
      <4> DEFINE y == [s3[r] EXCEPT !.flags = flags]
      <4>1. y = [flags |-> flags, handle |-> g, size |-> size, mapping |-> mapping, view |-> view]
        BY <3>1
      <4>2. x = [y EXCEPT !.handle = h]
        OBVIOUS
      <4> HIDE DEF x, y
      <4>3. QED
        BY <4>1, <4>2
    <3>3. FileRef(x)
      BY <1>3, <3>2, RefMade
    <3>4. QED
      BY <3>1, <3>2, <3>3
  <2>2. s3' = [s3 EXCEPT ![r] = x]
    BY <1>1 DEF FileInv, FileShape
  <2> HIDE DEF x
  <2>3. QED
    BY <2>1, <2>2, RefReplaced
<1>5. FileShape'
  BY <1>1, <1>2, <1>3, <1>4 DEF FileInv, FileShape
<1>6. OwnersAgree'
  BY <1>1, <1>2, <1>4 DEF FileInv, OwnersAgree, HandlesAreSomething
<1>7. QED
  BY <1>1, <1>2, <1>3, <1>4, <1>5, <1>6, HandleTaken

LEMMA NoRefIsFree ==
    FileRef(File!NoRef) /\ File!NoRef.handle = None /\ File!NoRef.flags = {} /\ ~File!NoRef.view
  BY DEF FileRef, File!NoRef

LEMMA MapKeeps ==
    ASSUME HandlesAreSomething, FileInv, NEW r \in FileRefs,
           NEW f \in {{"exists", "read", "scoped"}, {"exists"}}, File!MapFile(r, f)
    PROVE  FileInv'
<1> DEFINE flags == f \union s3[r].flags
           text == File!OpenMode("file", flags).text
<1> DEFINE Mapped(h) == [flags |-> flags, handle |-> h, size |-> Len(text),
                         mapping |-> TRUE, view |-> TRUE]
<1>1. PICK h \in FileHandles :
          /\ s2[h] = None
          /\ \/ /\ s2' = [s2 EXCEPT ![h] = File!Handle("file", flags)]
                /\ s3' = [s3 EXCEPT ![r] = Mapped(h)]
             \/ s3' = [s3 EXCEPT ![r] = File!NoRef] /\ s2' = s2
  BY DEF File!MapFile, File!Open
<1>2. s3[r].handle = None /\ s4' = s4
  BY DEF File!MapFile
<1>3. File!Handle("file", flags) \in FileHandle /\ flags \subseteq {"exists", "read", "scoped"}
  <2>1. s3[r].flags \subseteq {"exists", "read", "scoped"}
    BY DEF FileInv, FileShape, FileRef
  <2>2. QED
    BY <2>1 DEF File!Handle, FileHandle
<1>4. FileRef(Mapped(h)) /\ Mapped(h).handle = h
  BY <1>3 DEF FileRef
<1> HIDE DEF Mapped
<1>5. CASE s2' = [s2 EXCEPT ![h] = File!Handle("file", flags)] /\ s3' = [s3 EXCEPT ![r] = Mapped(h)]
  <2>1. /\ \A q \in FileRefs \ {r} : s3'[q] = s3[q]
        /\ s3'[r].handle = h
        /\ s3' = [q \in FileRefs |-> s3'[q]] /\ \A q \in FileRefs : FileRef(s3'[q])
    BY <1>4, <1>5, RefReplaced
  <2>2. FileShape'
    BY <1>2, <1>3, <1>5, <2>1 DEF FileInv, FileShape
  <2>3. OwnersAgree'
    BY <1>2, <2>1 DEF FileInv, OwnersAgree, HandlesAreSomething
  <2>4. QED
    BY <1>1, <1>2, <1>3, <1>5, <2>1, <2>2, <2>3, HandleTaken
<1>6. CASE s3' = [s3 EXCEPT ![r] = File!NoRef] /\ s2' = s2
  <2>1. /\ \A q \in FileRefs \ {r} : s3'[q] = s3[q]
        /\ s3'[r] = File!NoRef
        /\ s3' = [q \in FileRefs |-> s3'[q]] /\ \A q \in FileRefs : FileRef(s3'[q])
    BY <1>6, NoRefIsFree, RefReplaced
  <2>2. QED
    BY <1>2, <1>6, <2>1, NoRefIsFree DEF FileInv, FileShape, HandlesOwned, OwnersAgree
<1>7. QED
  BY <1>1, <1>5, <1>6

(* A reference that has a handle gives it back and keeps no view.          *)
LEMMA RefGivesBack ==
    ASSUME HandlesAreSomething, FileInv, NEW r \in FileRefs, s3[r].handle # None,
           NEW x, FileRef(x), x.handle = None, "scoped" \notin x.flags, ~x.view,
           s2' = [s2 EXCEPT ![s3[r].handle] = None], s3' = [s3 EXCEPT ![r] = x], s4' = s4
    PROVE  FileInv'
<1>1. s3[r].handle \in FileHandles
  BY DEF FileInv, FileShape, FileRef
<1>2. /\ \A q \in FileRefs \ {r} : s3'[q] = s3[q]
      /\ s3'[r] = x
      /\ s3' = [q \in FileRefs |-> s3'[q]] /\ \A q \in FileRefs : FileRef(s3'[q])
  BY RefReplaced
<1>3. FileShape'
  BY <1>2 DEF FileInv, FileShape
<1>4. OwnersAgree'
  BY <1>2 DEF FileInv, OwnersAgree
<1>5. QED
  BY <1>1, <1>2, <1>3, <1>4, HandleGiven

LEMMA RefActionsKeep ==
    ASSUME HandlesAreSomething, FileInv, NEW r \in FileRefs,
           File!UnmapFile(r) \/ File!CloseFile(r) \/ File!EndOfScope(r)
    PROVE  FileInv'
<1>1. CASE File!UnmapFile(r)
  BY <1>1, NoRefIsFree, RefGivesBack DEF File!UnmapFile, FileInv, OwnersAgree
<1>2. CASE File!CloseFile(r)
  <2>1. PICK fl \in SUBSET {"exists", "read", "scoped"}, h \in FileHandles \union {None} :
          \E size, mapping, view :
            s3[r] = [flags |-> fl, handle |-> h, size |-> size, mapping |-> mapping,
                     view |-> view]
    BY DEF FileInv, FileShape, FileRef
  <2> PICK size, mapping, view :
          s3[r] = [flags |-> fl, handle |-> h, size |-> size, mapping |-> mapping,
                   view |-> view]
    BY <2>1
  <2> DEFINE x == [s3[r] EXCEPT !.handle = None]
  <2>2. x = [flags |-> fl, handle |-> None, size |-> size, mapping |-> mapping, view |-> view]
    OBVIOUS
  <2>3. FileRef(x)
    BY <2>1, <2>2, RefMade
  <2>4. x.handle = None /\ x.flags = s3[r].flags /\ x.view = s3[r].view
    BY <2>2
  <2>5. s3' = [s3 EXCEPT ![r] = x]
    BY <1>2 DEF File!CloseFile
  <2> HIDE DEF x
  <2>6. QED
    BY <1>2, <2>3, <2>4, <2>5, RefGivesBack DEF File!CloseFile
<1>3. CASE File!EndOfScope(r)
  <2>1. CASE "scoped" \in s3[r].flags
    BY <1>3, <2>1, NoRefIsFree, RefGivesBack DEF File!EndOfScope, FileInv, OwnersAgree
  <2>2. CASE "scoped" \notin s3[r].flags
    <3>1. s3[r].handle = None /\ s2' = s2 /\ s3' = [s3 EXCEPT ![r] = File!NoRef] /\ s4' = s4
      BY <1>3, <2>2 DEF File!EndOfScope
    <3>2. /\ \A q \in FileRefs \ {r} : s3'[q] = s3[q]
          /\ s3'[r] = File!NoRef
          /\ s3' = [q \in FileRefs |-> s3'[q]] /\ \A q \in FileRefs : FileRef(s3'[q])
      BY <3>1, NoRefIsFree, RefReplaced
    <3>3. QED
      BY <3>1, <3>2, NoRefIsFree DEF FileInv, FileShape, HandlesOwned, OwnersAgree
  <2>3. QED
    BY <2>1, <2>2
<1>4. QED
  BY <1>1, <1>2, <1>3

LEMMA SaveActionsKeep ==
    ASSUME HandlesAreSomething, FileInv,
           \/ File!SaveBegin(<<2, 2>>) \/ File!SaveWrite \/ File!SaveWriteFails
           \/ File!SaveMove \/ File!SaveEnd
    PROVE  FileInv'
<1>1. CASE File!SaveBegin(<<2, 2>>)
  <2>1. PICK h \in FileHandles :
            /\ s2[h] = None
            /\ s2' = [s2 EXCEPT ![h] = File!Handle("temp", File!SaveFlags)]
            /\ s4' = [st |-> "writing", text |-> <<2, 2>>, handle |-> h, pos |-> 0]
    BY <1>1 DEF File!SaveBegin, File!Open
  <2>2. s3' = s3 /\ s4.handle = None
    BY <1>1 DEF File!SaveBegin, FileInv, OwnersAgree
  <2>3. File!Handle("temp", File!SaveFlags) \in FileHandle
    BY DEF File!Handle, FileHandle
  <2>4. FileSave(s4') /\ s4'.handle = h /\ s4'.st = "writing"
    BY <2>1 DEF FileSave
  <2>5. FileShape'
    BY <2>1, <2>2, <2>3, <2>4 DEF FileInv, FileShape
  <2>6. OwnersAgree'
    BY <2>2, <2>4 DEF FileInv, OwnersAgree, HandlesAreSomething
  <2>7. QED
    BY <2>1, <2>2, <2>3, <2>4, <2>5, <2>6, HandleTaken
<1>2. CASE File!SaveWrite \/ File!SaveWriteFails \/ File!SaveMove
  <2>1. s2' = s2 /\ s3' = s3 /\ s4.st = "writing"
    BY <1>2 DEF File!SaveWrite, File!SaveWriteFails, File!SaveMove
  <2>2. FileSave(s4') /\ s4'.handle = s4.handle /\ s4'.st \in {"writing", "failed", "moved"}
    <3>1. \/ \E n : s4' = [s4 EXCEPT !.pos = n]
          \/ s4' = [s4 EXCEPT !.st = "failed"] \/ s4' = [s4 EXCEPT !.st = "moved"]
      BY <1>2 DEF File!SaveWrite, File!SaveWriteFails, File!SaveMove
    <3>2. FileSave(s4)
      BY DEF FileInv, FileShape
    <3>3. QED
      BY <2>1, <3>1, <3>2 DEF FileSave
  <2>3. QED
    BY <2>1, <2>2 DEF FileInv, FileShape, HandlesOwned, OwnersAgree
<1>3. CASE File!SaveEnd
  <2>1. s4.handle \in FileHandles /\ s2' = [s2 EXCEPT ![s4.handle] = None] /\ s3' = s3
    BY <1>3 DEF File!SaveEnd, FileInv, OwnersAgree, FileShape, FileSave
  <2>2. FileSave(s4') /\ s4'.handle = None /\ s4'.st = "idle"
    BY <1>3 DEF File!SaveEnd, File!NoSave, FileSave
  <2>3. FileShape'
    BY <2>1, <2>2 DEF FileInv, FileShape
  <2>4. OwnersAgree'
    BY <2>1, <2>2 DEF FileInv, OwnersAgree
  <2>5. QED
    BY <2>1, <2>2, <2>3, <2>4, HandleGiven
<1>4. QED
  BY <1>1, <1>2, <1>3

LEMMA FileKeeps == HandlesAreSomething /\ FileInv /\ File!Next => FileInv'
<1> SUFFICES ASSUME HandlesAreSomething, FileInv, File!Next PROVE FileInv'
  OBVIOUS
<1>1. CASE File!ProcessEnds \/ File!PowerLoss
  <2>1. /\ s2' = [h \in FileHandles |-> None] /\ s3' = [r \in FileRefs |-> File!NoRef]
        /\ s4' = File!NoSave
    BY <1>1 DEF File!ProcessEnds, File!PowerLoss
  <2>2. FileSave(s4') /\ s4'.handle = None /\ s4'.st = "idle"
    BY <2>1 DEF File!NoSave, FileSave
  <2>3. QED
    BY <2>1, <2>2, NoRefIsFree DEF FileInv, FileShape, HandlesOwned, OwnersAgree
<1>2. QED
  BY <1>1, OpenKeeps, MapKeeps, RefActionsKeep, SaveActionsKeep DEF File!Next

LEMMA FileHolds == HandlesAreSomething /\ FileInv => File!HandlesHaveOneOwner
<1> SUFFICES ASSUME HandlesAreSomething, FileInv PROVE File!HandlesHaveOneOwner
  OBVIOUS
<1>1. ASSUME NEW h \in File!Open
      PROVE  Cardinality({r \in FileRefs : s3[r].handle = h})
                + (IF s4.handle = h THEN 1 ELSE 0) = 1
  <2>1. h \in FileHandles /\ s2[h] # None /\ h # None
    BY <1>1 DEF File!Open, HandlesAreSomething
  <2>2. CASE s4.handle = h
    <3>1. {r \in FileRefs : s3[r].handle = h} = {}
      BY <2>1, <2>2 DEF FileInv, HandlesOwned
    <3>2. Cardinality({r \in FileRefs : s3[r].handle = h}) = 0
      BY <3>1, FS_EmptySet
    <3>3. QED
      BY <2>2, <3>2
  <2>3. CASE s4.handle # h
    <3>1. PICK r \in FileRefs : s3[r].handle = h
      BY <2>1, <2>3 DEF FileInv, HandlesOwned
    <3>2. {q \in FileRefs : s3[q].handle = h} = {r}
      BY <2>1, <3>1 DEF FileInv, HandlesOwned
    <3>3. Cardinality({q \in FileRefs : s3[q].handle = h}) = 1
      BY <3>2, FS_Singleton
    <3>4. QED
      BY <2>3, <3>3
  <2>4. QED
    BY <2>2, <2>3
<1>2. \A r \in FileRefs : s3[r].handle # None => s3[r].handle \in File!Open
  <2>1. \A r \in FileRefs : s3[r].handle \in FileHandles \union {None}
    BY DEF FileInv, FileShape, FileRef
  <2>2. QED
    BY <2>1 DEF FileInv, HandlesOwned, File!Open
<1>3. \A r \in FileRefs : "scoped" \in s3[r].flags => s3[r].handle # None
  BY DEF FileInv, OwnersAgree
<1>4. QED
  BY <1>1, <1>2, <1>3, Zenon DEF File!HandlesHaveOneOwner, File!Cardinality, Cardinality

-----------------------------------------------------------------------------
(* Processes: s1 is the watch and s2 the directories.  The callback frees  *)
(* the watch data and so runs once.                                        *)
Watch == [run : {"none", "running", "exited"}, data : {"none", "live", "freed"},
          wait : {"none", "registered", "refused", "stored", "leaked", "lost", "closed"},
          calls : Nat, process : {"none", "open", "closed"}]

WatchInv ==
    /\ s1 \in Watch
    /\ \/ s1.calls = 0 /\ s1.data # "freed"
       \/ s1.calls = 1 /\ s1.data = "freed" /\ s1.run = "exited" /\ s1.process = "closed"
    /\ s1.run = "none" => s1.data = "none" /\ s1.wait = "none"
    /\ s1.wait = "registered" => s1.data = "live"
    /\ s1.data = "live" => s1.wait \notin {"leaked", "lost", "closed"}

(* A part of the path below another has a directory above it.              *)
TreeInv ==
    /\ s2.at \in [1 .. 2 -> {None, "dir", "file"}]
    /\ s2.at[2] # None => s2.at[1] = "dir"
    /\ s2.answer \in BOOLEAN \union {None}
    /\ Process!PathIsMade

NoneIsNoAnswer == None \notin BOOLEAN \union {"dir", "file"}

LEMMA ProcessStart == NoneIsNoAnswer /\ Process!Init => WatchInv /\ TreeInv
<1> SUFFICES ASSUME NoneIsNoAnswer, Process!Init PROVE WatchInv /\ TreeInv
  OBVIOUS
<1>1. WatchInv
  BY DEF Process!Init, Process!NoWatch, WatchInv, Watch
<1>2. PICK at \in [1 .. 2 -> {None, "dir", "file"}] :
          (at[2] # None => at[1] = "dir") /\ s2 = [at |-> at, answer |-> None]
  BY DEF Process!Init
<1>3. TreeInv
  BY <1>2 DEF TreeInv, Process!PathIsMade, NoneIsNoAnswer
<1>4. QED
  BY <1>1, <1>3

LEMMA WatchKept == WatchInv /\ Process!Next => WatchInv'
<1> SUFFICES ASSUME WatchInv, Process!Next PROVE WatchInv'
  OBVIOUS
<1>1. ASSUME NEW callback \in BOOLEAN, Process!RunProcess(callback) PROVE WatchInv'
  <2>1. \E d \in {"none", "live"} :
            s1' = [s1 EXCEPT !.run = "running", !.process = "open", !.data = d]
    BY <1>1 DEF Process!RunProcess
  <2>2. /\ s1' \in Watch /\ s1'.run = "running" /\ s1'.data \in {"none", "live"}
        /\ s1'.wait = s1.wait /\ s1'.calls = s1.calls
    BY <2>1 DEF WatchInv, Watch
  <2>3. s1.run = "none"
    BY <1>1 DEF Process!RunProcess
  <2>4. QED
    BY <2>2, <2>3 DEF WatchInv
<1>2. CASE Process!RegisterWait
  BY <1>2 DEF Process!RegisterWait, WatchInv, Watch
<1>3. CASE Process!StoreWait
  <2>1. s1' = [s1 EXCEPT !.wait = IF s1.wait = "registered" THEN "stored" ELSE "lost"]
    BY <1>3 DEF Process!StoreWait
  <2>2. /\ s1' \in Watch /\ s1'.run = s1.run /\ s1'.data = s1.data /\ s1'.calls = s1.calls
        /\ s1'.process = s1.process
        /\ s1'.wait = IF s1.wait = "registered" THEN "stored" ELSE "lost"
    BY <2>1 DEF WatchInv, Watch
  <2>3. s1.wait \in {"registered", "leaked"}
    BY <1>3 DEF Process!StoreWait
  <2>4. QED
    BY <2>2, <2>3 DEF WatchInv
<1>4. CASE Process!ProcessExits
  BY <1>4 DEF Process!ProcessExits, WatchInv, Watch
<1>5. CASE Process!ExitCallback
  <2> DEFINE w == IF s1.wait = "stored" THEN "closed" ELSE "leaked"
  <2>1. s1' = [s1 EXCEPT !.wait = w, !.process = "closed", !.calls = s1.calls + 1,
                         !.data = "freed"]
    BY <1>5 DEF Process!ExitCallback
  <2>2. w \in {"closed", "leaked"} /\ s1.calls + 1 \in Nat
    BY DEF WatchInv, Watch
  <2> HIDE DEF w
  <2>3. /\ s1' \in Watch /\ s1'.run = s1.run /\ s1'.data = "freed"
        /\ s1'.calls = s1.calls + 1 /\ s1'.process = "closed"
        /\ s1'.wait = w
    BY <2>1, <2>2 DEF WatchInv, Watch
  <2>4. QED
    BY <1>5, <2>2, <2>3 DEF Process!ExitCallback, WatchInv
<1>6. CASE Process!WaitForProcess
  BY <1>6 DEF Process!WaitForProcess, WatchInv, Watch
<1>7. CASE Process!EnsureDirectoriesExist
  <2>1. s1' = s1
    BY <1>7 DEF Process!EnsureDirectoriesExist
  <2>2. QED
    BY <2>1 DEF WatchInv
<1>8. QED
  BY <1>1, <1>2, <1>3, <1>4, <1>5, <1>6, <1>7 DEF Process!Next

(* What is at the path after its first n parts were asked for.             *)
LEMMA PartMade ==
    ASSUME NEW at \in [1 .. 2 -> {None, "dir", "file"}], at[2] # None => at[1] = "dir",
           NEW n \in 1 .. 2, NEW m \in Process!Make(at, n), NoneIsNoAnswer
    PROVE  /\ m.at \in [1 .. 2 -> {None, "dir", "file"}] /\ m.ok \in BOOLEAN
           /\ m.at[2] # None => m.at[1] = "dir"
           /\ m.ok => m.at[n] # None
<1>1. \/ m = [at |-> at, ok |-> TRUE] /\ at[n] # None
      \/ m = [at |-> at, ok |-> FALSE]
      \/ m = [at |-> [at EXCEPT ![n] = "dir"], ok |-> TRUE] /\ (n > 1 => at[n - 1] = "dir")
  <2>1. CASE at[n] # None
    BY <2>1 DEF Process!Make
  <2>2. CASE at[n] = None /\ n > 1 /\ at[n - 1] # "dir"
    BY <2>2 DEF Process!Make
  <2>3. CASE at[n] = None /\ ~(n > 1 /\ at[n - 1] # "dir")
    BY <2>3 DEF Process!Make
  <2>4. QED
    BY <2>1, <2>2, <2>3
<1>2. CASE m = [at |-> at, ok |-> TRUE] /\ at[n] # None
  <2>1. m.at = at /\ m.ok = TRUE
    BY <1>2
  <2>2. QED
    BY <1>2, <2>1, Zenon
<1>3. CASE m = [at |-> at, ok |-> FALSE]
  <2>1. m.at = at /\ m.ok = FALSE
    BY <1>3
  <2>2. QED
    BY <2>1, Zenon
<1>4. CASE m = [at |-> [at EXCEPT ![n] = "dir"], ok |-> TRUE] /\ (n > 1 => at[n - 1] = "dir")
  <2>1. m.at = [at EXCEPT ![n] = "dir"] /\ m.ok = TRUE
    BY <1>4
  <2>2. n = 1 \/ n = 2
    OBVIOUS
  <2>3. n = 2 => at[1] = "dir"
    BY <1>4
  <2>4. /\ m.at \in [1 .. 2 -> {None, "dir", "file"}] /\ m.at[n] = "dir"
        /\ m.at[2] # None => m.at[1] = "dir"
    BY <2>1, <2>2, <2>3
  <2>5. QED
    BY <2>1, <2>4, Zenon DEF NoneIsNoAnswer
<1>5. QED
  BY <1>1, <1>2, <1>3, <1>4

LEMMA TreeKept == NoneIsNoAnswer /\ TreeInv /\ Process!Next => TreeInv'
<1> SUFFICES ASSUME NoneIsNoAnswer, TreeInv, Process!Next PROVE TreeInv'
  OBVIOUS
<1>1. CASE UNCHANGED s2
  BY <1>1 DEF TreeInv, Process!PathIsMade
<1>2. CASE Process!EnsureDirectoriesExist
  <2>1. PICK first \in Process!Make(s2.at, 1) :
            IF ~first.ok THEN s2' = [at |-> first.at, answer |-> FALSE]
            ELSE \E last \in Process!Make(first.at, 2) :
                    s2' = [at |-> last.at, answer |-> last.ok]
    BY <1>2 DEF Process!EnsureDirectoriesExist
  <2>2. /\ first.at \in [1 .. 2 -> {None, "dir", "file"}] /\ first.ok \in BOOLEAN
        /\ first.at[2] # None => first.at[1] = "dir"
    BY PartMade DEF TreeInv
  <2>3. CASE ~first.ok
    <3>1. s2'.at = first.at /\ s2'.answer = FALSE
      BY <2>1, <2>3
    <3>2. QED
      BY <2>2, <3>1 DEF TreeInv, Process!PathIsMade
  <2>4. CASE first.ok
    <3>1. PICK last \in Process!Make(first.at, 2) : s2' = [at |-> last.at, answer |-> last.ok]
      BY <2>1, <2>4
    <3>2. /\ last.at \in [1 .. 2 -> {None, "dir", "file"}] /\ last.ok \in BOOLEAN
          /\ last.at[2] # None => last.at[1] = "dir"
          /\ last.ok => last.at[2] # None
      BY <2>2, PartMade
    <3>3. QED
      BY <3>1, <3>2 DEF TreeInv, Process!PathIsMade
  <2>5. QED
    BY <2>2, <2>3, <2>4
<1>3. QED
  BY <1>1, <1>2 DEF Process!Next, Process!RunProcess, Process!RegisterWait, Process!StoreWait,
     Process!ProcessExits, Process!ExitCallback, Process!WaitForProcess

LEMMA ProcessHolds == WatchInv => Process!ExitIsToldOnce
  BY DEF WatchInv, Watch, Process!ExitIsToldOnce

-----------------------------------------------------------------------------
(* Scene files: s1 is the file, s2 the load, s3 the scene, s4 the entities  *)
(* and s5 the meshes.  A mesh that is made is newer than every mesh an      *)
(* entity has.                                                             *)
Nodes == Seq({"mesh", "empty", "bad"})
SceneRef == [id : Int, handle : Nat]
Entity == [node : Nat, mesh : Nat, flags : SUBSET {"HIDDEN", "DISABLED"}]

SceneDisk(x) ==
    \E ids \in Seq(Int) : \E gltf, shown :
        x = [ids |-> ids, gltf |-> gltf, shown |-> shown]

WorldShape ==
    /\ SceneDisk(s1)
    /\ s2 \in [stage : {"none", "import"}, nodes : Nodes, list : Seq(SceneRef), count : Nat]
    /\ s2.stage = "import" => Len(s1.ids) <= Len(s2.list)
    /\ s3 \in [list : Seq(SceneRef), nodes : Nodes, state : {"none", "loaded", "changed"}]
    /\ s4 \in Seq(Entity)
    /\ s5 \in [live : SUBSET Nat, made : Nat]

(* Which entity has a mesh, without counting.                              *)
MeshesOwned ==
    /\ \A m \in s5.live : m \in 1 .. s5.made
    /\ \A m \in s5.live : \E e \in DOMAIN s4 : s4[e].mesh = m
    /\ \A e \in DOMAIN s4 : s4[e].mesh \in s5.live \union {0}
    /\ \A d, e \in DOMAIN s4 : s4[d].mesh = s4[e].mesh => d = e \/ s4[e].mesh = 0

WorldInv == WorldShape /\ MeshesOwned

(* The elements of a sequence.                                             *)
LEMMA InSequence ==
    ASSUME NEW S, NEW s \in Seq(S)
    PROVE  DOMAIN s = 1 .. Len(s) /\ Len(s) \in Nat /\ \A i \in DOMAIN s : s[i] \in S
  OBVIOUS

LEMMA WorldStart == World!Init => WorldInv
<1> SUFFICES ASSUME World!Init PROVE WorldInv
  OBVIOUS
<1>1. SceneDisk(s1)
  <2>1. PICK gltf \in BOOLEAN : s1 = [ids |-> <<>>, gltf |-> gltf, shown |-> None]
    BY DEF World!Init
  <2>2. <<>> \in Seq(Int)
    OBVIOUS
  <2>3. QED
    BY <2>1, <2>2, Zenon DEF SceneDisk
<1>2. /\ s2 \in [stage : {"none", "import"}, nodes : Nodes, list : Seq(SceneRef), count : Nat]
      /\ s2.stage = "none"
  BY DEF World!Init, Nodes
<1>3. s3 \in [list : Seq(SceneRef), nodes : Nodes, state : {"none", "loaded", "changed"}]
  BY DEF World!Init, World!NoScene, Nodes
<1>4. s4 = <<>> /\ s5 = [live |-> {}, made |-> 0]
  BY DEF World!Init
<1>5. QED
  BY <1>1, <1>2, <1>3, <1>4 DEF WorldInv, WorldShape, MeshesOwned

(* A step that makes no entity and no mesh.                                *)
LEMMA MeshesStay ==
    ASSUME MeshesOwned, s5' = s5, s4 \in Seq(Entity), s4' \in Seq(Entity),
           Len(s4') = Len(s4), \A e \in DOMAIN s4 : s4'[e].mesh = s4[e].mesh
    PROVE  MeshesOwned'
<1>1. DOMAIN s4' = DOMAIN s4
  BY InSequence
<1>2. \A e \in DOMAIN s4' : s4'[e].mesh = s4[e].mesh
  BY <1>1
<1>3. \A m \in s5'.live : \E e \in DOMAIN s4' : s4'[e].mesh = m
  BY <1>1, <1>2 DEF MeshesOwned
<1>4. QED
  BY <1>1, <1>2, <1>3 DEF MeshesOwned

LEMMA ReloadKeeps == WorldInv /\ World!Reload => WorldInv'
<1> SUFFICES ASSUME WorldInv, World!Reload PROVE WorldInv'
  OBVIOUS
<1> DEFINE list == [i \in DOMAIN s1.ids |-> World!Ref(s1.ids[i], 0)]
<1>1. /\ s1' = s1 /\ s4' = s4 /\ s5' = s5 /\ s3' = World!NoScene
      /\ \E st \in {"none", "import"},
            g \in {<<>>, <<"mesh">>, <<"empty", "mesh">>, <<"mesh", "bad">>} :
              s2' = [stage |-> st, nodes |-> g, count |-> s2.count + 1, list |-> list]
  BY DEF World!Reload
<1>2. s1.ids \in Seq(Int)
  BY DEF WorldInv, WorldShape, SceneDisk
<1>3. list \in Seq(SceneRef) /\ Len(list) = Len(s1.ids)
  <2>1. DOMAIN s1.ids = 1 .. Len(s1.ids) /\ Len(s1.ids) \in Nat
    BY <1>2
  <2>2. \A i \in DOMAIN s1.ids : World!Ref(s1.ids[i], 0) \in SceneRef
    BY <1>2 DEF World!Ref, SceneRef
  <2>3. QED
    BY <2>1, <2>2
<1> HIDE DEF list
<1>4. s2.count + 1 \in Nat
  BY DEF WorldInv, WorldShape
<1>5. /\ s2' \in [stage : {"none", "import"}, nodes : Nodes, list : Seq(SceneRef), count : Nat]
      /\ s2'.list = list
  <2>1. PICK st \in {"none", "import"},
             g \in {<<>>, <<"mesh">>, <<"empty", "mesh">>, <<"mesh", "bad">>} :
            s2' = [stage |-> st, nodes |-> g, count |-> s2.count + 1, list |-> list]
    BY <1>1
  <2>2. g \in Nodes
    <3>1. <<>> \in Nodes /\ <<"mesh">> \in Nodes
      BY DEF Nodes
    <3>2. <<"empty", "mesh">> \in Nodes
      BY DEF Nodes
    <3>3. <<"mesh", "bad">> \in Nodes
      BY DEF Nodes
    <3>4. QED
      BY <3>1, <3>2, <3>3
  <2>3. QED
    BY <1>3, <1>4, <2>1, <2>2
<1>6. s3' \in [list : Seq(SceneRef), nodes : Nodes, state : {"none", "loaded", "changed"}]
  BY <1>1 DEF World!NoScene, Nodes
<1>7. WorldShape'
  BY <1>1, <1>2, <1>3, <1>5, <1>6 DEF WorldInv, WorldShape
<1>8. MeshesOwned'
  BY <1>1 DEF WorldInv, MeshesOwned
<1>9. QED
  BY <1>7, <1>8 DEF WorldInv

(* A node makes an entity, and its mesh is a new one or none.              *)
LEMMA EntityAdded ==
    ASSUME MeshesOwned, s4 \in Seq(Entity), s5 \in [live : SUBSET Nat, made : Nat],
           NEW x \in Entity, s4' = Append(s4, x), s5' \in [live : SUBSET Nat, made : Nat],
           s5'.made \in {s5.made, s5.made + 1},
           \/ x.mesh = 0 /\ s5'.live = s5.live
           \/ x.mesh = s5.made + 1 /\ s5'.live = s5.live \union {x.mesh} /\ s5'.made = x.mesh
    PROVE  MeshesOwned'
<1>1. /\ Len(s4') = Len(s4) + 1 /\ s4'[Len(s4')] = x
      /\ \A e \in DOMAIN s4 : s4'[e] = s4[e] /\ e \in DOMAIN s4'
      /\ \A e \in DOMAIN s4' : e \in DOMAIN s4 \/ e = Len(s4')
      /\ Len(s4') \in DOMAIN s4' /\ Len(s4') \notin DOMAIN s4
  OBVIOUS
<1>2. s5.made \in Nat /\ s5'.made \in Nat /\ s5.live \subseteq Nat
  OBVIOUS
<1>3. \A e \in DOMAIN s4 : s4[e].mesh # s5.made + 1
  BY <1>2 DEF MeshesOwned
<1>4. \A m \in s5'.live : m \in 1 .. s5'.made
  BY <1>2 DEF MeshesOwned
<1>5. \A m \in s5'.live : \E e \in DOMAIN s4' : s4'[e].mesh = m
  BY <1>1 DEF MeshesOwned
<1>6. \A e \in DOMAIN s4' : s4'[e].mesh \in s5'.live \union {0}
  BY <1>1 DEF MeshesOwned
<1>7. \A d, e \in DOMAIN s4' : s4'[d].mesh = s4'[e].mesh => d = e \/ s4'[e].mesh = 0
  BY <1>1, <1>3 DEF MeshesOwned
<1>8. QED
  BY <1>4, <1>5, <1>6, <1>7 DEF MeshesOwned

LEMMA NextOf ==
    ASSUME NEW a \in Nat, NEW b \in Nat, NEW c \in Nat, a <= b, b - a < c
    PROVE  b - a + 1 \in 1 .. c /\ b - a + 1 \in Nat
  OBVIOUS

LEMMA ImportKeeps == WorldInv /\ World!ImportNode => WorldInv'
<1> SUFFICES ASSUME WorldInv, World!ImportNode PROVE WorldInv'
  OBVIOUS
<1> DEFINE n == Len(s2.list) - Len(s1.ids) + 1
           m == s5.made + 1
           x == [node |-> n, mesh |-> IF s2.nodes[n] = "mesh" THEN m ELSE 0, flags |-> {}]
<1>1. n \in Nat /\ n \in DOMAIN s2.nodes /\ m \in Nat
  <2>1. /\ s1.ids \in Seq(Int) /\ s2.list \in Seq(SceneRef) /\ s2.nodes \in Nodes
        /\ Len(s1.ids) <= Len(s2.list) /\ s5.made \in Nat
    BY DEF WorldInv, WorldShape, SceneDisk, World!ImportNode
  <2>2. Len(s2.list) - Len(s1.ids) < Len(s2.nodes)
    BY DEF World!ImportNode, World!Imported
  <2>3. /\ DOMAIN s2.nodes = 1 .. Len(s2.nodes) /\ Len(s2.nodes) \in Nat
        /\ Len(s1.ids) \in Nat /\ Len(s2.list) \in Nat
    BY <2>1, InSequence DEF Nodes
  <2>4. n \in 1 .. Len(s2.nodes) /\ n \in Nat
    BY <2>1, <2>2, <2>3, NextOf, Zenon
  <2>5. m \in Nat
    BY <2>1
  <2>6. QED
    BY <2>3, <2>4, <2>5, Zenon
<1>2. s2.nodes[n] \in {"mesh", "empty", "bad"}
  <2>1. s2.nodes \in Seq({"mesh", "empty", "bad"})
    BY DEF WorldInv, WorldShape, Nodes
  <2>2. QED
    BY <1>1, <2>1, InSequence
<1>3. /\ s4' = Append(s4, x) /\ s1' = s1 /\ s3' = s3
      /\ s5' = CASE s2.nodes[n] = "empty" -> s5
                 [] s2.nodes[n] = "mesh" -> [live |-> s5.live \union {m}, made |-> m]
                 [] s2.nodes[n] = "bad" -> [s5 EXCEPT !.made = m]
      /\ s2' = IF s2.nodes[n] = "bad" THEN [s2 EXCEPT !.stage = "none"]
               ELSE [s2 EXCEPT !.list = Append(s2.list, World!Ref(Len(s4'), Len(s4')))]
  BY DEF World!ImportNode, World!Imported, World!NewEntity, World!EndLoad
<1>4. x \in Entity /\ x.mesh = IF s2.nodes[n] = "mesh" THEN m ELSE 0
  BY <1>1 DEF Entity
<1> HIDE DEF n, m, x
<1>5. s4' \in Seq(Entity) /\ Len(s4') \in Nat
  BY <1>3, <1>4 DEF WorldInv, WorldShape
<1>6. /\ s5' \in [live : SUBSET Nat, made : Nat]
      /\ s5'.made \in {s5.made, m}
      /\ s5'.live = IF s2.nodes[n] = "mesh" THEN s5.live \union {m} ELSE s5.live
      /\ s2.nodes[n] = "mesh" => s5'.made = m
  BY <1>1, <1>2, <1>3 DEF WorldInv, WorldShape
<1>7. MeshesOwned'
  BY <1>3, <1>4, <1>5, <1>6, EntityAdded DEF WorldInv, WorldShape, m
<1>8. /\ s2' \in [stage : {"none", "import"}, nodes : Nodes, list : Seq(SceneRef), count : Nat]
      /\ s2'.stage = "import" => Len(s1.ids) <= Len(s2'.list)
  <2>1. World!Ref(Len(s4'), Len(s4')) \in SceneRef
    BY <1>5 DEF World!Ref, SceneRef
  <2>2. CASE s2.nodes[n] = "bad"
    BY <1>3, <2>2 DEF WorldInv, WorldShape
  <2>3. CASE s2.nodes[n] # "bad"
    <3> DEFINE l == Append(s2.list, World!Ref(Len(s4'), Len(s4')))
    <3>1. /\ s2.list \in Seq(SceneRef) /\ s1.ids \in Seq(Int)
          /\ Len(s1.ids) <= Len(s2.list)
      BY DEF WorldInv, WorldShape, SceneDisk, World!ImportNode
    <3>2. l \in Seq(SceneRef) /\ Len(s1.ids) <= Len(l)
      BY <2>1, <3>1
    <3>3. s2' = [s2 EXCEPT !.list = l]
      BY <1>3, <2>3
    <3> HIDE DEF l
    <3>4. QED
      BY <3>2, <3>3 DEF WorldInv, WorldShape
  <2>4. QED
    BY <2>2, <2>3
<1>9. QED
  BY <1>3, <1>5, <1>6, <1>7, <1>8 DEF WorldInv, WorldShape

LEMMA WorldKeeps == WorldInv /\ World!Next => WorldInv'
<1> SUFFICES ASSUME WorldInv, World!Next PROVE WorldInv'
  OBVIOUS
<1>1. CASE World!InitializeRuntime
  <2>1. /\ s1' = s1 /\ s4' = s4 /\ s5' = s5
        /\ s2' = [s2 EXCEPT !.stage = "none"]
        /\ \/ s3' = s3
           \/ s3' = [list |-> s2.list, nodes |-> s2.nodes, state |-> "loaded"]
    BY <1>1 DEF World!InitializeRuntime, World!EndLoad
  <2>2. /\ s2' \in [stage : {"none", "import"}, nodes : Nodes, list : Seq(SceneRef), count : Nat]
        /\ s2'.stage = "none"
        /\ s3' \in [list : Seq(SceneRef), nodes : Nodes, state : {"none", "loaded", "changed"}]
    <3>1. /\ s2 \in [stage : {"none", "import"}, nodes : Nodes, list : Seq(SceneRef), count : Nat]
          /\ s3 \in [list : Seq(SceneRef), nodes : Nodes, state : {"none", "loaded", "changed"}]
      BY DEF WorldInv, WorldShape
    <3>2. s2.list \in Seq(SceneRef) /\ s2.nodes \in Nodes
      BY <3>1
    <3>3. QED
      BY <2>1, <3>1, <3>2
  <2>3. QED
    BY <2>1, <2>2 DEF WorldInv, WorldShape, MeshesOwned
<1>2. CASE World!Save
  <2> DEFINE ids == [i \in DOMAIN s3.list |-> s3.list[i].id]
  <2>1. /\ s2' = s2 /\ s4' = s4 /\ s5' = s5 /\ s2.stage = "none"
        /\ s3' = [s3 EXCEPT !.state = "changed"]
        /\ \/ \E shown : s1' = [s1 EXCEPT !.ids = ids, !.shown = shown]
           \/ s1' = s1
    BY <1>2 DEF World!Save
  <2>2. ids \in Seq(Int)
    <3>1. s3.list \in Seq(SceneRef)
      BY DEF WorldInv, WorldShape
    <3>2. DOMAIN s3.list = 1 .. Len(s3.list) /\ Len(s3.list) \in Nat
      BY <3>1
    <3>3. \A i \in DOMAIN s3.list : s3.list[i].id \in Int
      <4>1. \A i \in DOMAIN s3.list : s3.list[i] \in SceneRef
        BY <3>1, InSequence
      <4>2. QED
        BY <4>1 DEF SceneRef
    <3>4. QED
      BY <3>2, <3>3
  <2> HIDE DEF ids
  <2>3. ASSUME s1' # s1 PROVE SceneDisk(s1')
    <3>1. PICK old, gltf, was : s1 = [ids |-> old, gltf |-> gltf, shown |-> was]
      BY DEF WorldInv, WorldShape, SceneDisk
    <3>2. PICK shown : s1' = [s1 EXCEPT !.ids = ids, !.shown = shown]
      BY <2>1, <2>3
    <3>3. s1' = [ids |-> ids, gltf |-> gltf, shown |-> shown]
      BY <3>1, <3>2
    <3>4. QED
      BY <2>2, <3>3 DEF SceneDisk
  <2>4. QED
    BY <2>1, <2>3 DEF WorldInv, WorldShape, MeshesOwned
<1>3. ASSUME NEW i \in DOMAIN s3.list, NEW flag \in {"HIDDEN", "DISABLED"}, NEW on \in BOOLEAN,
             World!SetFlag(i, flag, on)
      PROVE  WorldInv'
  <2> DEFINE h == s3.list[i].handle
             fl == IF on THEN s4[h].flags \union {flag} ELSE s4[h].flags \ {flag}
  <2>1. /\ s1' = s1 /\ s2' = s2 /\ s3' = s3 /\ s5' = s5
        /\ s4' = [s4 EXCEPT ![h].flags = fl]
    BY <1>3 DEF World!SetFlag
  <2>2. s4 \in Seq(Entity)
    BY DEF WorldInv, WorldShape
  <2>3. h \in DOMAIN s4 => fl \subseteq {"HIDDEN", "DISABLED"}
    <3>1. h \in DOMAIN s4 => s4[h].flags \subseteq {"HIDDEN", "DISABLED"}
      <4>1. h \in DOMAIN s4 => s4[h] \in Entity
        BY <2>2, InSequence
      <4>2. QED
        BY <4>1 DEF Entity
    <3>2. QED
      BY <3>1
  <2> HIDE DEF h, fl
  <2>4. /\ s4' \in Seq(Entity) /\ Len(s4') = Len(s4)
        /\ \A e \in DOMAIN s4 : s4'[e].mesh = s4[e].mesh
    <3>1. CASE h \notin DOMAIN s4
      <4>1. s4' = s4
        BY <2>1, <2>2, <3>1
      <4>2. QED
        BY <2>2, <4>1
    <3>2. CASE h \in DOMAIN s4
      <4> DEFINE x == [s4[h] EXCEPT !.flags = fl]
      <4>1. s4[h] \in Entity
        BY <2>2, <3>2, InSequence
      <4>2. x \in Entity /\ x.mesh = s4[h].mesh
        BY <2>3, <3>2, <4>1 DEF Entity
      <4>3. s4' = [s4 EXCEPT ![h] = x]
        BY <2>1
      <4> HIDE DEF x
      <4>4. QED
        BY <2>2, <3>2, <4>2, <4>3
    <3>3. QED
      BY <3>1, <3>2
  <2>5. MeshesOwned'
    BY <2>1, <2>2, <2>4, MeshesStay DEF WorldInv
  <2>6. QED
    BY <2>1, <2>4, <2>5 DEF WorldInv, WorldShape
<1>4. ASSUME NEW id \in {-1, -2, -3} \union {0}, World!AddReference(id) PROVE WorldInv'
  <2> DEFINE l == Append(s3.list, World!Ref(id, 0))
  <2>1. /\ s1' = s1 /\ s2' = s2 /\ s4' = s4 /\ s5' = s5
        /\ s3' = [s3 EXCEPT !.list = l, !.state = "changed"]
    BY <1>4 DEF World!AddReference
  <2>2. l \in Seq(SceneRef)
    BY DEF WorldInv, WorldShape, World!Ref, SceneRef
  <2> HIDE DEF l
  <2>3. s3' \in [list : Seq(SceneRef), nodes : Nodes, state : {"none", "loaded", "changed"}]
    BY <2>1, <2>2 DEF WorldInv, WorldShape
  <2>4. QED
    BY <2>1, <2>3 DEF WorldInv, WorldShape, MeshesOwned
<1>5. QED
  BY <1>1, <1>2, <1>3, <1>4, ReloadKeeps, ImportKeeps DEF World!Next

LEMMA WorldHolds == WorldInv => World!MeshesHaveOneEntity
<1> SUFFICES ASSUME WorldInv PROVE World!MeshesHaveOneEntity
  OBVIOUS
<1>1. ASSUME NEW m \in s5.live PROVE Cardinality({e \in DOMAIN s4 : s4[e].mesh = m}) = 1
  <2>1. PICK e \in DOMAIN s4 : s4[e].mesh = m
    BY DEF WorldInv, MeshesOwned
  <2>2. m # 0
    BY DEF WorldInv, WorldShape, MeshesOwned
  <2>3. {d \in DOMAIN s4 : s4[d].mesh = m} = {e}
    BY <2>1, <2>2 DEF WorldInv, MeshesOwned
  <2>4. QED
    BY <2>3, FS_Singleton
<1>2. \A e \in DOMAIN s4 : s4[e].mesh \in s5.live \union {0}
  BY DEF WorldInv, MeshesOwned
<1>3. QED
  BY <1>1, <1>2, Zenon DEF World!MeshesHaveOneEntity, World!Cardinality, Cardinality

-----------------------------------------------------------------------------
(* Locks: s1 is the registry's entry, s2 the pool, s3 the contents, s4 the  *)
(* copies, s5 the locks, s6 the file and s7 the other template.            *)
PoolHandle == [i : LockSlots, g : Nat]
SharedAsset == [id : BOOLEAN, handle : PoolHandle \union {None}, stage : {"Unloaded", "Loaded"},
                content : Nat \union {None}]
AgedAsset == [asset : SharedAsset, age : Nat]

LockFile(x) ==
    \E value, want : \E dirty, misused, failed \in BOOLEAN :
        x = [value |-> value, want |-> want, dirty |-> dirty, misused |-> misused,
             failed |-> failed]

LocksShape ==
    /\ s1 \in AgedAsset
    /\ s2 \in [LockSlots -> [gen : Nat, obj : Nat \union {None}]]
    /\ s3 \in Seq(LockValues) /\ s6.value \in LockValues
    /\ s4 \in [LockCopies -> AgedAsset]

(* The registry's entry is loaded when it has a handle; the places in use    *)
(* are that handle's and the other template's; a copy of now has the entry's *)
(* handle or none.                                                         *)
TemplateInPlace ==
    /\ s1.asset.handle # None =>
          /\ s1.asset.stage = "Loaded" /\ s1.asset.content \in 1 .. Len(s3)
          /\ s2[s1.asset.handle.i] = [gen |-> s1.asset.handle.g, obj |-> s1.asset.content]
    /\ s7 # None => s7 \in PoolHandle /\ s2[s7.i] = [gen |-> s7.g, obj |-> 0]
    /\ \A i \in LockSlots : s2[i].obj # None =>
          \/ s1.asset.handle # None /\ s1.asset.handle.i = i
          \/ s7 # None /\ s7.i = i
    /\ \A c \in LockCopies :
          /\ s4[c].age <= s1.age
          /\ s4[c].age = s1.age /\ s4[c].asset.handle # None =>
                s4[c].asset.handle = s1.asset.handle
    /\ ~s6.failed

(* Only of a use without unloads through copies that are out of date.       *)
LocksInv == LockFile(s6) /\ (~s6.misused => LocksShape /\ TemplateInPlace)
NoneIsNothing == None \notin Nat /\ None \notin PoolHandle

(* What a step does to the file's record.                                  *)
LEMMA LockFileMade ==
    ASSUME NEW value, NEW want, NEW dirty \in BOOLEAN, NEW misused \in BOOLEAN,
           NEW failed \in BOOLEAN
    PROVE  LockFile([value |-> value, want |-> want, dirty |-> dirty, misused |-> misused,
                     failed |-> failed])
  BY DEF LockFile

(* A record of the registry with fields changed.                           *)
LEMMA EntryAged ==
    ASSUME NEW a \in SharedAsset, NEW n \in Nat
    PROVE  /\ Locks!Aged(a, n) \in AgedAsset
           /\ Locks!Aged(a, n).asset = a /\ Locks!Aged(a, n).age = n
  BY DEF AgedAsset, Locks!Aged

LoadedEntry(a, h, k) == [a EXCEPT !.handle = h, !.stage = "Loaded", !.content = k]
LEMMA EntryLoaded ==
    ASSUME NEW a \in SharedAsset, NEW h \in PoolHandle, NEW k \in Nat
    PROVE  /\ LoadedEntry(a, h, k) \in SharedAsset
           /\ LoadedEntry(a, h, k).handle = h /\ LoadedEntry(a, h, k).stage = "Loaded"
           /\ LoadedEntry(a, h, k).content = k
  BY DEF SharedAsset, LoadedEntry

LEMMA EntryUnloaded ==
    ASSUME NEW a \in SharedAsset
    PROVE  Locks!Unloaded(a) \in SharedAsset /\ Locks!Unloaded(a).handle = None
  BY DEF SharedAsset, Locks!Unloaded

LEMMA EntryShared ==
    ASSUME NEW a \in SharedAsset, NEW k \in Nat \union {None}
    PROVE  [a EXCEPT !.content = k] \in SharedAsset /\ [a EXCEPT !.content = k].handle = a.handle
  BY DEF SharedAsset

LEMMA EntryReferred ==
    ASSUME NEW a \in SharedAsset
    PROVE  LET b == [a EXCEPT !.id = TRUE, !.handle = None, !.stage = "Unloaded"]
           IN b \in SharedAsset /\ b.handle = None
  BY DEF SharedAsset

LEMMA LocksStart == NoneIsNothing /\ Locks!Init => LocksInv
<1> SUFFICES ASSUME NoneIsNothing, Locks!Init PROVE LocksInv
  OBVIOUS
<1> DEFINE n == Locks!NoAsset
           e == [n EXCEPT !.id = TRUE]
           empty == Locks!Aged(e, 0)
<1>1. /\ s1 = empty /\ s2 = [i \in LockSlots |-> [gen |-> 0, obj |-> None]] /\ s3 = <<>>
      /\ s4 = [c \in LockCopies |-> empty] /\ s7 = None
  BY DEF Locks!Init
<1>2. PICK v \in LockValues :
          s6 = [value |-> v, want |-> v, dirty |-> FALSE, misused |-> FALSE, failed |-> FALSE]
  BY DEF Locks!Init
<1>3. LockFile(s6) /\ s6.value \in LockValues /\ ~s6.failed
  BY <1>2, LockFileMade
<1>4. n \in SharedAsset /\ n.handle = None
  BY DEF SharedAsset, Locks!NoAsset
<1> HIDE DEF n
<1>5. e \in SharedAsset /\ e.handle = None
  BY <1>4 DEF SharedAsset
<1> HIDE DEF e
<1>6. empty \in AgedAsset /\ empty.asset.handle = None /\ empty.age = 0
  BY <1>5 DEF AgedAsset, Locks!Aged
<1> HIDE DEF empty
<1>7. LocksShape
  BY <1>1, <1>3, <1>6 DEF LocksShape
<1>8. TemplateInPlace
  BY <1>1, <1>3, <1>6 DEF TemplateInPlace
<1>9. QED
  BY <1>3, <1>7, <1>8 DEF LocksInv

LEMMA FileUsed ==
    ASSUME LockFile(s6), NEW c \in LockCopies, Locks!LockLoaded(c)
    PROVE  /\ LockFile(s6') /\ s6'.value = s6.value /\ s6'.misused = s6.misused
           /\ s6'.failed <=> s6.failed \/ (s4[c].asset.content = None /\ ~Locks!Fits(s4[c].asset.handle)
                                          /\ Locks!Current(c))
<1> DEFINE more == s6.failed \/ ((s4[c].asset.content = None /\ ~Locks!Fits(s4[c].asset.handle))
                                /\ Locks!Current(c))
<1>1. PICK value, want : \E dirty, misused, failed \in BOOLEAN :
          s6 = [value |-> value, want |-> want, dirty |-> dirty, misused |-> misused,
                failed |-> failed]
  BY DEF LockFile
<1>2. PICK dirty, misused, failed \in BOOLEAN :
          s6 = [value |-> value, want |-> want, dirty |-> dirty, misused |-> misused,
                failed |-> failed]
  BY <1>1
<1>3. s6' = [s6 EXCEPT !.failed = more]
  BY DEF Locks!LockLoaded
<1>4. more \in BOOLEAN
  OBVIOUS
<1>5. s6' = [value |-> value, want |-> want, dirty |-> dirty, misused |-> misused, failed |-> more]
  <2> HIDE DEF more
  <2>1. QED
    BY <1>2, <1>3
<1>6. LockFile(s6')
  BY <1>4, <1>5, LockFileMade
<1>7. s6'.value = s6.value /\ s6'.misused = s6.misused /\ s6'.failed = more
  <2> HIDE DEF more
  <2>1. QED
    BY <1>2, <1>5
<1>8. QED
  BY <1>6, <1>7

LEMMA FileUnloaded ==
    ASSUME LockFile(s6), NEW c \in LockCopies, Locks!Unload(c)
    PROVE  /\ LockFile(s6') /\ s6'.value = s6.value /\ s6'.failed = s6.failed
           /\ s6'.misused <=> s6.misused \/ ~Locks!Current(c)
<1> DEFINE more == s6.misused \/ ~Locks!Current(c)
<1>1. PICK value, want : \E dirty, misused, failed \in BOOLEAN :
          s6 = [value |-> value, want |-> want, dirty |-> dirty, misused |-> misused,
                failed |-> failed]
  BY DEF LockFile
<1>2. PICK dirty, misused, failed \in BOOLEAN :
          s6 = [value |-> value, want |-> want, dirty |-> dirty, misused |-> misused,
                failed |-> failed]
  BY <1>1
<1>3. s6' = [s6 EXCEPT !.misused = more, !.dirty = FALSE, !.want = s6.value]
  BY DEF Locks!Unload
<1>4. more \in BOOLEAN
  OBVIOUS
<1>5. s6' = [value |-> value, want |-> value, dirty |-> FALSE, misused |-> more, failed |-> failed]
  <2> HIDE DEF more
  <2>1. s6.value = value
    BY <1>2
  <2>2. QED
    BY <1>2, <1>3, <2>1
<1>6. LockFile(s6')
  BY <1>4, <1>5, LockFileMade
<1>7. s6'.value = s6.value /\ s6'.failed = s6.failed /\ s6'.misused = more
  <2> HIDE DEF more
  <2>1. QED
    BY <1>2, <1>5
<1>8. QED
  BY <1>6, <1>7

LEMMA FileWritten ==
    ASSUME LockFile(s6), NEW x, NEW d \in BOOLEAN, s6' = [s6 EXCEPT !.value = x, !.dirty = d]
    PROVE  /\ LockFile(s6') /\ s6'.value = x
           /\ s6'.failed = s6.failed /\ s6'.misused = s6.misused
<1>1. PICK value, want : \E dirty, misused, failed \in BOOLEAN :
          s6 = [value |-> value, want |-> want, dirty |-> dirty, misused |-> misused,
                failed |-> failed]
  BY DEF LockFile
<1>2. PICK dirty, misused, failed \in BOOLEAN :
          s6 = [value |-> value, want |-> want, dirty |-> dirty, misused |-> misused,
                failed |-> failed]
  BY <1>1
<1>3. s6' = [value |-> x, want |-> want, dirty |-> d, misused |-> misused, failed |-> failed]
  BY <1>2
<1>4. LockFile([value |-> x, want |-> want, dirty |-> d, misused |-> misused, failed |-> failed])
  BY LockFileMade
<1>5. QED
  BY <1>2, <1>3, <1>4

LEMMA FileMarked ==
    ASSUME LockFile(s6), NEW x, NEW d \in BOOLEAN,
           \/ s6' = [s6 EXCEPT !.want = x, !.dirty = d]
           \/ s6' = [s6 EXCEPT !.dirty = d]
    PROVE  /\ LockFile(s6') /\ s6'.value = s6.value
           /\ s6'.failed = s6.failed /\ s6'.misused = s6.misused
<1>1. PICK value, want : \E dirty, misused, failed \in BOOLEAN :
          s6 = [value |-> value, want |-> want, dirty |-> dirty, misused |-> misused,
                failed |-> failed]
  BY DEF LockFile
<1>2. PICK dirty, misused, failed \in BOOLEAN :
          s6 = [value |-> value, want |-> want, dirty |-> dirty, misused |-> misused,
                failed |-> failed]
  BY <1>1
<1>3. CASE s6' = [s6 EXCEPT !.want = x, !.dirty = d]
  <2>1. s6' = [value |-> value, want |-> x, dirty |-> d, misused |-> misused, failed |-> failed]
    BY <1>2, <1>3
  <2>2. LockFile([value |-> value, want |-> x, dirty |-> d, misused |-> misused, failed |-> failed])
    BY LockFileMade
  <2>3. QED
    BY <1>2, <2>1, <2>2
<1>4. CASE s6' = [s6 EXCEPT !.dirty = d]
  <2>1. s6' = [value |-> value, want |-> want, dirty |-> d, misused |-> misused, failed |-> failed]
    BY <1>2, <1>4
  <2>2. LockFile([value |-> value, want |-> want, dirty |-> d, misused |-> misused, failed |-> failed])
    BY LockFileMade
  <2>3. QED
    BY <1>2, <2>1, <2>2
<1>5. QED
  BY <1>3, <1>4

(* The place that is taken is the first of the free ones.                  *)
LEMMA LeastExists ==
    ASSUME NEW S, S \subseteq Nat, S # {}
    PROVE  (CHOOSE s \in S : \A t \in S : s <= t) \in S
<1> DEFINE R == OpToRel(<, Nat)
<1>1. \A x, y \in Nat : x < y => <<x, y>> \in R
  BY DEF OpToRel
<1>2. PICK s \in S : \A t \in S : ~(<<t, s>> \in R)
  BY NatLessThanWellFounded, WFMin
<1>3. \A t \in S : ~(t < s)
  <2> HIDE DEF R
  <2>1. QED
    BY <1>1, <1>2, Zenon
<1>4. \A t \in S : s <= t
  BY <1>3
<1>5. QED
  BY <1>4

LEMMA PlaceIsFree ==
    ASSUME LockSlots \subseteq Nat, Locks!Free # {}
    PROVE  Locks!FirstFree \in LockSlots /\ s2[Locks!FirstFree].obj = None
<1>1. Locks!Free \subseteq Nat /\ Locks!Free \subseteq LockSlots
  BY DEF Locks!Free
<1>2. Locks!FirstFree \in Locks!Free
  BY <1>1, LeastExists, Zenon DEF Locks!FirstFree
<1>3. QED
  BY <1>1, <1>2 DEF Locks!Free

LEMMA LoadKeeps ==
    ASSUME NoneIsNothing, LockSlots \subseteq Nat, LocksInv,
           NEW c \in LockCopies, Locks!LockAndLoad(c)
    PROVE  LocksInv'
<1> DEFINE k == Len(s3) + 1
           i == Locks!FirstFree
           h == Locks!Handle(i, s2[i].gen)
           a == LoadedEntry(s1.asset, h, k)
<1>1. /\ s3' = Append(s3, s6.value) /\ s2' = [s2 EXCEPT ![i].obj = k] /\ s4' = s4
      /\ s7' = s7 /\ Locks!Free # {}
      /\ s1' = Locks!Aged(a, s1.age)
      /\ s6' = [s6 EXCEPT !.dirty = FALSE]
      /\ ~Locks!IsLoaded(s1.asset)
  BY DEF Locks!LockAndLoad, LoadedEntry
<1>2. /\ LockFile(s6') /\ s6'.value = s6.value /\ s6'.failed = s6.failed
      /\ s6'.misused = s6.misused
  BY <1>1, FileMarked DEF LocksInv
<1>3. ASSUME ~s6.misused PROVE LocksShape' /\ TemplateInPlace'
  <2>1. LocksShape /\ TemplateInPlace
    BY <1>3 DEF LocksInv
  <2>2. s1.asset.handle = None
    BY <1>1, <2>1 DEF Locks!IsLoaded, TemplateInPlace
  <2>3. i \in LockSlots /\ s2[i].obj = None
    BY <1>1, PlaceIsFree
  <2>4. \A s \in LockSlots : s2[s].obj # None => s7 # None /\ s7.i = s
    BY <2>1, <2>2 DEF TemplateInPlace
  <2>5. /\ k \in Nat /\ k # None /\ s3' \in Seq(LockValues) /\ Len(s3') = k /\ k \in 1 .. Len(s3')
    BY <1>1, <2>1 DEF LocksShape, NoneIsNothing
  <2> HIDE DEF i
  <2>6. s2[i].gen \in Nat
    BY <2>1, <2>3 DEF LocksShape
  <2>7. /\ h \in PoolHandle /\ h.i = i /\ h.g = s2[i].gen /\ h # None
    BY <2>3, <2>6 DEF Locks!Handle, PoolHandle, NoneIsNothing
  <2> HIDE DEF h, k
  <2>8. s1.asset \in SharedAsset /\ s1.age \in Nat
    BY <2>1 DEF LocksShape, AgedAsset
  <2>9. a \in SharedAsset /\ a.handle = h /\ a.stage = "Loaded" /\ a.content = k
    <3>1. h \in PoolHandle /\ k \in Nat /\ s1.asset \in SharedAsset
      BY <2>5, <2>7, <2>8
    <3>2. QED
      BY <3>1, EntryLoaded
  <2> HIDE DEF a
  <2>10. s1' \in AgedAsset /\ s1'.asset = a /\ s1'.age = s1.age
    BY <1>1, <2>8, <2>9, EntryAged
  <2>11. /\ s2' \in [LockSlots -> [gen : Nat, obj : Nat \union {None}]]
         /\ s2'[i] = [gen |-> h.g, obj |-> k]
         /\ \A s \in LockSlots : s # i => s2'[s] = s2[s]
    BY <1>1, <2>1, <2>3, <2>5, <2>7 DEF LocksShape
  <2>12. LocksShape'
    BY <1>1, <1>2, <2>1, <2>5, <2>10, <2>11 DEF LocksShape
  <2>13. TemplateInPlace'
    <3>1. \A d \in LockCopies : s4[d].age <= s1.age /\ (s4[d].age = s1.age => s4[d].asset.handle = None)
      BY <2>1, <2>2 DEF TemplateInPlace
    <3>2. \A s \in LockSlots : s2'[s].obj # None => s = i \/ (s7' # None /\ s7'.i = s)
      BY <1>1, <2>4, <2>11
    <3>3. s7' # None => s7' \in PoolHandle /\ s2'[s7'.i] = [gen |-> s7'.g, obj |-> 0]
      <4>1. s7 # None => s7.i \in LockSlots /\ s2[s7.i] = [gen |-> s7.g, obj |-> 0]
        BY <2>1 DEF TemplateInPlace, PoolHandle
      <4>2. s7 # None => s7.i # i
        BY <2>3, <4>1 DEF NoneIsNothing
      <4>3. QED
        BY <1>1, <2>1, <2>11, <4>1, <4>2 DEF TemplateInPlace
    <3>4. QED
      BY <1>1, <1>2, <2>1, <2>5, <2>7, <2>9, <2>10, <2>11, <3>1, <3>2, <3>3 DEF TemplateInPlace
  <2>14. QED
    BY <2>12, <2>13
<1>4. QED
  BY <1>2, <1>3 DEF LocksInv

LEMMA UnloadKeeps ==
    ASSUME NoneIsNothing, LocksInv, NEW c \in LockCopies, Locks!Unload(c)
    PROVE  LocksInv'
<1> DEFINE h == s4[c].asset.handle
           a == Locks!Unloaded(s1.asset)
           b == Locks!Unloaded(s4[c].asset)
<1>1. /\ h # None
      /\ s1' = [asset |-> a, age |-> s1.age + 1]
      /\ s4' = [s4 EXCEPT ![c] = [asset |-> b, age |-> s1.age + 1]]
      /\ s2' = [s2 EXCEPT ![h.i] = [gen |-> s2[h.i].gen + 1, obj |-> None]]
      /\ s3' = s3 /\ s7' = s7
  BY DEF Locks!Unload, Locks!Aged
<1>2. /\ LockFile(s6') /\ s6'.value = s6.value /\ s6'.failed = s6.failed
      /\ s6'.misused <=> s6.misused \/ ~Locks!Current(c)
  BY FileUnloaded DEF LocksInv
<1>3. ASSUME ~s6.misused, Locks!Current(c) PROVE LocksShape' /\ TemplateInPlace'
  <2>1. LocksShape /\ TemplateInPlace
    BY <1>3 DEF LocksInv
  <2>2. h = s1.asset.handle /\ h \in PoolHandle
    BY <1>1, <1>3, <2>1 DEF TemplateInPlace, Locks!Current, LocksShape, AgedAsset, SharedAsset
  <2>3. h.i \in LockSlots
    BY <2>2 DEF PoolHandle
  <2>4. a \in SharedAsset /\ a.handle = None /\ b \in SharedAsset /\ b.handle = None
    BY <2>1, s1.asset \in SharedAsset, s4[c].asset \in SharedAsset, EntryUnloaded
    DEF LocksShape, AgedAsset
  <2> HIDE DEF a, b, h
  <2>5. s1.age \in Nat /\ \A d \in LockCopies : s4[d].age \in Nat /\ s4[d].age <= s1.age
    BY <2>1 DEF LocksShape, AgedAsset, TemplateInPlace
  <2>6. s1' \in AgedAsset /\ s1'.asset = a /\ s1'.age = s1.age + 1
    BY <1>1, <2>4, <2>5 DEF AgedAsset
  <2>7. /\ s4' \in [LockCopies -> AgedAsset]
        /\ s4'[c].asset = b /\ s4'[c].age = s1.age + 1
        /\ \A d \in LockCopies : d # c => s4'[d] = s4[d]
    BY <1>1, <2>1, <2>4, <2>5 DEF LocksShape, AgedAsset
  <2>8. /\ s2' \in [LockSlots -> [gen : Nat, obj : Nat \union {None}]]
        /\ s2'[h.i].obj = None
        /\ \A s \in LockSlots : s # h.i => s2'[s] = s2[s]
    BY <1>1, <2>1, <2>3 DEF LocksShape
  <2>9. LocksShape'
    BY <1>1, <1>2, <2>1, <2>6, <2>7, <2>8 DEF LocksShape
  <2>10. TemplateInPlace'
    <3>1. /\ \A s \in LockSlots : s2'[s].obj # None => s7' # None /\ s7'.i = s
          /\ s7' # None => s7' \in PoolHandle /\ s2'[s7'.i] = [gen |-> s7'.g, obj |-> 0]
      <4>1. \A s \in LockSlots : s2'[s].obj # None => s # h.i /\ s2[s].obj # None
        BY <2>8
      <4>2. \A s \in LockSlots : s2'[s].obj # None => s7' # None /\ s7'.i = s
        BY <1>1, <2>1, <2>2, <4>1 DEF TemplateInPlace
      <4>3. s2[h.i].obj # 0
        BY <1>1, <2>1, <2>2 DEF TemplateInPlace
      <4>4. s7 # None => s7 \in PoolHandle /\ s7.i \in LockSlots /\ s2[s7.i] = [gen |-> s7.g, obj |-> 0]
        BY <2>1 DEF TemplateInPlace, PoolHandle
      <4>5. s7 # None => s7.i # h.i
        BY <4>3, <4>4
      <4>6. QED
        BY <1>1, <2>8, <4>2, <4>4, <4>5
    <3>2. \A d \in LockCopies : s4'[d].age <= s1'.age /\ (s4'[d].age = s1'.age => s4'[d].asset.handle = None)
      BY <2>4, <2>5, <2>6, <2>7
    <3>3. QED
      BY <1>2, <2>1, <2>4, <2>6, <3>1, <3>2 DEF TemplateInPlace
  <2>11. QED
    BY <2>9, <2>10
<1>4. QED
  BY <1>2, <1>3 DEF LocksInv

(* A step that changes copies and contents only.                           *)
LEMMA CopiesKeep ==
    ASSUME NoneIsNothing, LocksInv, s1' = s1, s2' = s2, s3' = s3, s6' = s6, s7' = s7,
           NEW c \in LockCopies, NEW x, s4' = [s4 EXCEPT ![c] = x],
           LocksShape /\ TemplateInPlace =>
               /\ x \in AgedAsset /\ x.age <= s1.age
               /\ x.age = s1.age => x.asset.handle \in {None, s1.asset.handle}
    PROVE  LocksInv'
<1>1. ASSUME ~s6.misused PROVE LocksShape' /\ TemplateInPlace'
  <2>1. LocksShape /\ TemplateInPlace
    BY <1>1 DEF LocksInv
  <2>2. /\ s4' \in [LockCopies -> AgedAsset] /\ s4'[c] = x
        /\ \A d \in LockCopies : d # c => s4'[d] = s4[d]
    BY <2>1 DEF LocksShape
  <2>3. LocksShape'
    BY <2>1, <2>2 DEF LocksShape
  <2>4. \A d \in LockCopies :
          /\ s4'[d].age <= s1.age
          /\ s4'[d].age = s1.age /\ s4'[d].asset.handle # None =>
                s4'[d].asset.handle = s1.asset.handle
    BY <2>1, <2>2 DEF TemplateInPlace
  <2>5. TemplateInPlace'
    BY <2>1, <2>4 DEF TemplateInPlace
  <2>6. QED
    BY <2>3, <2>5
<1>2. QED
  BY <1>1 DEF LocksInv

LEMMA CopyActionsKeep ==
    ASSUME NoneIsNothing, LocksInv, NEW c \in LockCopies,
           \/ Locks!Take(c) \/ Locks!SetReference(c)
           \/ \E d \in LockCopies : Locks!CopyOf(c, d)
    PROVE  LocksInv'
<1>1. CASE Locks!Take(c)
  <2>1. PICK k \in {None, s1.asset.content} :
            s4' = [s4 EXCEPT ![c] = Locks!Aged([s1.asset EXCEPT !.content = k], s1.age)]
    BY <1>1 DEF Locks!Take
  <2> DEFINE a == [s1.asset EXCEPT !.content = k]
             x == Locks!Aged(a, s1.age)
  <2>2. LocksShape => s1.asset \in SharedAsset /\ s1.age \in Nat /\ k \in Nat \union {None}
    BY DEF LocksShape, AgedAsset, SharedAsset
  <2>3. LocksShape => a \in SharedAsset /\ a.handle = s1.asset.handle
    BY <2>2, EntryShared
  <2> HIDE DEF a
  <2>4. LocksShape => x \in AgedAsset /\ x.age = s1.age /\ x.asset.handle = s1.asset.handle
    BY <2>2, <2>3, EntryAged
  <2> HIDE DEF x
  <2>5. s1' = s1 /\ s2' = s2 /\ s3' = s3 /\ s6' = s6 /\ s7' = s7 /\ s4' = [s4 EXCEPT ![c] = x]
    BY <1>1, <2>1 DEF Locks!Take, x, a
  <2>6. LocksShape => x.age <= s1.age
    BY <2>2, <2>4
  <2>7. QED
    BY <2>4, <2>5, <2>6, CopiesKeep
<1>2. CASE Locks!SetReference(c)
  <2> DEFINE a == [s4[c].asset EXCEPT !.id = TRUE, !.handle = None, !.stage = "Unloaded"]
             x == Locks!Aged(a, s1.age)
  <2>1. s1' = s1 /\ s2' = s2 /\ s3' = s3 /\ s6' = s6 /\ s7' = s7 /\ s4' = [s4 EXCEPT ![c] = x]
    BY <1>2 DEF Locks!SetReference
  <2>2. LocksShape => s4[c].asset \in SharedAsset /\ s1.age \in Nat
    BY DEF LocksShape, AgedAsset
  <2>3. LocksShape => a \in SharedAsset /\ a.handle = None
    BY <2>2, EntryReferred
  <2> HIDE DEF a
  <2>4. LocksShape => x \in AgedAsset /\ x.age = s1.age /\ x.asset.handle = None
    BY <2>2, <2>3, EntryAged
  <2> HIDE DEF x
  <2>5. LocksShape => x.age <= s1.age
    BY <2>2, <2>4
  <2>6. QED
    BY <2>1, <2>4, <2>5, CopiesKeep
<1>3. ASSUME NEW d \in LockCopies, Locks!CopyOf(c, d) PROVE LocksInv'
  <2>1. s4' = [s4 EXCEPT ![c] = s4[d]]
    BY <1>3 DEF Locks!CopyOf
  <2>2. LocksShape /\ TemplateInPlace =>
               /\ s4[d] \in AgedAsset /\ s4[d].age <= s1.age
               /\ s4[d].age = s1.age => s4[d].asset.handle \in {None, s1.asset.handle}
    BY DEF LocksShape, TemplateInPlace
  <2>3. QED
    BY <1>3, <2>1, <2>2, CopiesKeep DEF Locks!CopyOf
<1>4. QED
  BY <1>1, <1>2, <1>3

LEMMA OtherKeeps ==
    ASSUME NoneIsNothing, LockSlots \subseteq Nat, LocksInv,
           Locks!OtherLoads \/ Locks!OtherUnloads
    PROVE  LocksInv'
<1>1. s1' = s1 /\ s3' = s3 /\ s4' = s4 /\ s6' = s6
  BY DEF Locks!OtherLoads, Locks!OtherUnloads
<1>2. ASSUME ~s6.misused, Locks!OtherLoads PROVE LocksShape' /\ TemplateInPlace'
  <2> DEFINE i == Locks!FirstFree
             h == Locks!Handle(i, s2[i].gen)
  <2>1. LocksShape /\ TemplateInPlace /\ i \in LockSlots /\ s2[i].obj = None
    BY <1>2, PlaceIsFree DEF LocksInv, Locks!OtherLoads
  <2>2. s7 = None /\ s7' = h /\ s2' = [s2 EXCEPT ![i].obj = 0]
    BY <1>2 DEF Locks!OtherLoads
  <2> HIDE DEF i
  <2>3. s2[i].gen \in Nat
    BY <2>1 DEF LocksShape
  <2>4. h \in PoolHandle /\ h.i = i /\ h.g = s2[i].gen
    BY <2>1, <2>3 DEF Locks!Handle, PoolHandle
  <2> HIDE DEF h
  <2>5. /\ s2' \in [LockSlots -> [gen : Nat, obj : Nat \union {None}]]
        /\ s2'[i] = [gen |-> h.g, obj |-> 0]
        /\ \A s \in LockSlots : s # i => s2'[s] = s2[s]
    BY <2>1, <2>2, <2>4 DEF LocksShape
  <2>6. LocksShape'
    BY <1>1, <2>1, <2>5 DEF LocksShape
  <2>7. s1.asset.handle # None => s1.asset.handle.i \in LockSlots /\ s1.asset.handle.i # i
    <3>1. s1.asset.handle # None => s1.asset.handle \in PoolHandle
      BY <2>1 DEF LocksShape, AgedAsset, SharedAsset
    <3>2. s1.asset.handle # None =>
              s2[s1.asset.handle.i].obj = s1.asset.content /\ s1.asset.content \in Nat
      BY <2>1 DEF TemplateInPlace, LocksShape
    <3>3. QED
      BY <2>1, <3>1, <3>2 DEF PoolHandle, NoneIsNothing
  <2>8. \A s \in LockSlots : s2'[s].obj # None =>
            s = i \/ (s1.asset.handle # None /\ s1.asset.handle.i = s)
    BY <2>1, <2>2, <2>5 DEF TemplateInPlace
  <2>9. s7' # None
    BY <2>2, <2>4 DEF NoneIsNothing
  <2>10. TemplateInPlace'
    BY <1>1, <2>1, <2>2, <2>4, <2>5, <2>7, <2>8, <2>9 DEF TemplateInPlace
  <2>11. QED
    BY <2>6, <2>10
<1>3. ASSUME ~s6.misused, Locks!OtherUnloads PROVE LocksShape' /\ TemplateInPlace'
  <2>1. LocksShape /\ TemplateInPlace
    BY <1>3 DEF LocksInv
  <2>2. /\ s7 # None /\ s7' = None
        /\ s2' = [s2 EXCEPT ![s7.i] = [gen |-> s2[s7.i].gen + 1, obj |-> None]]
    BY <1>3 DEF Locks!OtherUnloads
  <2>3. s7.i \in LockSlots /\ s2[s7.i].obj = 0
    BY <2>1, <2>2 DEF TemplateInPlace, PoolHandle
  <2>4. /\ s2' \in [LockSlots -> [gen : Nat, obj : Nat \union {None}]]
        /\ s2'[s7.i].obj = None
        /\ \A s \in LockSlots : s # s7.i => s2'[s] = s2[s]
    <3>1. PICK i \in LockSlots : i = s7.i
      BY <2>3
    <3>2. s2 \in [LockSlots -> [gen : Nat, obj : Nat \union {None}]]
      BY <2>1 DEF LocksShape
    <3> DEFINE x == [gen |-> s2[i].gen + 1, obj |-> None]
    <3>3. s2' = [s2 EXCEPT ![i] = x]
      BY <2>2, <3>1
    <3>4. x \in [gen : Nat, obj : Nat \union {None}] /\ x.obj = None
      BY <3>2
    <3> HIDE DEF x
    <3>5. QED
      BY <3>1, <3>2, <3>3, <3>4
  <2>5. LocksShape'
    BY <1>1, <2>1, <2>4 DEF LocksShape
  <2>6. s1.asset.handle # None => s1.asset.handle.i \in LockSlots /\ s1.asset.handle.i # s7.i
    <3>1. s1.asset.handle # None => s1.asset.handle \in PoolHandle
      BY <2>1 DEF LocksShape, AgedAsset, SharedAsset
    <3>2. s1.asset.handle # None =>
              s2[s1.asset.handle.i].obj = s1.asset.content /\ s1.asset.content # 0
      BY <2>1 DEF TemplateInPlace, LocksShape
    <3>3. QED
      BY <2>3, <3>1, <3>2 DEF PoolHandle
  <2>7. \A s \in LockSlots : s2'[s].obj # None =>
            s1.asset.handle # None /\ s1.asset.handle.i = s
    BY <2>1, <2>4 DEF TemplateInPlace
  <2>8. TemplateInPlace'
    BY <1>1, <2>1, <2>2, <2>4, <2>6, <2>7 DEF TemplateInPlace
  <2>9. QED
    BY <2>5, <2>8
<1>4. QED
  BY <1>1, <1>2, <1>3 DEF LocksInv

LEMMA LocksKept ==
    ASSUME NoneIsNothing, LockSlots \subseteq Nat, LocksInv, Locks!Next
    PROVE  LocksInv'
<1>1. CASE Locks!OtherLoads \/ Locks!OtherUnloads
  BY <1>1, OtherKeeps
<1>2. CASE Locks!Save
  <2>1. CASE UNCHANGED s6
    BY <1>2, <2>1 DEF Locks!Save, LocksInv, LocksShape, TemplateInPlace
  <2>2. CASE s6' = [s6 EXCEPT !.value = s3[s1.asset.content], !.dirty = FALSE]
    <3> DEFINE v == s3[s1.asset.content]
    <3>1. /\ s1' = s1 /\ s2' = s2 /\ s3' = s3 /\ s4' = s4 /\ s7' = s7
          /\ s6' = [s6 EXCEPT !.value = v, !.dirty = FALSE]
          /\ s1.asset.handle # None
      BY <1>2, <2>2 DEF Locks!Save, Locks!IsLoaded
    <3>2. /\ LockFile(s6') /\ s6'.value = v
          /\ s6'.failed = s6.failed /\ s6'.misused = s6.misused
      BY <3>1, FileWritten DEF LocksInv
    <3>3. ASSUME ~s6.misused PROVE LocksShape' /\ TemplateInPlace'
      <4>1. LocksShape /\ TemplateInPlace
        BY <3>3 DEF LocksInv
      <4>2. v \in LockValues
        <5>1. s3 \in Seq(LockValues) /\ s1.asset.content \in 1 .. Len(s3)
          BY <3>1, <4>1 DEF LocksShape, TemplateInPlace
        <5>2. QED
          BY <5>1, ElementOfSeq
      <4>3. QED
        BY <3>1, <3>2, <4>1, <4>2 DEF LocksShape, TemplateInPlace
    <3>4. QED
      BY <3>2, <3>3 DEF LocksInv
  <2>3. QED
    BY <1>2, <2>1, <2>2 DEF Locks!Save
<1> SUFFICES ASSUME NEW c \in LockCopies,
                    \/ Locks!LockLoaded(c) \/ Locks!LockTemplate(c) \/ Locks!LockAndLoad(c)
                    \/ Locks!Unlock(c) \/ Locks!Take(c) \/ Locks!SetReference(c)
                    \/ Locks!Unload(c)
                    \/ \E v \in LockValues : Locks!Edit(c, v)
                    \/ \E d \in LockCopies : Locks!CopyOf(c, d)
             PROVE  LocksInv'
  BY <1>1, <1>2 DEF Locks!Next
<1>3. CASE Locks!LockLoaded(c)
  <2>1. s1' = s1 /\ s2' = s2 /\ s3' = s3 /\ s4' = s4 /\ s7' = s7 /\ s4[c].asset.handle # None
    BY <1>3 DEF Locks!LockLoaded, Locks!IsLoaded
  <2>2. /\ LockFile(s6') /\ s6'.value = s6.value /\ s6'.misused = s6.misused
        /\ s6'.failed <=> s6.failed \/ (s4[c].asset.content = None /\ ~Locks!Fits(s4[c].asset.handle)
                                          /\ Locks!Current(c))
    BY <1>3, FileUsed DEF LocksInv
  <2>3. ASSUME ~s6.misused PROVE LocksShape' /\ TemplateInPlace'
    <3>1. LocksShape /\ TemplateInPlace
      BY <2>3 DEF LocksInv
    <3>2. Locks!Current(c) => Locks!Fits(s4[c].asset.handle)
      BY <2>1, <3>1 DEF Locks!Current, Locks!Fits, TemplateInPlace
    <3>3. QED
      BY <2>1, <2>2, <3>1, <3>2 DEF LocksShape, TemplateInPlace
  <2>4. QED
    BY <2>2, <2>3 DEF LocksInv
<1>4. CASE Locks!LockTemplate(c) \/ Locks!Unlock(c)
  <2>1. s1' = s1 /\ s2' = s2 /\ s3' = s3 /\ s4' = s4 /\ s6' = s6 /\ s7' = s7
    BY <1>4 DEF Locks!LockTemplate, Locks!Unlock
  <2>2. QED
    BY <2>1 DEF LocksInv, LocksShape, TemplateInPlace
<1>5. ASSUME NEW v \in LockValues, Locks!Edit(c, v) PROVE LocksInv'
  <2>1. /\ s1' = s1 /\ s2' = s2 /\ s4' = s4 /\ s7' = s7
        /\ s3' = [s3 EXCEPT ![s5[c].res] = v]
        /\ s6' = [s6 EXCEPT !.want = v, !.dirty = TRUE] \/ s6' = s6
    BY <1>5 DEF Locks!Edit
  <2>2. /\ LockFile(s6') /\ s6'.value = s6.value /\ s6'.failed = s6.failed
        /\ s6'.misused = s6.misused
    BY <2>1, FileMarked DEF LocksInv
  <2>4. ASSUME ~s6.misused PROVE LocksShape' /\ TemplateInPlace'
    <3>1. LocksShape /\ TemplateInPlace
      BY <2>4 DEF LocksInv
    <3>2. s3' \in Seq(LockValues) /\ Len(s3') = Len(s3)
      <4>1. CASE s5[c].res \in DOMAIN s3
        BY <2>1, <3>1, <4>1 DEF LocksShape
      <4>2. CASE s5[c].res \notin DOMAIN s3
        <5>1. s3 \in Seq(LockValues)
          BY <3>1 DEF LocksShape
        <5>2. s3' = s3
          BY <2>1, <4>2, <5>1
        <5>3. QED
          BY <5>1, <5>2
      <4>3. QED
        BY <4>1, <4>2
    <3>3. QED
      BY <2>1, <2>2, <3>1, <3>2 DEF LocksShape, TemplateInPlace
  <2>5. QED
    BY <2>2, <2>4 DEF LocksInv
<1>6. QED
  BY <1>3, <1>4, <1>5, LoadKeeps, UnloadKeeps, CopyActionsKeep

LEMMA LocksHold == LocksInv => Locks!PoolKeepsTheTemplate
  BY DEF LocksInv, TemplateInPlace, PoolHandle, Locks!PoolKeepsTheTemplate, Locks!IsLoaded, Locks!Fits,
         Locks!GetShared

-----------------------------------------------------------------------------
(* Engine: s1 is the main thread, s2 what is made, s3 the app, s4 the        *)
(* compiler thread and s5 the logger.                                        *)
MadeBefore(n) == {Run!Steps[j] : j \in 1 .. n - 1}
MainAt == {"boot", "tick", "flush", "unload", "clear", "switch", "shutdown",
           "removeLoggers", "resetSinks", "exit"}
WorkerAt == {"none", "idle", "message", "log", "load", "slot", "subscriber", "app"}
Library == Nat \union {None}

MainType == [pc : MainAt, step : 1 .. 22, running : BOOLEAN, tests : BOOLEAN]
BootType == [made : SUBSET MadeBefore(23), loaders : SUBSET Run!Types,
             cfg : {"none", "user", "app", "dll"}, failed : BOOLEAN]
SlotType == [cb : Library, dll : Library]
AppType == [slots : [{0, 1} -> SlotType], active : {0, 1},
            loaded : SUBSET Nat, next : Nat \ {0}]
WorkerType == [at : WorkerAt, jobs : Nat, sent : Nat, slot : {0, 1}, in : Library,
               log : Nat, over : BOOLEAN, misused : BOOLEAN]
LoggerType == [sink : BOOLEAN, age : Nat]

EngineShape == /\ s1 \in MainType /\ s2 \in BootType /\ s3 \in AppType
               /\ s4 \in WorkerType /\ s5 \in LoggerType

(* The steps of the start before this one are done, and no step failed; the *)
(* loaders are there before what waits for them.                           *)
StartInv ==
    /\ ~s2.failed
    /\ s1.pc = "boot" => s2.made = MadeBefore(s1.step)
    /\ \/ s1.pc \in {"tick", "flush", "unload", "clear", "switch", "shutdown"}
       \/ s1.pc = "boot" /\ s1.step > 15
       \/ s4.jobs > 0
       => s2.loaders = Run!Types

(* The active slot has the callbacks of its library, which is the only one; *)
(* while a swap is on, the new one is there as well, or alone.              *)
SwapInv ==
    /\ s1.pc = "boot" => s3.active = 0
    /\ \A l \in s3.loaded : l < s3.next
    /\ s1.pc \notin {"clear", "switch"} =>
          s3.slots[s3.active].cb = s3.slots[s3.active].dll
    /\ s1.pc \notin {"unload", "clear", "switch"} =>
          s3.loaded = {s3.slots[s3.active].dll} \ {None}
    /\ s1.pc = "unload" =>
          /\ s3.loaded = ({s3.slots[s3.active].dll} \ {None}) \union {s3.next - 1}
          /\ s3.slots[s3.active].dll # s3.next - 1
    /\ s1.pc \in {"clear", "switch"} => s3.loaded = {s3.next - 1}
    /\ s1.pc \in {"unload", "clear", "switch"} => s3.slots[1 - s3.active].cb = s3.next - 1
    /\ s1.pc = "switch" => s3.slots[1 - s3.active].dll = s3.next - 1

(* On its way to the callback, unless a swap overlaps, the compiler thread  *)
(* has read the active slot.                                                *)
CallInv ==
    /\ s1.pc = "boot" /\ s1.step <= 8 => s4.at = "none"
    /\ ~s4.over =>
          /\ s4.at \in {"slot", "subscriber", "app"} => s1.pc \notin {"clear", "switch"}
          /\ s4.at = "subscriber" => s4.slot = s3.active
          /\ s4.at = "app" => s4.in = s3.slots[s3.active].cb /\ s4.in # None

EngineInv == EngineShape /\ StartInv /\ SwapInv /\ CallInv

(* What each step of the start is called, and that what it uses is made.    *)
LEMMA StepNames ==
    /\ Len(Run!Steps) = 22
    /\ Run!Steps[1] = "arenas" /\ Run!Steps[2] = "cmdline" /\ Run!Steps[3] = "logger"
    /\ Run!Steps[4] = "window" /\ Run!Steps[5] = "commands" /\ Run!Steps[6] = "config"
    /\ Run!Steps[7] = "renderer" /\ Run!Steps[8] = "assets" /\ Run!Steps[9] = "scene"
    /\ Run!Steps[10] = "material" /\ Run!Steps[11] = "texture" /\ Run!Steps[12] = "mesh"
    /\ Run!Steps[13] = "shader" /\ Run!Steps[14] = "entity" /\ Run!Steps[15] = "loaders"
    /\ Run!Steps[16] = "index" /\ Run!Steps[17] = "blank" /\ Run!Steps[18] = "tests"
    /\ Run!Steps[19] = "editor" /\ Run!Steps[20] = "cursor" /\ Run!Steps[21] = "init"
    /\ Run!Steps[22] = "default"
  BY DEF Run!Steps
LEMMA StepPlaces ==
    ASSUME NEW n \in 1 .. 22
    PROVE  /\ Run!Steps[n] = "logger" <=> n = 3
           /\ Run!Steps[n] = "config" <=> n = 6
           /\ Run!Steps[n] = "assets" <=> n = 8
           /\ Run!Steps[n] = "loaders" <=> n = 15
           /\ Run!Steps[n] = "tests" <=> n = 18
           /\ Run!Steps[n] = "init" <=> n = 21
           /\ Run!Steps[n] = "default" <=> n = 22
<1>1. CASE n \in 1 .. 8
  BY <1>1, StepNames
<1>2. CASE n \in 9 .. 15
  BY <1>2, StepNames
<1>3. CASE n \in 16 .. 22
  BY <1>3, StepNames
<1>4. QED
  BY <1>1, <1>2, <1>3
LEMMA UsesAre ==
    /\ \A s \in {"arenas", "logger"} : Run!Uses(s) = {}
    /\ \A s \in {"cmdline", "window", "commands", "config", "scene", "material", "entity"} :
          Run!Uses(s) = {"arenas"}
    /\ \A s \in {"renderer", "cursor"} : Run!Uses(s) = {"arenas", "window"}
    /\ Run!Uses("assets") = {"arenas", "cmdline"}
    /\ \A s \in {"texture", "mesh", "shader"} : Run!Uses(s) = {"arenas", "renderer"}
    /\ Run!Uses("loaders") = {"assets"} \union Run!Types
    /\ Run!Uses("index") = {"assets", "arenas"}
    /\ \A s \in {"blank", "default"} : Run!Uses(s) = {"scene", "loaders", "index"}
    /\ Run!Uses("tests") = {"cmdline"}
    /\ Run!Uses("editor") = {"arenas", "assets", "renderer"}
    /\ Run!Uses("init") = {"config"}
  BY DEF Run!Uses
LEMMA PlaceBefore ==
    ASSUME NEW n \in 1 .. 22, NEW j \in 1 .. 22, j < n
    PROVE  Run!Steps[j] \in MadeBefore(n)
  BY DEF MadeBefore
LEMMA UsesMade ==
    ASSUME NEW n \in 1 .. 22
    PROVE  Run!Uses(Run!Steps[n]) \subseteq MadeBefore(n)
<1>1. \A j \in 1 .. 22 : j < n => Run!Steps[j] \in MadeBefore(n)
  BY PlaceBefore
<1> DEFINE M == MadeBefore(n)
<1>2. /\ n > 1 => "arenas" \in M
      /\ n > 2 => "cmdline" \in M
      /\ n > 4 => "window" \in M
      /\ n > 6 => "config" \in M
      /\ n > 7 => "renderer" \in M
      /\ n > 8 => "assets" \in M
      /\ n > 9 => "scene" \in M
      /\ n > 10 => "material" \in M
      /\ n > 11 => "texture" \in M
      /\ n > 12 => "mesh" \in M
      /\ n > 13 => "shader" \in M
      /\ n > 14 => "entity" \in M
      /\ n > 15 => "loaders" \in M
      /\ n > 16 => "index" \in M
  BY <1>1, StepNames
<1> HIDE DEF M
<1>3. n \in {1, 3} => Run!Uses(Run!Steps[n]) \subseteq M
  BY UsesAre, StepNames
<1>4. n \in {2, 4, 5, 6, 9, 10, 14} => Run!Uses(Run!Steps[n]) \subseteq M
  BY <1>2, UsesAre, StepNames
<1>5. n \in {7, 20} => Run!Uses(Run!Steps[n]) \subseteq M
  BY <1>2, UsesAre, StepNames
<1>6. n \in {8, 11, 12, 13} => Run!Uses(Run!Steps[n]) \subseteq M
  BY <1>2, UsesAre, StepNames
<1>7. n = 15 => Run!Uses(Run!Steps[n]) \subseteq M
  BY <1>2, UsesAre, StepNames DEF Run!Types
<1>8. n \in {16, 17, 22} => Run!Uses(Run!Steps[n]) \subseteq M
  BY <1>2, UsesAre, StepNames
<1>9. n \in {18, 19, 21} => Run!Uses(Run!Steps[n]) \subseteq M
  BY <1>2, UsesAre, StepNames
<1>10. QED
  BY <1>3, <1>4, <1>5, <1>6, <1>7, <1>8, <1>9 DEF M

(* What the steps change of the records.                                   *)
LEMMA MainMoved ==
    ASSUME s1 \in MainType, NEW p \in MainAt, s1' = [s1 EXCEPT !.pc = p]
    PROVE  s1' \in MainType /\ s1'.pc = p /\ s1'.step = s1.step
  BY DEF MainType

LEMMA MainClosed ==
    ASSUME s1 \in MainType, s1' = [s1 EXCEPT !.pc = "flush", !.running = FALSE]
    PROVE  s1' \in MainType /\ s1'.pc = "flush" /\ s1'.step = s1.step
  BY DEF MainType, MainAt

LEMMA MainForward ==
    ASSUME s1 \in MainType, s1' = Run!Forward
    PROVE  /\ s1' \in MainType
           /\ s1.step = 22 => s1'.pc = "tick" /\ s1'.step = 22
           /\ s1.step # 22 => s1'.pc = s1.pc /\ s1'.step = s1.step + 1
<1>1. CASE s1.step = 22
  <2>1. s1' = [s1 EXCEPT !.pc = "tick"]
    BY <1>1, StepNames DEF Run!Forward
  <2>2. QED
    BY <1>1, <2>1, MainMoved DEF MainAt
<1>2. CASE s1.step # 22
  <2>1. s1' = [s1 EXCEPT !.step = @ + 1]
    BY <1>2, StepNames DEF Run!Forward
  <2>2. QED
    BY <1>2, <2>1 DEF MainType
<1>3. QED
  BY <1>1, <1>2

LEMMA WorkerSent ==
    ASSUME s4 \in WorkerType, s4' = Run!SendScene
    PROVE  /\ s4' \in WorkerType /\ s4'.at = s4.at /\ s4'.jobs = s4.jobs + 1
           /\ s4'.slot = s4.slot /\ s4'.in = s4.in /\ s4'.log = s4.log
           /\ s4'.over <=> s4.over
<1> DEFINE j == s4.jobs + 1
           n == s4.sent + 1
<1>1. j \in Nat /\ n \in Nat
  BY DEF WorkerType
<1>2. s4' = [s4 EXCEPT !.jobs = j, !.sent = n]
  BY DEF Run!SendScene
<1>3. j = s4.jobs + 1
  OBVIOUS
<1> HIDE DEF j, n
<1>4. QED
  BY <1>1, <1>2, <1>3 DEF WorkerType

LEMMA WorkerStarted ==
    ASSUME s4 \in WorkerType, s4' = [s4 EXCEPT !.at = "idle"]
    PROVE  /\ s4' \in WorkerType /\ s4'.at = "idle" /\ s4'.jobs = s4.jobs
  BY DEF WorkerType, WorkerAt

LEMMA WorkerOverlapped ==
    ASSUME s4 \in WorkerType, s4' = Run!Overlapped
    PROVE  /\ s4' \in WorkerType /\ s4'.at = s4.at /\ s4'.jobs = s4.jobs
           /\ s4'.log = s4.log
           /\ s4'.over <=> s4.over \/ Run!InCallback
  BY DEF WorkerType, Run!Overlapped

LEMMA WorkerTook ==
    ASSUME s4 \in WorkerType, s4.jobs > 0,
           s4' = [s4 EXCEPT !.at = "message", !.jobs = @ - 1, !.over = FALSE]
    PROVE  /\ s4' \in WorkerType /\ s4'.at = "message" /\ s4'.jobs = s4.jobs - 1
<1> DEFINE j == s4.jobs - 1
<1>1. j \in Nat
  BY DEF WorkerType
<1>2. s4' = [s4 EXCEPT !.at = "message", !.jobs = j, !.over = FALSE]
  OBVIOUS
<1>3. j = s4.jobs - 1
  OBVIOUS
<1> HIDE DEF j
<1>4. QED
  BY <1>1, <1>2, <1>3 DEF WorkerType, WorkerAt

LEMMA WorkerHasLogger ==
    ASSUME s4 \in WorkerType, NEW n \in Nat, s4' = [s4 EXCEPT !.at = "log", !.log = n]
    PROVE  /\ s4' \in WorkerType /\ s4'.at = "log" /\ s4'.jobs = s4.jobs /\ s4'.log = n
  BY DEF WorkerType, WorkerAt

LEMMA WorkerUnlogged ==
    ASSUME s4 \in WorkerType, s4' = [s4 EXCEPT !.at = "load"]
    PROVE  /\ s4' \in WorkerType /\ s4'.at = "load" /\ s4'.jobs = s4.jobs
  BY DEF WorkerType, WorkerAt

LEMMA WorkerLogged ==
    ASSUME s4 \in WorkerType, NEW b \in BOOLEAN, s4' = [s4 EXCEPT !.at = "load", !.misused = b]
    PROVE  /\ s4' \in WorkerType /\ s4'.at = "load" /\ s4'.jobs = s4.jobs
  BY DEF WorkerType, WorkerAt

LEMMA WorkerLoaded ==
    ASSUME s4 \in WorkerType, NEW a \in {"slot", "idle"}, NEW b \in BOOLEAN,
           s4' = [s4 EXCEPT !.at = a, !.over = b]
    PROVE  /\ s4' \in WorkerType /\ s4'.at = a /\ s4'.jobs = s4.jobs
           /\ s4'.over <=> b
  BY DEF WorkerType, WorkerAt

LEMMA WorkerReadsSlot ==
    ASSUME s4 \in WorkerType, NEW i \in {0, 1},
           s4' = [s4 EXCEPT !.at = "subscriber", !.slot = i]
    PROVE  /\ s4' \in WorkerType /\ s4'.at = "subscriber" /\ s4'.jobs = s4.jobs
           /\ s4'.slot = i
           /\ s4'.over <=> s4.over
  BY DEF WorkerType, WorkerAt

LEMMA WorkerCalls ==
    ASSUME s4 \in WorkerType, NEW a \in {"idle", "app"}, NEW cb \in Library,
           s4' = [s4 EXCEPT !.at = a, !.in = cb]
    PROVE  /\ s4' \in WorkerType /\ s4'.at = a /\ s4'.jobs = s4.jobs
           /\ s4'.in = cb
           /\ s4'.over <=> s4.over
  BY DEF WorkerType, WorkerAt

LEMMA LoggerOpened ==
    ASSUME s5 \in LoggerType, NEW b \in BOOLEAN, s5' = [s5 EXCEPT !.sink = b]
    PROVE  s5' \in LoggerType
  BY DEF LoggerType

LEMMA LoggerGone ==
    ASSUME s5 \in LoggerType, s5' = [s5 EXCEPT !.age = @ + 1]
    PROVE  s5' \in LoggerType
<1> DEFINE n == s5.age + 1
<1>1. n \in Nat
  BY DEF LoggerType
<1>2. s5' = [s5 EXCEPT !.age = n]
  OBVIOUS
<1> HIDE DEF n
<1>3. QED
  BY <1>1, <1>2 DEF LoggerType

LEMMA MadeIs ==
    ASSUME EngineShape, StartInv, s1.pc = "boot"
    PROVE  /\ Run!Made(Run!Step) \in BootType
           /\ Run!Made(Run!Step).made = MadeBefore(s1.step + 1)
           /\ Run!Made(Run!Step).loaders = s2.loaders /\ ~Run!Made(Run!Step).failed
<1> DEFINE m == s2.made \union {Run!Step}
           f == s2.failed \/ ~(Run!Uses(Run!Step) \subseteq s2.made)
<1>1. s1.step \in 1 .. 22 /\ s2.made = MadeBefore(s1.step) /\ ~s2.failed /\ s2 \in BootType
  BY DEF EngineShape, MainType, StartInv
<1>2. m = MadeBefore(s1.step + 1) /\ m \subseteq MadeBefore(23)
  BY <1>1 DEF MadeBefore, Run!Step
<1>3. f = FALSE
  <2>1. Run!Uses(Run!Step) \subseteq s2.made
    BY <1>1, UsesMade DEF Run!Step
  <2>2. QED
    BY <1>1, <2>1
<1>4. Run!Made(Run!Step) = [s2 EXCEPT !.made = m, !.failed = f]
  BY DEF Run!Made
<1>5. Run!Made(Run!Step) = [s2 EXCEPT !.made = m, !.failed = FALSE]
  <2> HIDE DEF m, f
  <2>1. QED
    BY <1>3, <1>4
<1> HIDE DEF m, f
<1>6. QED
  BY <1>1, <1>2, <1>5 DEF BootType

LEMMA ConfigRead ==
    ASSUME NEW b \in BootType, ~b.failed, NEW c \in {"none", "user", "app", "dll"},
           s2' = [b EXCEPT !.cfg = c]
    PROVE  s2' \in BootType /\ s2'.made = b.made /\ s2'.loaders = b.loaders /\ ~s2'.failed
  BY DEF BootType

LEMMA LoaderAdded ==
    ASSUME NEW b \in BootType, NEW l \in SUBSET Run!Types, NEW f \in BOOLEAN, ~f,
           s2' = [b EXCEPT !.loaders = l, !.failed = f]
    PROVE  s2' \in BootType /\ s2'.made = b.made /\ s2'.loaders = l /\ ~s2'.failed
  BY DEF BootType

(* The slots with one of them changed.                                     *)
LEMMA SlotChanged ==
    ASSUME NEW x \in SlotType, NEW v \in Library
    PROVE  /\ [x EXCEPT !.cb = v] \in SlotType /\ [x EXCEPT !.cb = v].cb = v
           /\ [x EXCEPT !.cb = v].dll = x.dll
           /\ [x EXCEPT !.dll = v] \in SlotType /\ [x EXCEPT !.dll = v].dll = v
           /\ [x EXCEPT !.dll = v].cb = x.cb
  BY DEF SlotType

LEMMA SlotPut ==
    ASSUME NEW f \in [{0, 1} -> SlotType], NEW i \in {0, 1}, NEW x \in SlotType
    PROVE  /\ [f EXCEPT ![i] = x] \in [{0, 1} -> SlotType]
           /\ [f EXCEPT ![i] = x][i] = x
           /\ \A j \in {0, 1} : j # i => [f EXCEPT ![i] = x][j] = f[j]
  OBVIOUS

LEMMA LibraryRead ==
    ASSUME s3 \in AppType,
           s3' = [s3 EXCEPT !.slots[0] = Run!Slot(1, 1), !.loaded = {1}, !.next = 2]
    PROVE  /\ s3' \in AppType /\ s3'.active = s3.active /\ s3'.loaded = {1} /\ s3'.next = 2
           /\ s3'.slots[0].cb = 1 /\ s3'.slots[0].dll = 1
<1> DEFINE x == Run!Slot(1, 1)
           f == [s3.slots EXCEPT ![0] = x]
<1>1. x \in SlotType /\ x.cb = 1 /\ x.dll = 1
  BY DEF Run!Slot, SlotType, Library
<1> DEFINE l == {1}
           n == 2
<1>2. s3' = [s3 EXCEPT !.slots = f, !.loaded = l, !.next = n]
  OBVIOUS
<1>3. l \in SUBSET Nat /\ n \in Nat \ {0} /\ l = {1} /\ n = 2
  OBVIOUS
<1> HIDE DEF x, l, n
<1>4. f \in [{0, 1} -> SlotType] /\ f[0] = x
  BY <1>1, SlotPut DEF AppType
<1> HIDE DEF f
<1>5. s3' \in AppType /\ s3'.active = s3.active /\ s3'.loaded = l /\ s3'.next = n /\ s3'.slots = f
  BY <1>2, <1>3, <1>4 DEF AppType
<1>6. QED
  BY <1>1, <1>3, <1>4, <1>5

LEMMA LibrarySwapped ==
    ASSUME s3 \in AppType,
           s3' = [s3 EXCEPT !.slots[Run!NewSlot].cb = s3.next, !.loaded = @ \union {s3.next},
                            !.next = @ + 1]
    PROVE  /\ s3' \in AppType /\ s3'.active = s3.active
           /\ s3'.loaded = s3.loaded \union {s3.next} /\ s3'.next = s3.next + 1
           /\ s3'.slots[1 - s3.active].cb = s3.next
           /\ s3'.slots[s3.active] = s3.slots[s3.active]
<1> DEFINE i == 1 - s3.active
           x == [s3.slots[i] EXCEPT !.cb = s3.next]
           f == [s3.slots EXCEPT ![i] = x]
           l == s3.loaded \union {s3.next}
           n == s3.next + 1
<1>1. /\ i \in {0, 1} /\ i # s3.active /\ s3.active \in {0, 1}
      /\ s3.slots \in [{0, 1} -> SlotType] /\ s3.next \in Library
      /\ l \in SUBSET Nat /\ n \in Nat \ {0}
  BY DEF AppType, Library
<1>2. s3' = [s3 EXCEPT !.slots = f, !.loaded = l, !.next = n]
  BY DEF Run!NewSlot
<1>3. l = s3.loaded \union {s3.next} /\ n = s3.next + 1 /\ i = 1 - s3.active
  OBVIOUS
<1> HIDE DEF i, l, n
<1>4. s3.slots[i] \in SlotType
  BY <1>1
<1>5. x \in SlotType /\ x.cb = s3.next
  BY <1>1, <1>4, SlotChanged
<1> HIDE DEF x
<1>6. f \in [{0, 1} -> SlotType] /\ f[i] = x /\ f[s3.active] = s3.slots[s3.active]
  BY <1>1, <1>5, SlotPut
<1> HIDE DEF f
<1>7. QED
  BY <1>1, <1>2, <1>3, <1>5, <1>6 DEF AppType

LEMMA LibraryUnloaded ==
    ASSUME s3 \in AppType,
           s3' = [s3 EXCEPT !.loaded = @ \ {s3.slots[s3.active].dll}]
    PROVE  /\ s3' \in AppType /\ s3'.active = s3.active /\ s3'.next = s3.next
           /\ s3'.loaded = s3.loaded \ {s3.slots[s3.active].dll}
           /\ s3'.slots = s3.slots
  BY DEF AppType

LEMMA SlotCleared ==
    ASSUME s3 \in AppType,
           s3' = [s3 EXCEPT !.slots[s3.active] = Run!EmptySlot,
                            !.slots[Run!NewSlot].dll = s3.next - 1]
    PROVE  /\ s3' \in AppType /\ s3'.active = s3.active /\ s3'.next = s3.next
           /\ s3'.loaded = s3.loaded
           /\ s3'.slots[1 - s3.active].cb = s3.slots[1 - s3.active].cb
           /\ s3'.slots[1 - s3.active].dll = s3.next - 1
<1> DEFINE i == 1 - s3.active
           l == s3.next - 1
           e == [s3.slots EXCEPT ![s3.active] = Run!EmptySlot]
           x == [e[i] EXCEPT !.dll = l]
           f == [e EXCEPT ![i] = x]
           s == [s3 EXCEPT !.slots = e]
<1>1. /\ i \in {0, 1} /\ i # s3.active /\ s3.active \in {0, 1}
      /\ s3.slots \in [{0, 1} -> SlotType] /\ l \in Library
      /\ Run!EmptySlot \in SlotType
  BY DEF AppType, Library, SlotType, Run!EmptySlot, Run!Slot
<1>2. s3' = [s EXCEPT !.slots[i].dll = l]
  BY DEF Run!NewSlot
<1>3. l = s3.next - 1 /\ i = 1 - s3.active
  OBVIOUS
<1> HIDE DEF i, l
<1>4. e \in [{0, 1} -> SlotType] /\ e[i] = s3.slots[i]
  BY <1>1, SlotPut
<1> HIDE DEF e
<1>5. /\ s \in AppType /\ s.slots = e /\ s.active = s3.active /\ s.next = s3.next
      /\ s.loaded = s3.loaded
  BY <1>4 DEF AppType
<1> HIDE DEF s
<1>6. s3' = [s EXCEPT !.slots = f]
  BY <1>2, <1>5
<1>7. e[i] \in SlotType
  BY <1>1, <1>4
<1>8. x \in SlotType /\ x.cb = e[i].cb /\ x.dll = l
  BY <1>1, <1>7, SlotChanged
<1> HIDE DEF x
<1>9. f \in [{0, 1} -> SlotType] /\ f[i] = x
  BY <1>1, <1>4, <1>8, SlotPut
<1> HIDE DEF f
<1>10. QED
  BY <1>3, <1>4, <1>5, <1>6, <1>8, <1>9 DEF AppType

LEMMA SlotSwitched ==
    ASSUME s3 \in AppType, s3' = [s3 EXCEPT !.active = Run!NewSlot]
    PROVE  /\ s3' \in AppType /\ s3'.active = 1 - s3.active /\ s3'.next = s3.next
           /\ s3'.loaded = s3.loaded /\ s3'.slots = s3.slots
  BY DEF AppType, Run!NewSlot

LEMMA RunStart == None \notin Nat /\ Run!Init => EngineInv
<1> SUFFICES ASSUME None \notin Nat, Run!Init PROVE EngineInv
  OBVIOUS
<1>1. PICK tests \in BOOLEAN :
          s1 = [pc |-> "boot", step |-> 1, running |-> TRUE, tests |-> tests]
  BY DEF Run!Init
<1>2. s1 \in MainType /\ s1.pc = "boot" /\ s1.step = 1
  BY <1>1 DEF MainType, MainAt
<1>3. s2 = [made |-> {}, loaders |-> {}, cfg |-> "none", failed |-> FALSE]
  BY DEF Run!Init
<1>4. s2 \in BootType /\ s2.made = {} /\ s2.loaders = {} /\ ~s2.failed
  BY <1>3 DEF BootType
<1>5. s3 = [slots |-> [i \in {0, 1} |-> [cb |-> None, dll |-> None]], active |-> 0,
            loaded |-> {}, next |-> 1]
  BY DEF Run!Init, Run!EmptySlot, Run!Slot
<1>6. /\ s3 \in AppType /\ s3.active = 0 /\ s3.loaded = {} /\ s3.next = 1
      /\ s3.slots[0].cb = None /\ s3.slots[0].dll = None
  BY <1>5 DEF AppType, SlotType, Library
<1>7. s4 = [at |-> "none", jobs |-> 0, sent |-> 0, slot |-> 0, in |-> None, log |-> 0,
            over |-> FALSE, misused |-> FALSE]
  BY DEF Run!Init
<1>8. s4 \in WorkerType /\ s4.at = "none" /\ s4.jobs = 0
  BY <1>7 DEF WorkerType, WorkerAt, Library
<1>9. s5 = [sink |-> FALSE, age |-> 0]
  BY DEF Run!Init
<1>10. s5 \in LoggerType
  BY <1>9 DEF LoggerType
<1>11. EngineShape
  BY <1>2, <1>4, <1>6, <1>8, <1>10 DEF EngineShape
<1>12. StartInv
  BY <1>2, <1>4, <1>8 DEF StartInv, MadeBefore
<1>13. SwapInv
  BY <1>2, <1>6 DEF SwapInv
<1>14. CallInv
  BY <1>2, <1>8 DEF CallInv
<1>15. QED
  BY <1>11, <1>12, <1>13, <1>14 DEF EngineInv

(* The start.                                                              *)
LEMMA BootKeeps ==
    ASSUME None \notin Nat, EngineInv, EngineShape', s1.pc = "boot", s1.step # 15,
           \/ s1' = Run!Forward
           \/ s1'.pc \in {"removeLoggers", "exit"},
           s2'.made = MadeBefore(s1.step + 1), s2'.loaders = s2.loaders, ~s2'.failed,
           \/ s3' = s3
           \/ /\ s1.step = 6 /\ s3'.active = s3.active /\ s3'.loaded = {1} /\ s3'.next = 2
              /\ s3'.slots[0].cb = 1 /\ s3'.slots[0].dll = 1,
           \/ s4' = s4
           \/ s1.step = 8 /\ s4' = [s4 EXCEPT !.at = "idle"]
           \/ s1.step = 22 /\ s4' = Run!SendScene
    PROVE  EngineInv'
<1> USE None \notin Nat
<1>1. EngineShape /\ StartInv /\ SwapInv /\ CallInv
  BY DEF EngineInv
<1>2. /\ s1 \in MainType /\ s1' \in MainType /\ s4 \in WorkerType /\ s3 \in AppType
      /\ s1.step \in 1 .. 22 /\ s4.jobs \in Nat
  BY <1>1 DEF EngineShape, MainType, WorkerType
<1>3. \/ s1'.pc = "tick" /\ s1.step = 22
      \/ s1'.pc = "boot" /\ s1'.step = s1.step + 1 /\ s1.step # 22
      \/ s1'.pc \in {"removeLoggers", "exit"}
  BY <1>2, MainForward
<1>4. \/ s4' = s4
      \/ s1.step = 8 /\ s4'.at = "idle" /\ s4'.jobs = s4.jobs
      \/ /\ s1.step = 22 /\ s4'.at = s4.at /\ s4'.jobs = s4.jobs + 1 /\ s4'.slot = s4.slot
         /\ s4'.in = s4.in /\ s4'.log = s4.log
         /\ s4'.over <=> s4.over
  BY <1>2, WorkerStarted, WorkerSent
<1>5. StartInv'
  BY <1>1, <1>2, <1>3, <1>4 DEF StartInv
<1>6. SwapInv'
  <2>1. s3.active = 0 /\ s3'.active = 0
    BY <1>1 DEF SwapInv
  <2>2. s1'.pc \notin {"unload", "clear", "switch"}
    BY <1>3
  <2>3. CASE s3' = s3
    BY <1>1, <2>1, <2>2, <2>3 DEF SwapInv
  <2>4. CASE s3' # s3
    BY <1>1, <2>1, <2>2, <2>4 DEF SwapInv
  <2>5. QED
    BY <2>3, <2>4
<1>7. CallInv'
  <2>1. CASE s1.step <= 8
    <3>1. s4.at = "none" /\ s4'.at \in {"none", "idle"} /\ (s1.step # 8 => s4'.at = "none")
      BY <1>1, <1>2, <1>4, <2>1 DEF CallInv
    <3>2. QED
      BY <1>2, <1>3, <2>1, <3>1 DEF CallInv
  <2>2. CASE s1.step > 8
    <3>1. s3' = s3 /\ s1'.pc \notin {"clear", "switch"}
      BY <1>3, <2>2
    <3>2. /\ s4'.at = s4.at /\ s4'.slot = s4.slot /\ s4'.in = s4.in
          /\ s4'.over <=> s4.over
      BY <1>4, <2>2
    <3>3. ~(s1'.pc = "boot" /\ s1'.step <= 8)
      BY <1>2, <1>3, <2>2
    <3>4. QED
      BY <1>1, <1>3, <3>1, <3>2, <3>3, Zenon DEF CallInv
  <2>3. QED
    BY <1>2, <2>1, <2>2
<1>8. QED
  BY <1>5, <1>6, <1>7 DEF EngineInv

LEMMA LoadersKeep ==
    ASSUME None \notin Nat, EngineInv, NEW t \in Run!Types, Run!RegisterLoader(t)
    PROVE  EngineInv'
<1>1. EngineShape /\ StartInv /\ SwapInv /\ CallInv
  BY DEF EngineInv
<1>2. s1 \in MainType /\ s1.step \in 1 .. 22 /\ s1.pc = "boot" /\ s2 \in BootType
  BY <1>1 DEF EngineShape, MainType, Run!RegisterLoader, Run!Booting
<1>3. s1.step = 15
  BY <1>2, StepPlaces DEF Run!RegisterLoader, Run!Booting, Run!Step
<1>4. s3' = s3 /\ s4' = s4 /\ s5' = s5
  BY DEF Run!RegisterLoader
<1>5. t \in s2.made /\ "assets" \in s2.made
  <2>1. Run!Uses(Run!Steps[15]) \subseteq MadeBefore(15)
    BY UsesMade
  <2>2. s2.made = MadeBefore(15)
    BY <1>1, <1>2, <1>3 DEF StartInv
  <2>3. QED
    BY <2>1, <2>2, StepNames, UsesAre
<1> DEFINE l == s2.loaders \union {t}
<1>6. l \in SUBSET Run!Types
  BY <1>2 DEF BootType
<1>7. CASE l = Run!Types
  <2> DEFINE b == Run!Made("loaders")
  <2>1. b \in BootType /\ b.made = MadeBefore(16) /\ ~b.failed /\ b.loaders = s2.loaders
    BY <1>1, <1>2, <1>3, MadeIs, StepNames DEF Run!Step
  <2>2. s1' = Run!Forward
    BY <1>7 DEF Run!RegisterLoader
  <2>3. s2' = [b EXCEPT !.loaders = @ \union {t},
                        !.failed = @ \/ t \notin s2.made \/ "assets" \notin s2.made]
    BY <1>7 DEF Run!RegisterLoader
  <2> HIDE DEF b
  <2> DEFINE f == b.failed \/ t \notin s2.made \/ "assets" \notin s2.made
  <2>4. s2' = [b EXCEPT !.loaders = l, !.failed = f]
    BY <2>1, <2>3
  <2>5. f \in BOOLEAN /\ ~f
    BY <1>5, <2>1
  <2> HIDE DEF f, l
  <2>6. s2' \in BootType /\ s2'.made = b.made /\ s2'.loaders = l /\ ~s2'.failed
    BY <1>6, <2>1, <2>4, <2>5, LoaderAdded
  <2>7. s1' \in MainType /\ s1'.pc = "boot" /\ s1'.step = 16
    BY <1>2, <1>3, <2>2, MainForward
  <2>8. EngineShape'
    BY <1>1, <1>4, <2>6, <2>7 DEF EngineShape
  <2>9. StartInv'
    BY <1>7, <2>1, <2>6, <2>7 DEF StartInv
  <2>10. SwapInv' /\ CallInv'
    BY <1>1, <1>2, <1>3, <1>4, <2>7 DEF SwapInv, CallInv
  <2>11. QED
    BY <2>8, <2>9, <2>10 DEF EngineInv
<1>8. CASE l # Run!Types
  <2>1. s1' = s1
    BY <1>8 DEF Run!RegisterLoader
  <2>2. s2' = [s2 EXCEPT !.loaders = @ \union {t},
                         !.failed = @ \/ t \notin s2.made \/ "assets" \notin s2.made]
    BY <1>8 DEF Run!RegisterLoader
  <2> DEFINE f == s2.failed \/ t \notin s2.made \/ "assets" \notin s2.made
  <2>3. s2' = [s2 EXCEPT !.loaders = l, !.failed = f]
    BY <2>2
  <2>4. ~s2.failed
    BY <1>1 DEF StartInv
  <2>5. f \in BOOLEAN /\ ~f
    BY <1>5, <2>4
  <2> HIDE DEF f, l
  <2>6. s2' \in BootType /\ s2'.made = s2.made /\ s2'.loaders = l /\ ~s2'.failed
    BY <1>2, <1>6, <2>3, <2>4, <2>5, LoaderAdded
  <2>7. EngineShape'
    BY <1>1, <1>4, <2>1, <2>6 DEF EngineShape
  <2>8. StartInv'
    <3>1. s4.jobs > 0 => s2.loaders = Run!Types
      BY <1>1 DEF StartInv
    <3>2. s2.loaders = Run!Types => l = Run!Types
      BY DEF l
    <3>3. QED
      BY <1>1, <1>2, <1>3, <1>4, <2>1, <2>6, <3>1, <3>2 DEF StartInv
  <2>9. SwapInv' /\ CallInv'
    BY <1>1, <1>4, <2>1 DEF SwapInv, CallInv
  <2>10. QED
    BY <2>7, <2>8, <2>9 DEF EngineInv
<1>9. QED
  BY <1>7, <1>8

LEMMA BootStep ==
    ASSUME None \notin Nat, EngineInv,
           \/ Run!MakeSystem \/ Run!StartLogger \/ Run!ReadConfig \/ Run!StartAssets
           \/ Run!RunTests \/ Run!DefaultScene
    PROVE  EngineInv'
<1>1. EngineShape /\ StartInv
  BY DEF EngineInv
<1>2. /\ s1 \in MainType /\ s1.step \in 1 .. 22 /\ s2 \in BootType /\ s3 \in AppType
      /\ s4 \in WorkerType /\ s5 \in LoggerType
  BY <1>1 DEF EngineShape, MainType
<1>3. s1.pc = "boot"
  BY DEF Run!MakeSystem, Run!StartLogger, Run!ReadConfig, Run!StartAssets, Run!RunTests,
         Run!DefaultScene, Run!Booting
<1> DEFINE b == Run!Made(Run!Step)
<1>4. b \in BootType /\ b.made = MadeBefore(s1.step + 1) /\ b.loaders = s2.loaders /\ ~b.failed
  BY <1>1, <1>3, MadeIs
<1>5. s1' = Run!Forward => s1' \in MainType
  BY <1>2, MainForward
<1> HIDE DEF b
<1>6. CASE Run!MakeSystem
  <2>1. s1' = Run!Forward /\ s2' = b /\ s3' = s3 /\ s4' = s4 /\ s5' = s5 /\ s1.step # 15
    BY <1>2, <1>6, StepPlaces DEF Run!MakeSystem, b, Run!Step
  <2>2. EngineShape'
    BY <1>1, <1>4, <1>5, <2>1 DEF EngineShape
  <2>3. QED
    BY <1>3, <1>4, <2>1, <2>2, BootKeeps
<1>7. CASE Run!StartLogger
  <2>1. s2' = b /\ s3' = s3 /\ s4' = s4 /\ s1.step = 3
    BY <1>2, <1>7, StepPlaces DEF Run!StartLogger, Run!Booting, b, Run!Step
  <2>2. PICK ok \in BOOLEAN :
            /\ s5' = [s5 EXCEPT !.sink = ok]
            /\ s1' = IF ok THEN Run!Forward ELSE [s1 EXCEPT !.pc = "exit"]
    BY <1>7 DEF Run!StartLogger
  <2>3. s1' \in MainType /\ (s1' = Run!Forward \/ s1'.pc = "exit")
    <3>1. s1' = Run!Forward \/ s1' = [s1 EXCEPT !.pc = "exit"]
      BY <2>2
    <3>2. QED
      BY <1>2, <1>5, <3>1, MainMoved DEF MainAt
  <2>4. s5' \in LoggerType
    BY <1>2, <2>2, LoggerOpened
  <2>5. EngineShape'
    BY <1>1, <1>4, <2>1, <2>3, <2>4 DEF EngineShape
  <2>6. QED
    BY <1>3, <1>4, <2>1, <2>3, <2>5, BootKeeps
<1>8. CASE Run!ReadConfig
  <2>1. s1' = Run!Forward /\ s4' = s4 /\ s5' = s5 /\ s1.step = 6
    BY <1>2, <1>8, StepPlaces DEF Run!ReadConfig, Run!Booting, Run!Step
  <2>2. PICK cfg \in {"none", "user", "app", "dll"} :
            /\ s2' = [b EXCEPT !.cfg = cfg]
            /\ s3' = IF cfg # "dll" THEN s3
                     ELSE [s3 EXCEPT !.slots[0] = Run!Slot(1, 1), !.loaded = {1}, !.next = 2]
    BY <1>8 DEF Run!ReadConfig, Run!Booting, b
  <2>3. s2' \in BootType /\ s2'.made = b.made /\ s2'.loaders = b.loaders /\ ~s2'.failed
    BY <1>4, <2>2, ConfigRead
  <2>4. /\ s3' \in AppType
        /\ \/ s3' = s3
           \/ /\ s3'.active = s3.active /\ s3'.loaded = {1} /\ s3'.next = 2
              /\ s3'.slots[0].cb = 1 /\ s3'.slots[0].dll = 1
    BY <1>2, <2>2, LibraryRead
  <2>5. EngineShape'
    BY <1>1, <1>5, <2>1, <2>3, <2>4 DEF EngineShape
  <2>6. QED
    BY <1>3, <1>4, <2>1, <2>3, <2>4, <2>5, BootKeeps
<1>9. CASE Run!StartAssets
  <2>1. /\ s1' = Run!Forward /\ s2' = b /\ s3' = s3 /\ s5' = s5 /\ s1.step = 8
        /\ s4' = [s4 EXCEPT !.at = "idle"]
    BY <1>2, <1>9, StepPlaces DEF Run!StartAssets, Run!Booting, b, Run!Step
  <2>2. EngineShape'
    BY <1>1, <1>2, <1>4, <1>5, <2>1, WorkerStarted DEF EngineShape
  <2>3. QED
    BY <1>3, <1>4, <2>1, <2>2, BootKeeps
<1>10. CASE Run!RunTests
  <2>1. s2' = b /\ s3' = s3 /\ s4' = s4 /\ s5' = s5 /\ s1.step = 18
    BY <1>2, <1>10, StepPlaces DEF Run!RunTests, Run!Booting, b, Run!Step
  <2>2. s1' = Run!Forward \/ s1' = [s1 EXCEPT !.pc = "removeLoggers"]
    BY <1>10 DEF Run!RunTests
  <2>3. s1' \in MainType /\ (s1' = Run!Forward \/ s1'.pc = "removeLoggers")
    BY <1>2, <1>5, <2>2, MainMoved DEF MainAt
  <2>4. EngineShape'
    BY <1>1, <1>4, <2>1, <2>3 DEF EngineShape
  <2>5. QED
    BY <1>3, <1>4, <2>1, <2>3, <2>4, BootKeeps
<1>11. CASE Run!DefaultScene
  <2>1. /\ s1' = Run!Forward /\ s2' = b /\ s3' = s3 /\ s5' = s5 /\ s1.step = 22
        /\ s4' = s4 \/ s4' = Run!SendScene
    BY <1>2, <1>11, StepPlaces DEF Run!DefaultScene, Run!Booting, b, Run!Step
  <2>2. EngineShape'
    BY <1>1, <1>2, <1>4, <1>5, <2>1, WorkerSent DEF EngineShape
  <2>3. QED
    BY <1>3, <1>4, <2>1, <2>2, BootKeeps
<1>12. QED
  BY <1>6, <1>7, <1>8, <1>9, <1>10, <1>11

(* The frames and the end.                                                  *)
LEMMA FrameStep ==
    ASSUME None \notin Nat, EngineInv,
           Run!Tick \/ Run!Frame \/ Run!CallShutdown \/ Run!ChangeScene
    PROVE  EngineInv'
<1>1. EngineShape /\ StartInv /\ SwapInv /\ CallInv
  BY DEF EngineInv
<1>2. s1 \in MainType /\ s4 \in WorkerType /\ s4.jobs \in Nat
  BY <1>1 DEF EngineShape, WorkerType
<1>3. CASE Run!Tick \/ Run!Frame \/ Run!CallShutdown
  <2>1. s2' = s2 /\ s3' = s3 /\ s4' = s4 /\ s5' = s5
    BY <1>3 DEF Run!Tick, Run!Frame, Run!CallShutdown
  <2>2. /\ s1' \in MainType
        /\ \/ /\ s1.pc \in {"tick", "flush"}
              /\ s1'.pc \in {"flush", "tick", "shutdown"}
           \/ s1.pc = "shutdown" /\ s1'.pc = "removeLoggers"
    <3>1. CASE Run!Tick
      <4>1. s1.pc = "tick"
        BY <3>1 DEF Run!Tick
      <4>2. s1' = [s1 EXCEPT !.pc = "flush"] \/ s1' = [s1 EXCEPT !.pc = "flush", !.running = FALSE]
        BY <3>1 DEF Run!Tick
      <4>3. s1' \in MainType /\ s1'.pc = "flush"
        BY <1>2, <4>2, MainMoved, MainClosed DEF MainAt
      <4>4. QED
        BY <4>1, <4>3
    <3>2. CASE Run!Frame
      <4>1. PICK p \in {"tick", "shutdown"} : s1' = [s1 EXCEPT !.pc = p]
        BY <3>2 DEF Run!Frame
      <4>2. s1' \in MainType /\ s1'.pc = p
        BY <1>2, <4>1, MainMoved DEF MainAt
      <4>3. s1.pc = "flush"
        BY <3>2 DEF Run!Frame
      <4>4. QED
        BY <4>2, <4>3
    <3>3. CASE Run!CallShutdown
      <4>1. s1' = [s1 EXCEPT !.pc = "removeLoggers"] /\ s1.pc = "shutdown"
        BY <3>3 DEF Run!CallShutdown
      <4>2. QED
        BY <1>2, <4>1, MainMoved DEF MainAt
    <3>4. QED
      BY <1>3, <3>1, <3>2, <3>3
  <2>3. EngineShape'
    BY <1>1, <2>1, <2>2 DEF EngineShape
  <2>4. StartInv'
    BY <1>1, <2>1, <2>2 DEF StartInv
  <2>5. SwapInv'
    BY <1>1, <2>1, <2>2 DEF SwapInv
  <2>6. CallInv'
    BY <1>1, <2>1, <2>2 DEF CallInv
  <2>7. QED
    BY <2>3, <2>4, <2>5, <2>6 DEF EngineInv
<1>4. CASE Run!ChangeScene
  <2>1. s1' = s1 /\ s2' = s2 /\ s3' = s3 /\ s5' = s5 /\ s4' = Run!SendScene /\ s1.pc = "flush"
    BY <1>4 DEF Run!ChangeScene
  <2>2. /\ s4' \in WorkerType /\ s4'.at = s4.at /\ s4'.jobs = s4.jobs + 1
        /\ s4'.slot = s4.slot /\ s4'.in = s4.in /\ s4'.log = s4.log
        /\ s4'.over <=> s4.over
    BY <1>2, <2>1, WorkerSent
  <2>3. EngineShape'
    BY <1>1, <2>1, <2>2 DEF EngineShape
  <2>4. StartInv'
    BY <1>1, <2>1 DEF StartInv
  <2>5. SwapInv'
    BY <1>1, <2>1 DEF SwapInv
  <2>6. CallInv'
    BY <1>1, <2>1, <2>2 DEF CallInv
  <2>7. QED
    BY <2>3, <2>4, <2>5, <2>6 DEF EngineInv
<1>5. QED
  BY <1>3, <1>4

LEMMA EndStep ==
    ASSUME None \notin Nat, EngineInv, Run!RemoveLoggers \/ Run!ResetSinks
    PROVE  EngineInv'
<1>1. EngineShape /\ StartInv /\ SwapInv /\ CallInv
  BY DEF EngineInv
<1>2. s1 \in MainType /\ s5 \in LoggerType
  BY <1>1 DEF EngineShape
<1>3. s2' = s2 /\ s3' = s3 /\ s4' = s4
  BY DEF Run!RemoveLoggers, Run!ResetSinks
<1>4. /\ s1' \in MainType /\ s5' \in LoggerType
      /\ \/ s1.pc = "removeLoggers" /\ s1'.pc = "resetSinks"
         \/ s1.pc = "resetSinks" /\ s1'.pc = "exit"
  <2>1. CASE Run!RemoveLoggers
    <3>1. /\ s1.pc = "removeLoggers" /\ s1' = [s1 EXCEPT !.pc = "resetSinks"]
          /\ s5' = [s5 EXCEPT !.age = @ + 1]
      BY <2>1 DEF Run!RemoveLoggers
    <3>2. QED
      BY <1>2, <3>1, LoggerGone, MainMoved DEF MainAt
  <2>2. CASE Run!ResetSinks
    <3>1. /\ s1.pc = "resetSinks" /\ s1' = [s1 EXCEPT !.pc = "exit"]
          /\ s5' = [s5 EXCEPT !.sink = FALSE]
      BY <2>2 DEF Run!ResetSinks
    <3>2. QED
      BY <1>2, <3>1, LoggerOpened, MainMoved DEF MainAt
  <2>3. QED
    BY <2>1, <2>2
<1>5. EngineShape'
  BY <1>1, <1>3, <1>4 DEF EngineShape
<1>6. StartInv'
  BY <1>1, <1>3, <1>4 DEF StartInv
<1>7. SwapInv'
  BY <1>1, <1>3, <1>4 DEF SwapInv
<1>8. CallInv'
  BY <1>1, <1>3, <1>4 DEF CallInv
<1>9. QED
  BY <1>5, <1>6, <1>7, <1>8 DEF EngineInv

(* The swap of the app's library; one that does not load leaves everything  *)
(* but the number that the next one gets.                                    *)
LEMMA SwapFails ==
    ASSUME None \notin Nat, EngineInv, Run!SwapLoad, s1' = s1
    PROVE  EngineInv'
<1>1. EngineShape /\ StartInv /\ SwapInv /\ CallInv
  BY DEF EngineInv
<1>2. s1 \in MainType /\ s3 \in AppType /\ s3.next \in Nat \ {0} /\ s3.loaded \subseteq Nat
  BY <1>1 DEF EngineShape, AppType
<1>3. s1.pc = "flush" /\ s2' = s2 /\ s4' = s4 /\ s5' = s5
  BY DEF Run!SwapLoad
<1>4. s3' = [s3 EXCEPT !.next = @ + 1]
  <2>1. s1 # [s1 EXCEPT !.pc = "unload"]
    BY <1>2, <1>3 DEF MainType
  <2>2. QED
    BY <2>1 DEF Run!SwapLoad
<1>5. /\ s3' \in AppType /\ s3'.slots = s3.slots /\ s3'.active = s3.active
      /\ s3'.loaded = s3.loaded /\ s3'.next = s3.next + 1
  <2> DEFINE n == s3.next + 1
  <2>1. n \in Nat \ {0} /\ s3' = [s3 EXCEPT !.next = n]
    BY <1>2, <1>4
  <2>2. n = s3.next + 1
    OBVIOUS
  <2> HIDE DEF n
  <2>3. QED
    BY <1>2, <2>1, <2>2 DEF AppType
<1>6. EngineShape' /\ StartInv'
  BY <1>1, <1>3, <1>5 DEF EngineShape, StartInv
<1>7. SwapInv'
  <2>1. \A l \in s3'.loaded : l < s3'.next
    BY <1>1, <1>2, <1>5 DEF SwapInv
  <2>2. QED
    BY <1>1, <1>3, <1>5, <2>1 DEF SwapInv
<1>8. CallInv'
  BY <1>1, <1>3, <1>5 DEF CallInv
<1>9. QED
  BY <1>6, <1>7, <1>8 DEF EngineInv

LEMMA SwapStep ==
    ASSUME None \notin Nat, EngineInv,
           \/ Run!SwapLoad /\ s1' # s1
           \/ Run!SwapUnload \/ Run!SwapClear \/ Run!SwapSwitch
    PROVE  EngineInv'
<1>0. Run!SwapLoad =>
          /\ s1' = [s1 EXCEPT !.pc = "unload"]
          /\ s3' = [s3 EXCEPT !.slots[Run!NewSlot].cb = s3.next,
                              !.loaded = @ \union {s3.next}, !.next = @ + 1]
  <2>1. SUFFICES ASSUME Run!SwapLoad, s1' # s1
                 PROVE  /\ s1' = [s1 EXCEPT !.pc = "unload"]
                        /\ s3' = [s3 EXCEPT !.slots[Run!NewSlot].cb = s3.next,
                                            !.loaded = @ \union {s3.next}, !.next = @ + 1]
    BY DEF Run!SwapLoad, Run!SwapUnload, Run!SwapClear, Run!SwapSwitch
  <2>2. QED
    BY <2>1 DEF Run!SwapLoad
<1>1. EngineShape /\ StartInv /\ SwapInv /\ CallInv
  BY DEF EngineInv
<1>2. /\ s1 \in MainType /\ s3 \in AppType /\ s4 \in WorkerType
      /\ s3.next \in Nat \ {0} /\ s3.active \in {0, 1} /\ s3.loaded \subseteq Nat
      /\ s4.at \in WorkerAt
  BY <1>1 DEF EngineShape, AppType, WorkerType
<1>3. s2' = s2 /\ s5' = s5
  BY DEF Run!SwapLoad, Run!SwapUnload, Run!SwapClear, Run!SwapSwitch
<1>4. /\ s1' \in MainType
      /\ \/ Run!SwapLoad /\ s1.pc = "flush" /\ s1'.pc = "unload"
         \/ Run!SwapUnload /\ s1.pc = "unload" /\ s1'.pc = "clear"
         \/ Run!SwapClear /\ s1.pc = "clear" /\ s1'.pc = "switch"
         \/ Run!SwapSwitch /\ s1.pc = "switch" /\ s1'.pc = "flush"
  <2>1. PICK p \in MainAt :
            /\ s1' = [s1 EXCEPT !.pc = p]
            /\ \/ Run!SwapLoad /\ s1.pc = "flush" /\ p = "unload"
               \/ Run!SwapUnload /\ s1.pc = "unload" /\ p = "clear"
               \/ Run!SwapClear /\ s1.pc = "clear" /\ p = "switch"
               \/ Run!SwapSwitch /\ s1.pc = "switch" /\ p = "flush"
    <3>1. CASE Run!SwapLoad
      BY <1>0, <3>1 DEF MainAt, Run!SwapLoad
    <3>2. CASE Run!SwapUnload \/ Run!SwapClear \/ Run!SwapSwitch
      BY <3>2 DEF MainAt, Run!SwapUnload, Run!SwapClear, Run!SwapSwitch
    <3>3. QED
      BY <3>1, <3>2
  <2>2. s1' \in MainType /\ s1'.pc = p
    BY <1>2, <2>1, MainMoved
  <2>3. QED
    BY <2>1, <2>2
<1>5. /\ s4' \in WorkerType /\ s4'.at = s4.at /\ s4'.jobs = s4.jobs /\ s4'.log = s4.log
      /\ Run!SwapLoad => s4' = s4
      /\ ~Run!SwapLoad => (s4'.over <=> s4.over \/ Run!InCallback)
  <2>1. CASE s4' = s4 /\ Run!SwapLoad
    BY <1>2, <2>1
  <2>2. CASE s4' = Run!Overlapped /\ ~Run!SwapLoad
    BY <1>2, <2>2, WorkerOverlapped
  <2>3. QED
    BY <2>1, <2>2 DEF Run!SwapLoad, Run!SwapUnload, Run!SwapClear, Run!SwapSwitch
<1>6. ~Run!SwapLoad => s4'.over \/ s4'.at \notin {"slot", "subscriber", "app"}
  BY <1>5 DEF Run!InCallback
<1>7. StartInv'
  BY <1>1, <1>3, <1>4, <1>5 DEF StartInv
<1>8. s3' \in AppType /\ SwapInv' /\ CallInv'
  <2>1. CASE Run!SwapLoad
    <3>1. s1.pc = "flush" /\ s1'.pc = "unload" /\ s4' = s4
      BY <1>4, <1>5, <2>1 DEF Run!SwapLoad
    <3>2. /\ s3' \in AppType /\ s3'.active = s3.active
          /\ s3'.loaded = s3.loaded \union {s3.next} /\ s3'.next = s3.next + 1
          /\ s3'.slots[1 - s3.active].cb = s3.next
          /\ s3'.slots[s3.active] = s3.slots[s3.active]
      BY <1>0, <1>2, <2>1, LibrarySwapped
    <3>3. CallInv'
      BY <1>1, <3>1, <3>2 DEF CallInv
    <3>4. s3.slots[s3.active].dll # s3.next
      BY <1>1, <1>2, <3>1 DEF SwapInv
    <3>5. SwapInv'
      <4>1. \A l \in s3'.loaded : l < s3'.next
        BY <1>1, <1>2, <3>2 DEF SwapInv
      <4>2. s3'.next - 1 = s3.next
        BY <1>2, <3>2
      <4>3. QED
        BY <1>1, <3>1, <3>2, <3>4, <4>1, <4>2 DEF SwapInv
    <3>6. QED
      BY <3>2, <3>3, <3>5
  <2>2. CASE Run!SwapUnload
    <3>1. s1.pc = "unload" /\ s1'.pc = "clear" /\ ~Run!SwapLoad
      BY <1>4, <2>2 DEF Run!SwapUnload, Run!SwapLoad
    <3>2. /\ s3' \in AppType /\ s3'.active = s3.active /\ s3'.next = s3.next
          /\ s3'.loaded = s3.loaded \ {s3.slots[s3.active].dll}
          /\ s3'.slots = s3.slots
      BY <1>2, <2>2, LibraryUnloaded DEF Run!SwapUnload
    <3>3. CallInv'
      BY <1>6, <3>1 DEF CallInv
    <3>4. s3'.loaded = {s3.next - 1}
      BY <1>1, <3>1, <3>2 DEF SwapInv
    <3>5. s3.next - 1 < s3.next
      BY <1>2
    <3>6. SwapInv'
      BY <1>1, <3>1, <3>2, <3>4, <3>5 DEF SwapInv
    <3>7. QED
      BY <3>2, <3>3, <3>6
  <2>3. CASE Run!SwapClear
    <3>1. s1.pc = "clear" /\ s1'.pc = "switch" /\ ~Run!SwapLoad
      BY <1>4, <2>3 DEF Run!SwapClear, Run!SwapLoad
    <3>2. /\ s3' \in AppType /\ s3'.active = s3.active /\ s3'.next = s3.next
          /\ s3'.loaded = s3.loaded
          /\ s3'.slots[1 - s3.active].cb = s3.slots[1 - s3.active].cb
          /\ s3'.slots[1 - s3.active].dll = s3.next - 1
      BY <1>2, <2>3, SlotCleared DEF Run!SwapClear
    <3>3. CallInv'
      BY <1>6, <3>1 DEF CallInv
    <3>4. SwapInv'
      BY <1>1, <3>1, <3>2 DEF SwapInv
    <3>5. QED
      BY <3>2, <3>3, <3>4
  <2>4. CASE Run!SwapSwitch
    <3>1. s1.pc = "switch" /\ s1'.pc = "flush" /\ ~Run!SwapLoad
      BY <1>4, <2>4 DEF Run!SwapSwitch, Run!SwapLoad
    <3>2. /\ s3' \in AppType /\ s3'.active = 1 - s3.active /\ s3'.next = s3.next
          /\ s3'.loaded = s3.loaded /\ s3'.slots = s3.slots
      BY <1>2, <2>4, SlotSwitched DEF Run!SwapSwitch
    <3>3. CallInv'
      BY <1>6, <3>1 DEF CallInv
    <3>4. s3.next - 1 # None
      BY <1>2
    <3>5. SwapInv'
      BY <1>1, <3>1, <3>2, <3>4 DEF SwapInv
    <3>6. QED
      BY <3>2, <3>3, <3>5
  <2>5. QED
    BY <2>1, <2>2, <2>3, <2>4
<1>9. EngineShape'
  BY <1>1, <1>3, <1>4, <1>5, <1>8 DEF EngineShape
<1>10. QED
  BY <1>7, <1>8, <1>9 DEF EngineInv

(* The compiler thread.                                                    *)
LEMMA WorkerStep ==
    ASSUME None \notin Nat, EngineInv,
           \/ Run!TakeJob \/ Run!GetLogger \/ Run!UseLogger \/ Run!LoadScene
           \/ Run!ReadSlot \/ Run!ReadSubscriber \/ Run!SubscriberReturns
    PROVE  EngineInv'
<1>1. EngineShape /\ StartInv /\ SwapInv /\ CallInv
  BY DEF EngineInv
<1>2. /\ s3 \in AppType /\ s4 \in WorkerType /\ s5 \in LoggerType /\ s4.jobs \in Nat
      /\ s5.age \in Nat /\ s3.active \in {0, 1} /\ s4.slot \in {0, 1}
  BY <1>1 DEF EngineShape, AppType, WorkerType, LoggerType
<1>3. /\ s1' = s1 /\ s2' = s2 /\ s3' = s3 /\ s1.pc # "exit" /\ s4.at # "none"
      /\ s4.at = "idle" => s4.jobs > 0
  BY DEF Run!TakeJob, Run!GetLogger, Run!UseLogger, Run!LoadScene, Run!ReadSlot,
         Run!ReadSubscriber, Run!SubscriberReturns, Run!At
<1>4. s5' = s5
  BY DEF Run!TakeJob, Run!GetLogger, Run!UseLogger, Run!LoadScene, Run!ReadSlot,
         Run!ReadSubscriber, Run!SubscriberReturns
<1>5. SwapInv'
  BY <1>1, <1>3 DEF SwapInv
<1>6. ~(s1.pc = "boot" /\ s1.step <= 8)
  BY <1>1, <1>3 DEF CallInv
<1>7. SUFFICES /\ s4' \in WorkerType /\ s4'.jobs <= s4.jobs /\ s4'.jobs \in Nat
               /\ ~s4'.over =>
                     /\ s4'.at \in {"slot", "subscriber", "app"} => s1.pc \notin {"clear", "switch"}
                     /\ s4'.at = "subscriber" => s4'.slot = s3.active
                     /\ s4'.at = "app" => s4'.in = s3.slots[s3.active].cb /\ s4'.in # None
  <2>1. EngineShape'
    BY <1>1, <1>3, <1>4, <1>7 DEF EngineShape
  <2>2. StartInv'
    <3>1. s4'.jobs > 0 => s4.jobs > 0
      BY <1>2, <1>7
    <3>2. QED
      BY <1>1, <1>3, <3>1 DEF StartInv
  <2>3. CallInv'
    BY <1>3, <1>6, <1>7 DEF CallInv
  <2>4. QED
    BY <1>5, <2>1, <2>2, <2>3 DEF EngineInv
<1>8. CASE Run!TakeJob
  <2>1. /\ s5' = s5 /\ s4.jobs > 0
        /\ s4' = [s4 EXCEPT !.at = "message", !.jobs = @ - 1, !.over = FALSE]
    BY <1>8 DEF Run!TakeJob
  <2>2. /\ s4' \in WorkerType /\ s4'.at = "message" /\ s4'.jobs = s4.jobs - 1
    BY <1>2, <2>1, WorkerTook
  <2>3. s4'.jobs <= s4.jobs /\ s4'.jobs \in Nat
    BY <1>2, <2>1, <2>2
  <2>4. QED
    BY <1>2, <2>1, <2>2, <2>3
<1>9. CASE Run!GetLogger
  <2>1. \/ s4' = [s4 EXCEPT !.at = "log", !.log = s5.age]
        \/ s4' = [s4 EXCEPT !.at = "load"]
    BY <1>9 DEF Run!GetLogger
  <2>2. s4' \in WorkerType /\ s4'.at \in {"log", "load"} /\ s4'.jobs = s4.jobs
    BY <1>2, <2>1, WorkerHasLogger, WorkerUnlogged
  <2>3. QED
    BY <1>2, <2>2
<1>10. CASE Run!UseLogger
  <2> DEFINE b == s4.misused \/ s4.log # s5.age \/ s1.pc = "resetSinks"
  <2>1. s4' = [s4 EXCEPT !.at = "load", !.misused = b]
    BY <1>10 DEF Run!UseLogger
  <2>2. b \in BOOLEAN
    BY <1>2 DEF WorkerType
  <2> HIDE DEF b
  <2>3. s4' \in WorkerType /\ s4'.at = "load" /\ s4'.jobs = s4.jobs
    BY <1>2, <2>1, <2>2, WorkerLogged
  <2>4. QED
    BY <1>2, <2>3
<1>11. CASE Run!LoadScene
  <2> DEFINE b == s1.pc \in {"clear", "switch"}
  <2>1. PICK a \in {"slot", "idle"} : s5' = s5 /\ s4' = [s4 EXCEPT !.at = a, !.over = b]
    BY <1>11 DEF Run!LoadScene
  <2>2. b \in BOOLEAN /\ (~b => s1.pc \notin {"clear", "switch"})
    OBVIOUS
  <2> HIDE DEF b
  <2>3. /\ s4' \in WorkerType /\ s4'.at = a /\ s4'.jobs = s4.jobs
        /\ s4'.over <=> b
    BY <1>2, <2>1, <2>2, WorkerLoaded
  <2>4. QED
    BY <1>2, <2>1, <2>2, <2>3
<1>12. CASE Run!ReadSlot
  <2>1. /\ s5' = s5 /\ s4' = [s4 EXCEPT !.at = "subscriber", !.slot = s3.active]
        /\ s4.at = "slot"
    BY <1>12 DEF Run!ReadSlot, Run!At
  <2>2. /\ s4' \in WorkerType /\ s4'.at = "subscriber" /\ s4'.jobs = s4.jobs
        /\ s4'.slot = s3.active
        /\ s4'.over <=> s4.over
    BY <1>2, <2>1, WorkerReadsSlot
  <2>3. ~s4'.over => s1.pc \notin {"clear", "switch"}
    BY <1>1, <2>1, <2>2 DEF CallInv
  <2>4. QED
    BY <1>2, <2>1, <2>2, <2>3
<1>13. CASE Run!ReadSubscriber
  <2> DEFINE cb == s3.slots[s4.slot].cb
  <2>1. /\ s5' = s5 /\ s4.at = "subscriber"
        /\ s4' = [s4 EXCEPT !.at = IF cb = None THEN "idle" ELSE "app", !.in = cb]
    BY <1>13 DEF Run!ReadSubscriber, Run!At
  <2>2. PICK a \in {"idle", "app"} :
            s4' = [s4 EXCEPT !.at = a, !.in = cb] /\ (a = "app" => cb # None)
    BY <2>1
  <2>3. cb \in Library
    BY <1>2 DEF AppType, SlotType
  <2>4. ~s4.over => s4.slot = s3.active
    BY <1>1, <2>1 DEF CallInv
  <2>5. ~s4.over => s1.pc \notin {"clear", "switch"}
    BY <1>1, <2>1 DEF CallInv
  <2>6. ~s4.over => cb = s3.slots[s3.active].cb
    BY <2>4
  <2> HIDE DEF cb
  <2>7. /\ s4' \in WorkerType /\ s4'.at = a /\ s4'.jobs = s4.jobs
        /\ s4'.in = cb
        /\ s4'.over <=> s4.over
    BY <1>2, <2>2, <2>3, WorkerCalls
  <2>8. QED
    BY <1>2, <2>1, <2>2, <2>5, <2>6, <2>7
<1>14. CASE Run!SubscriberReturns
  <2>1. s5' = s5 /\ s4' = [s4 EXCEPT !.at = "idle", !.in = None]
    BY <1>14 DEF Run!SubscriberReturns
  <2>2. /\ s4' \in WorkerType /\ s4'.at = "idle" /\ s4'.jobs = s4.jobs
    BY <1>2, <2>1, WorkerCalls DEF Library
  <2>3. QED
    BY <1>2, <2>1, <2>2
<1>15. QED
  BY <1>8, <1>9, <1>10, <1>11, <1>12, <1>13, <1>14

LEMMA RunKeeps == None \notin Nat /\ EngineInv /\ Run!Next => EngineInv'
  BY LoadersKeep, BootStep, FrameStep, EndStep, SwapFails, SwapStep, WorkerStep DEF Run!Next

LEMMA RunHolds ==
    EngineInv => /\ Run!StartIsInOrder
                 /\ Run!MainCallsLoadedCode /\ Run!WorkerCallsLoadedCode
<1> SUFFICES ASSUME EngineInv
             PROVE  /\ Run!StartIsInOrder
                    /\ Run!MainCallsLoadedCode /\ Run!WorkerCallsLoadedCode
  OBVIOUS
<1>1. StartInv /\ SwapInv /\ CallInv
  BY DEF EngineInv
<1>2. Run!StartIsInOrder
  BY <1>1 DEF StartInv, Run!StartIsInOrder
<1>3. Run!MainCallsLoadedCode
  BY <1>1 DEF SwapInv, Run!MainCallsLoadedCode, Run!Booting
<1>4. Run!WorkerCallsLoadedCode
  BY <1>1 DEF SwapInv, CallInv, Run!WorkerCallsLoadedCode
<1>5. QED
  BY <1>2, <1>3, <1>4
=============================================================================
