-------------------------- MODULE ResourcePoolProofs --------------------------
(***************************************************************************)
(* meResourcePool's safety for every block size, every width of the two    *)
(* generation counters and every number of slots and Create calls.         *)
(*                                                                         *)
(* First the facts about meBlockList: push and markDeleted keep the block  *)
(* counts, the list size and the free bits in agreement.  Then the pool,   *)
(* whose inductive invariant is the conjunction of the type invariant,     *)
(* that agreement, the one-to-one match of slots and owners, the bad data  *)
(* slots, and the generation bookkeeping.                                  *)
(***************************************************************************)
EXTENDS ResourcePool, FiniteSetTheorems, TLAPS

(* Integer division and remainder of a natural number, as push and         *)
(* markDeleted use them on indices.                                        *)
LEMMA BlockOfZero == BlockOf(0) = 0
  BY BlockSizeAssumption DEF BlockOf

LEMMA InBlockFinite ==
    ASSUME NEW S, IsFiniteSet(S), NEW b
    PROVE  IsFiniteSet(InBlock(S, b))
  BY FS_Subset DEF InBlock

(* The empty list, freshly constructed, is consistent.                     *)
LEMMA PushedEmptyConsistent ==
    /\ Pushed(EmptyList, 0) = [used |-> {0}, counts |-> <<1>>, size |-> 1]
    /\ CountsMatchFreeBits(Pushed(EmptyList, 0))
<1> DEFINE one == [used |-> {0}, counts |-> <<1>>, size |-> 1]
<1>1. Pushed(EmptyList, 0) = one
  BY BlockOfZero DEF Pushed, EmptyList
<1>2. Cardinality({0}) = 1
  BY FS_Singleton
<1>3. InBlock({0}, 0) = {0}
  BY BlockOfZero DEF InBlock
<1>4. CountsMatchFreeBits(one)
  BY <1>2, <1>3, BlockOfZero DEF CountsMatchFreeBits
<1> QED
  BY <1>1, <1>4

(* push keeps the three records in agreement.                              *)
LEMMA PushedConsistent ==
    ASSUME NEW S \in SUBSET Nat, IsFiniteSet(S),
           NEW bl \in ListOf(S), NEW i \in S,
           CountsMatchFreeBits(bl), PushesAt(bl, i)
    PROVE  /\ Pushed(bl, i) \in ListOf(S)
           /\ CountsMatchFreeBits(Pushed(bl, i))
<1> DEFINE b  == BlockOf(i)
           n  == Len(bl.counts)
           p  == Pushed(bl, i)
           c2 == IF b = n THEN Append(bl.counts, 1)
                          ELSE [bl.counts EXCEPT ![b + 1] = @ + 1]
<1>1. /\ bl.used \in SUBSET S
      /\ bl.counts \in Seq(Nat)
      /\ bl.size \in Nat
      /\ n \in Nat
  BY DEF ListOf
<1>2. /\ b \in 0 .. n
      /\ i \notin bl.used
  BY DEF PushesAt, PushBlock
<1>3. /\ p.used = bl.used \cup {i}
      /\ p.counts = c2
      /\ p.size = bl.size + 1
      /\ p = [used |-> p.used, counts |-> p.counts, size |-> p.size]
  BY DEF Pushed
<1>4. /\ c2 \in Seq(Nat)
      /\ Len(c2) = IF b = n THEN n + 1 ELSE n
      /\ \A c \in 0 .. n - 1 : c2[c + 1] = IF c = b THEN bl.counts[c + 1] + 1
                                                    ELSE bl.counts[c + 1]
      /\ b = n => c2[n + 1] = 1
  <2> HIDE DEF b
  <2>1. CASE b = n
    BY <1>1, <1>2, <2>1
  <2>2. CASE b # n
    BY <1>1, <1>2, <2>2
  <2> QED
    BY <2>1, <2>2
<1>5. IsFiniteSet(bl.used)
  BY <1>1, FS_Subset
<1>6. p.size = Cardinality(p.used)
  <2>1. bl.size = Cardinality(bl.used)
    BY DEF CountsMatchFreeBits
  <2>2. Cardinality(bl.used \cup {i}) = Cardinality(bl.used) + 1
    BY <1>2, <1>5, FS_AddElement
  <2> QED
    BY <1>3, <2>1, <2>2
<1>7. \A j \in p.used : BlockOf(j) \in 0 .. Len(p.counts) - 1
  <2> SUFFICES ASSUME NEW j \in p.used
               PROVE  BlockOf(j) \in 0 .. Len(c2) - 1
    BY <1>3
  <2>1. CASE j = i
    BY <1>1, <1>2, <1>4, <2>1
  <2>2. CASE j \in bl.used
    <3>1. BlockOf(j) \in 0 .. n - 1
      BY <2>2 DEF CountsMatchFreeBits
    <3> HIDE DEF c2
    <3> QED
      BY <1>1, <1>4, <3>1
  <2> QED
    BY <1>3, <2>1, <2>2
<1>8. ASSUME NEW c \in 0 .. Len(c2) - 1
      PROVE  c2[c + 1] = Cardinality(InBlock(p.used, c))
  <2>1. CASE c = b
    <3>1. /\ InBlock(p.used, c) = InBlock(bl.used, c) \cup {i}
          /\ i \notin InBlock(bl.used, c)
      BY <1>2, <1>3, <2>1 DEF InBlock
    <3>2. Cardinality(InBlock(p.used, c)) = Cardinality(InBlock(bl.used, c)) + 1
      BY <1>5, <3>1, InBlockFinite, FS_AddElement
    <3>3. CASE b = n
      <4>1. InBlock(bl.used, c) = {}
        BY <1>1, <2>1, <3>3 DEF InBlock, CountsMatchFreeBits
      <4>2. c2[c + 1] = 1
        BY <1>4, <2>1, <3>3
      <4> QED
        BY <3>2, <4>1, <4>2, FS_EmptySet
    <3>4. CASE b # n
      <4>1. /\ c \in 0 .. n - 1
            /\ c2[c + 1] = bl.counts[c + 1] + 1
        <5> HIDE DEF c2
        <5> QED
          BY <1>1, <1>2, <1>4, <2>1, <3>4
      <4>2. bl.counts[c + 1] = Cardinality(InBlock(bl.used, c))
        BY <4>1 DEF CountsMatchFreeBits
      <4> QED
        BY <3>2, <4>1, <4>2
    <3> QED
      BY <3>3, <3>4
  <2>2. CASE c # b
    <3>1. InBlock(p.used, c) = InBlock(bl.used, c)
      BY <1>3, <2>2 DEF InBlock
    <3>2. /\ c \in 0 .. n - 1
          /\ c2[c + 1] = bl.counts[c + 1]
      <4> HIDE DEF c2, b
      <4> QED
        BY <1>1, <1>2, <1>4, <2>2
    <3> QED
      BY <3>1, <3>2 DEF CountsMatchFreeBits
  <2> QED
    BY <2>1, <2>2
<1>9. p \in ListOf(S)
  <2>1. /\ p.used \in SUBSET S
        /\ p.size \in Nat
    BY <1>1, <1>3
  <2>2. p.counts \in Seq(Nat)
    <3> HIDE DEF c2, p
    <3> QED
      BY <1>3, <1>4
  <2> HIDE DEF p
  <2> QED
    BY <1>3, <2>1, <2>2 DEF ListOf
<1> QED
  BY <1>3, <1>6, <1>7, <1>8, <1>9 DEF CountsMatchFreeBits

(* markDeleted keeps the three records in agreement.                       *)
LEMMA DeletedConsistent ==
    ASSUME NEW S \in SUBSET Nat, IsFiniteSet(S),
           NEW bl \in ListOf(S), NEW i \in bl.used,
           CountsMatchFreeBits(bl)
    PROVE  /\ Deleted(bl, i) \in ListOf(S)
           /\ CountsMatchFreeBits(Deleted(bl, i))
<1> DEFINE b  == BlockOf(i)
           n  == Len(bl.counts)
           d  == Deleted(bl, i)
           c2 == [bl.counts EXCEPT ![b + 1] = @ - 1]
<1>1. /\ bl.used \in SUBSET S
      /\ bl.counts \in Seq(Nat)
      /\ bl.size \in Nat
      /\ n \in Nat
      /\ IsFiniteSet(bl.used)
  BY FS_Subset DEF ListOf
<1>2. b \in 0 .. n - 1
  BY DEF CountsMatchFreeBits
<1>3. /\ d.used = bl.used \ {i}
      /\ d.counts = c2
      /\ d.size = bl.size - 1
      /\ d = [used |-> d.used, counts |-> d.counts, size |-> d.size]
  BY DEF Deleted
<1>4. /\ IsFiniteSet(InBlock(bl.used, b))
      /\ i \in InBlock(bl.used, b)
  BY <1>1, InBlockFinite DEF InBlock
<1>5. bl.counts[b + 1] # 0
  <2>1. bl.counts[b + 1] = Cardinality(InBlock(bl.used, b))
    BY <1>2 DEF CountsMatchFreeBits
  <2> QED
    BY <1>4, <2>1, FS_EmptySet
<1>6. bl.size # 0
  BY <1>1, FS_EmptySet DEF CountsMatchFreeBits
<1>7. /\ c2 \in Seq(Nat)
      /\ Len(c2) = n
      /\ \A c \in 0 .. n - 1 : c2[c + 1] = IF c = b THEN bl.counts[c + 1] - 1
                                                    ELSE bl.counts[c + 1]
  <2> HIDE DEF b
  <2>1. bl.counts[b + 1] - 1 \in Nat
    BY <1>1, <1>2, <1>5
  <2> QED
    <3> DEFINE m == bl.counts[b + 1] - 1
    <3>1. m \in Nat /\ b + 1 \in 1 .. n
      BY <1>1, <1>2, <2>1
    <3>2. c2 = [bl.counts EXCEPT ![b + 1] = m]
      BY <1>1, <3>1
    <3> HIDE DEF m, c2
    <3>3. c2 \in Seq(Nat) /\ Len(c2) = n
      BY <1>1, <3>1, <3>2
    <3>4. \A k \in 1 .. n : c2[k] = IF k = b + 1 THEN m ELSE bl.counts[k]
      BY <1>1, <3>2
    <3>5. ASSUME NEW c \in 0 .. n - 1
          PROVE  c2[c + 1] = IF c = b THEN m ELSE bl.counts[c + 1]
      <4>1. c + 1 \in 1 .. n /\ (c + 1 = b + 1 <=> c = b)
        BY <1>1, <1>2
      <4> QED
        BY <3>4, <4>1
    <3> QED
      BY <3>3, <3>5 DEF m
<1>8. d.size = Cardinality(d.used)
  <2>1. bl.size = Cardinality(bl.used)
    BY DEF CountsMatchFreeBits
  <2>2. Cardinality(bl.used \ {i}) = Cardinality(bl.used) - 1
    BY <1>1, FS_RemoveElement
  <2> QED
    BY <1>3, <2>1, <2>2
<1>9. \A j \in d.used : BlockOf(j) \in 0 .. Len(d.counts) - 1
  BY <1>3, <1>7 DEF CountsMatchFreeBits
<1>10. ASSUME NEW c \in 0 .. n - 1
       PROVE  c2[c + 1] = Cardinality(InBlock(d.used, c))
  <2>1. bl.counts[c + 1] = Cardinality(InBlock(bl.used, c))
    BY DEF CountsMatchFreeBits
  <2>2. CASE c = b
    <3>1. InBlock(d.used, c) = InBlock(bl.used, c) \ {i}
      BY <1>3 DEF InBlock
    <3>2. Cardinality(InBlock(d.used, c)) = Cardinality(InBlock(bl.used, c)) - 1
      <4> DEFINE T == InBlock(bl.used, b)
      <4>1. IsFiniteSet(T) /\ i \in T
        BY <1>4
      <4>2. Cardinality(T \ {i}) = Cardinality(T) - 1
        <5> HIDE DEF T
        <5> QED
          BY <4>1, FS_RemoveElement
      <4>3. InBlock(bl.used, c) = T /\ InBlock(d.used, c) = T \ {i}
        BY <2>2, <3>1
      <4> HIDE DEF T
      <4> QED
        BY <4>2, <4>3
    <3>3. c2[c + 1] = bl.counts[c + 1] - 1
      BY <1>7, <2>2
    <3> QED
      BY <2>1, <3>2, <3>3
  <2>3. CASE c # b
    <3>1. InBlock(d.used, c) = InBlock(bl.used, c)
      BY <1>3, <2>3 DEF InBlock
    <3>2. c2[c + 1] = bl.counts[c + 1]
      BY <1>7, <2>3
    <3> QED
      BY <2>1, <3>1, <3>2
  <2> QED
    BY <2>2, <2>3
<1>11. d \in ListOf(S)
  <2>1. /\ d.used \in SUBSET S
        /\ d.size \in Nat
    BY <1>1, <1>3, <1>6
  <2>2. d.counts \in Seq(Nat)
    <3> HIDE DEF c2, d
    <3> QED
      BY <1>3, <1>7
  <2> HIDE DEF d
  <2> QED
    BY <1>3, <2>1, <2>2 DEF ListOf
<1> QED
  BY <1>3, <1>7, <1>8, <1>9, <1>10, <1>11 DEF CountsMatchFreeBits

-----------------------------------------------------------------------------
(* The pool.                                                               *)
BadDataSlots ==
    \A k \in Kinds : /\ 0 \in list[k].used
                     /\ obj[k][0] = BadData
                     /\ generation[k][0] = 0

Inv ==
    /\ TypeOK
    /\ BlockListConsistent
    /\ SlotPerResource
    /\ BadDataSlots
    /\ GenerationsTrackReuse

-----------------------------------------------------------------------------
(* The slot and handle counters wrap with a remainder.                     *)
LEMMA Remainder ==
    ASSUME NEW n \in Nat \ {0}, NEW x \in Nat
    PROVE  /\ x % n \in 0 .. n - 1
           /\ x % n <= x
           /\ x < n => x % n = x
  OBVIOUS

LEMMA IndexFinite == Index \in SUBSET Nat /\ IsFiniteSet(Index) /\ 0 \in Index
  BY PoolAssumption, FS_Interval DEF Index

(* What is known of a handle that Create returned.                         *)
LEMMA IssuedTyped ==
    ASSUME TypeOK
    PROVE  /\ DOMAIN issued = 1 .. Len(issued)
           /\ alive \in SUBSET DOMAIN issued
           /\ \A r \in DOMAIN issued :
                 /\ issued[r].handle \in Handle
                 /\ issued[r].handle.kind \in Kinds
                 /\ issued[r].handle.index \in Index
                 /\ issued[r].handle.generation \in Nat
                 /\ issued[r].birth \in Nat
                 /\ reuse[issued[r].handle.kind][issued[r].handle.index] \in Nat
<1> DEFINE R == [handle : Handle, birth : Nat]
<1>1. issued \in Seq(R)
  BY DEF TypeOK
<1>2. \A r \in DOMAIN issued : issued[r] \in R
  <2> HIDE DEF R
  <2> QED
    BY <1>1
<1>3. \A g \in Handle : g.kind \in Kinds /\ g.index \in Index /\ g.generation \in Nat
  BY PoolAssumption DEF Handle
<1>4. \A r \in DOMAIN issued : issued[r].handle \in Handle /\ issued[r].birth \in Nat
  BY <1>2
<1>5. DOMAIN issued = 1 .. Len(issued) /\ alive \in SUBSET DOMAIN issued
  BY DEF TypeOK
<1>6. \A k \in Kinds, i \in Index : reuse[k][i] \in Nat
  BY DEF TypeOK
<1> HIDE DEF R
<1> QED
  BY <1>3, <1>4, <1>5, <1>6

(* The constructor establishes the invariant.                              *)
LEMMA InitInv == Init => Inv
<1> SUFFICES ASSUME Init PROVE Inv
  OBVIOUS
<1> USE DEF Init, NewLists, NewObjs, Zeros
<1>1. \A k \in Kinds : list[k] = [used |-> {0}, counts |-> <<1>>, size |-> 1]
  BY PushedEmptyConsistent
<1>2. TypeOK
  <2>1. list \in [Kinds -> ListOf(Index)]
    <3>1. [used |-> {0}, counts |-> <<1>>, size |-> 1] \in ListOf(Index)
      <4>1. {0} \in SUBSET Index /\ <<1>> \in Seq(Nat) /\ 1 \in Nat
        BY IndexFinite
      <4> QED
        BY <4>1 DEF ListOf
    <3> QED
      BY <1>1, <3>1
  <2>2. generation \in [Kinds -> [Index -> 0 .. SLOT_GENERATIONS - 1]]
    BY PoolAssumption
  <2> QED
    BY <2>1, <2>2, PoolAssumption DEF TypeOK, Serial, BadData, NoObj
<1>3. BlockListConsistent
  BY PushedEmptyConsistent DEF BlockListConsistent
<1>4. SlotPerResource
  BY <1>1 DEF SlotPerResource
<1>5. BadDataSlots
  BY <1>1, IndexFinite DEF BadDataSlots
<1>6. GenerationsTrackReuse
  BY DEF GenerationsTrackReuse
<1> QED
  BY <1>2, <1>3, <1>4, <1>5, <1>6 DEF Inv

-----------------------------------------------------------------------------
(* Two owners never hold handles to one slot, so destroying a resource     *)
(* takes exactly that resource away.                                       *)
LEMMA SlotHasOneOwner ==
    ASSUME SlotPerResource, NEW q \in alive, NEW r \in alive,
           issued[q].handle.kind = issued[r].handle.kind,
           issued[q].handle.index = issued[r].handle.index
    PROVE  q = r
  BY DEF SlotPerResource

(* Create keeps the invariant.                                             *)
LEMMA CreateInv ==
    ASSUME Inv, NEW k \in Kinds, Create(k)
    PROVE  Inv'
<1> DEFINE r0 == Len(issued) + 1
<1>1. PICK i \in Index :
          /\ PushesAt(list[k], i)
          /\ list' = [list EXCEPT ![k] = Pushed(@, i)]
          /\ obj' = [obj EXCEPT ![k][i] = r0]
          /\ issued' = Append(issued, [handle |-> EyeOf(k, i), birth |-> reuse[k][i]])
  BY DEF Create
<1>2. /\ Len(issued) < MAX_CREATES
      /\ alive' = alive \cup {r0}
      /\ UNCHANGED <<generation, reuse>>
  BY DEF Create
<1>3. TypeOK
  BY DEF Inv
<1>4. /\ Pushed(list[k], i) \in ListOf(Index)
      /\ CountsMatchFreeBits(Pushed(list[k], i))
  BY <1>1, <1>3, IndexFinite, PushedConsistent DEF Inv, TypeOK, BlockListConsistent
<1>5. /\ i \notin list[k].used
      /\ i # 0
  BY <1>1 DEF PushesAt, Inv, BadDataSlots
<1>6. /\ \A j \in Kinds : j # k => list'[j] = list[j]
      /\ list'[k].used = list[k].used \cup {i}
      /\ \A j \in Kinds, x \in Index :
            obj'[j][x] = IF j = k /\ x = i THEN r0 ELSE obj[j][x]
  BY <1>1, <1>3 DEF TypeOK, Pushed
<1>7. /\ EyeOf(k, i) \in Handle
      /\ EyeOf(k, i).kind = k
      /\ EyeOf(k, i).index = i
      /\ EyeOf(k, i).generation = generation[k][i] % HANDLE_GENERATIONS
  <2>1. generation[k][i] \in Nat
    BY <1>3, PoolAssumption DEF TypeOK
  <2>2. generation[k][i] % HANDLE_GENERATIONS \in 0 .. HANDLE_GENERATIONS - 1
    BY <2>1, Remainder, PoolAssumption
  <2> QED
    BY <2>2 DEF EyeOf, Handle
<1>8. /\ issued' \in Seq([handle : Handle, birth : Nat])
      /\ Len(issued') = r0
      /\ r0 \in Nat
      /\ \A r \in 1 .. Len(issued) : issued'[r] = issued[r]
      /\ issued'[r0] = [handle |-> EyeOf(k, i), birth |-> reuse[k][i]]
  BY <1>1, <1>3, <1>7 DEF TypeOK
<1>14. /\ DOMAIN issued = 1 .. Len(issued)
      /\ DOMAIN issued' = DOMAIN issued \cup {r0}
      /\ 1 .. Len(issued') = DOMAIN issued'
      /\ alive \in SUBSET DOMAIN issued
      /\ \A r \in DOMAIN issued : issued[r].handle \in Handle
  <2>1. Len(issued) \in Nat /\ DOMAIN issued = 1 .. Len(issued)
    BY <1>3 DEF TypeOK
  <2>2. DOMAIN issued' = 1 .. r0
    <3> HIDE DEF r0
    <3> QED
      BY <1>8
  <2>3. 1 .. r0 = (1 .. Len(issued)) \cup {r0}
    BY <2>1
  <2>4. \A r \in DOMAIN issued : issued[r].handle \in Handle
    BY <1>3, IssuedTyped
  <2>5. alive \in SUBSET (1 .. Len(issued))
    BY <1>3 DEF TypeOK
  <2> QED
    BY <1>8, <2>1, <2>2, <2>3, <2>4, <2>5
<1>9. TypeOK'
  <2>1. list' \in [Kinds -> ListOf(Index)]
    BY <1>1, <1>3, <1>4 DEF TypeOK
  <2>2. obj' \in [Kinds -> [Index -> Serial \cup {NoObj}]]
    <3>1. r0 \in Serial
      BY <1>2, <1>8, PoolAssumption DEF Serial
    <3> HIDE DEF r0
    <3> QED
      BY <1>1, <1>3, <3>1 DEF TypeOK
  <2>3. alive' \in SUBSET (1 .. Len(issued'))
    <3> HIDE DEF r0
    <3> QED
      BY <1>2, <1>14
  <2>4. Len(issued') <= MAX_CREATES
    BY <1>2, <1>8, PoolAssumption
  <2> QED
    BY <1>2, <1>3, <1>8, <2>1, <2>2, <2>3, <2>4 DEF TypeOK
<1>10. BlockListConsistent'
  <2> SUFFICES ASSUME NEW j \in Kinds PROVE CountsMatchFreeBits(list'[j])
    BY DEF BlockListConsistent
  <2> QED
    BY <1>1, <1>3, <1>4, <1>6 DEF Inv, BlockListConsistent, TypeOK
<1>11. SlotPerResource'
  <2>1. ASSUME NEW r \in alive'
        PROVE  LET h == issued'[r].handle
               IN  /\ h.index # 0
                   /\ InUse(list'[h.kind], h.index)
                   /\ obj'[h.kind][h.index] = r
    <3>1. CASE r = r0
      BY <1>5, <1>6, <1>7, <1>8, <3>1 DEF InUse
    <3>2. CASE r # r0
      <4>1. /\ r \in alive
            /\ r \in DOMAIN issued
            /\ issued'[r] = issued[r]
            /\ issued[r].handle \in Handle
        BY <1>2, <1>8, <1>14, <3>2
      <4> DEFINE h == issued[r].handle
      <4>2. /\ h.index # 0
            /\ h.index \in list[h.kind].used
            /\ obj[h.kind][h.index] = r
            /\ h.kind \in Kinds
            /\ h.index \in Index
        BY <4>1 DEF Inv, SlotPerResource, InUse, Handle
      <4> HIDE DEF h
      <4>3. /\ h.index \in list'[h.kind].used
            /\ ~(h.kind = k /\ h.index = i)
        BY <1>5, <1>6, <4>2
      <4> QED
        BY <1>6, <4>1, <4>2, <4>3 DEF InUse, h
    <3> QED
      BY <3>1, <3>2
  <2>2. ASSUME NEW j \in Kinds, NEW x \in list'[j].used \ {0}
        PROVE  /\ obj'[j][x] \in alive'
               /\ issued'[obj'[j][x]].handle.kind = j
               /\ issued'[obj'[j][x]].handle.index = x
    <3>0. x \in Index
      BY <1>9 DEF TypeOK, ListOf
    <3>1. CASE j = k /\ x = i
      BY <1>2, <1>6, <1>7, <1>8, <3>0, <3>1
    <3>2. CASE ~(j = k /\ x = i)
      <4>1. x \in list[j].used \ {0}
        BY <1>6, <3>2
      <4>2. /\ obj[j][x] \in alive
            /\ issued[obj[j][x]].handle.kind = j
            /\ issued[obj[j][x]].handle.index = x
        BY <4>1 DEF Inv, SlotPerResource
      <4>3. obj[j][x] \in 1 .. Len(issued)
        BY <1>3, <4>2 DEF TypeOK
      <4>4. obj'[j][x] = obj[j][x]
        BY <1>6, <3>0, <3>2
      <4> QED
        BY <1>2, <1>8, <4>2, <4>3, <4>4
    <3> QED
      BY <3>1, <3>2
  <2> QED
    BY <2>1, <2>2 DEF SlotPerResource
<1>12. BadDataSlots'
  BY <1>2, <1>5, <1>6, IndexFinite DEF Inv, BadDataSlots
<1>13. GenerationsTrackReuse'
  <2>1. ASSUME NEW j \in Kinds, NEW x \in Index, reuse'[j][x] < SLOT_GENERATIONS
        PROVE  generation'[j][x] = reuse'[j][x]
    BY <1>2, <2>1 DEF Inv, GenerationsTrackReuse
  <2>2. ASSUME NEW r \in DOMAIN issued'
        PROVE  LET h == issued'[r].handle
                   b == issued'[r].birth
                   n == reuse'[h.kind][h.index]
               IN  /\ r \in alive' => b = n
                   /\ r \notin alive' => b < n
                   /\ h.generation <= b
                   /\ b < HANDLE_GENERATIONS => h.generation = b
    <3>1. CASE r = r0
      <4> DEFINE g == generation[k][i]
                 n == reuse[k][i]
      <4>1. /\ g \in 0 .. SLOT_GENERATIONS - 1
            /\ n \in Nat
            /\ n < SLOT_GENERATIONS => g = n
        BY <1>3 DEF TypeOK, Inv, GenerationsTrackReuse
      <4>2. /\ g % HANDLE_GENERATIONS \in 0 .. HANDLE_GENERATIONS - 1
            /\ g % HANDLE_GENERATIONS <= g
            /\ g < HANDLE_GENERATIONS => g % HANDLE_GENERATIONS = g
        <5>1. g \in Nat /\ HANDLE_GENERATIONS \in Nat \ {0}
          BY <4>1, PoolAssumption
        <5> HIDE DEF g
        <5> QED
          BY <5>1, Remainder
      <4> HIDE DEF g, n
      <4>3. /\ g % HANDLE_GENERATIONS <= n
            /\ n < HANDLE_GENERATIONS => g % HANDLE_GENERATIONS = n
        BY <4>1, <4>2, PoolAssumption
      <4>4. r \in alive'
        BY <1>2, <3>1
      <4> QED
        BY <1>2, <1>7, <1>8, <3>1, <4>3, <4>4 DEF g, n
    <3>2. CASE r # r0
      <4>1. /\ r \in DOMAIN issued
            /\ issued'[r] = issued[r]
        BY <1>8, <1>14, <2>2, <3>2
      <4>2. r \in alive' <=> r \in alive
        BY <1>2, <3>2
      <4> QED
        BY <1>2, <4>1, <4>2 DEF Inv, GenerationsTrackReuse
    <3> QED
      BY <3>1, <3>2
  <2> QED
    BY <2>1, <2>2 DEF GenerationsTrackReuse
<1> QED
  BY <1>9, <1>10, <1>11, <1>12, <1>13 DEF Inv

(* Destroy keeps the invariant, for a handle its owner holds and for       *)
(* EYE_INVALID.                                                            *)
LEMMA DestroyInv ==
    ASSUME Inv, NEW r \in alive, Destroy(issued[r].handle)
    PROVE  Inv'
<1> DEFINE h == issued[r].handle
           k == h.kind
           i == h.index
<1>1. TypeOK
  BY DEF Inv
<1>2. /\ h \in Handle
      /\ k \in Kinds
      /\ i \in Index
  BY <1>1, IssuedTyped
<1>3. /\ i # 0
      /\ i \in list[k].used
      /\ obj[k][i] = r
  BY DEF Inv, SlotPerResource, InUse
<1>4. /\ FreeSlot(k, i)
      /\ issued' = issued
  BY <1>3 DEF Destroy
<1>5. alive' = alive \ {r}
  <2>1. alive' = {q \in alive : issued[q].handle # h}
    BY <1>3 DEF Destroy
  <2>2. \A q \in alive : issued[q].handle = h => q = r
    BY SlotHasOneOwner DEF Inv
  <2> QED
    BY <2>1, <2>2
<1> HIDE DEF h, k, i
<1>6. /\ Deleted(list[k], i) \in ListOf(Index)
      /\ CountsMatchFreeBits(Deleted(list[k], i))
  BY <1>1, <1>2, <1>3, IndexFinite, DeletedConsistent
     DEF Inv, TypeOK, BlockListConsistent
<1>7. /\ list' = [list EXCEPT ![k] = Deleted(list[k], i)]
      /\ \A j \in Kinds : j # k => list'[j] = list[j]
      /\ list'[k].used = list[k].used \ {i}
  BY <1>1, <1>2, <1>4 DEF FreeSlot, Deleted, TypeOK
<1>8. \A j \in Kinds, x \in Index :
         IF j = k /\ x = i
         THEN /\ generation'[j][x] = (generation[j][x] + 1) % SLOT_GENERATIONS
              /\ reuse'[j][x] = reuse[j][x] + 1
         ELSE /\ generation'[j][x] = generation[j][x]
              /\ reuse'[j][x] = reuse[j][x]
              /\ obj'[j][x] = obj[j][x]
  BY <1>1, <1>2, <1>4 DEF FreeSlot, TypeOK
<1>9. (generation[k][i] + 1) % SLOT_GENERATIONS \in 0 .. SLOT_GENERATIONS - 1
  <2>1. generation[k][i] + 1 \in Nat
    BY <1>1, <1>2, PoolAssumption DEF TypeOK
  <2> QED
    BY <2>1, Remainder, PoolAssumption
<1>10. TypeOK'
  <2>1. list' \in [Kinds -> ListOf(Index)]
    BY <1>1, <1>2, <1>6, <1>7 DEF TypeOK
  <2>2. generation' \in [Kinds -> [Index -> 0 .. SLOT_GENERATIONS - 1]]
    BY <1>1, <1>2, <1>4, <1>9 DEF TypeOK, FreeSlot
  <2>3. obj' \in [Kinds -> [Index -> Serial \cup {NoObj}]]
    BY <1>1, <1>2, <1>4 DEF TypeOK, FreeSlot
  <2>4. reuse' \in [Kinds -> [Index -> Nat]]
    BY <1>1, <1>2, <1>4 DEF TypeOK, FreeSlot
  <2>5. alive' \in SUBSET (1 .. Len(issued'))
    BY <1>1, <1>4, <1>5 DEF TypeOK
  <2> QED
    BY <1>1, <1>4, <2>1, <2>2, <2>3, <2>4, <2>5 DEF TypeOK
<1>11. BlockListConsistent'
  BY <1>1, <1>2, <1>6, <1>7 DEF Inv, BlockListConsistent, TypeOK
<1>12. SlotPerResource'
  <2>1. ASSUME NEW q \in alive'
        PROVE  LET g == issued'[q].handle
               IN  /\ g.index # 0
                   /\ InUse(list'[g.kind], g.index)
                   /\ obj'[g.kind][g.index] = q
    <3> DEFINE g == issued[q].handle
    <3>1. q \in alive /\ q # r /\ g \in Handle
      BY <1>1, <1>5, IssuedTyped
    <3>2. /\ g.index # 0
          /\ g.index \in list[g.kind].used
          /\ obj[g.kind][g.index] = q
          /\ g.kind \in Kinds
          /\ g.index \in Index
      BY <3>1 DEF Inv, SlotPerResource, InUse, Handle
    <3> HIDE DEF g
    <3>3. ~(g.kind = k /\ g.index = i)
      BY <1>3, <3>1, <3>2
    <3> QED
      BY <1>4, <1>7, <1>8, <3>2, <3>3 DEF InUse, g
  <2>2. ASSUME NEW j \in Kinds, NEW x \in list'[j].used \ {0}
        PROVE  /\ obj'[j][x] \in alive'
               /\ issued'[obj'[j][x]].handle.kind = j
               /\ issued'[obj'[j][x]].handle.index = x
    <3>1. /\ x \in Index
          /\ ~(j = k /\ x = i)
          /\ x \in list[j].used \ {0}
      BY <1>7, <1>10 DEF TypeOK, ListOf
    <3>2. /\ obj[j][x] \in alive
          /\ issued[obj[j][x]].handle.kind = j
          /\ issued[obj[j][x]].handle.index = x
      BY <3>1 DEF Inv, SlotPerResource
    <3>3. obj[j][x] # r
      BY <3>1, <3>2 DEF h, k, i
    <3> QED
      BY <1>4, <1>5, <1>8, <3>1, <3>2, <3>3
  <2> QED
    BY <2>1, <2>2 DEF SlotPerResource
<1>13. BadDataSlots'
  BY <1>2, <1>3, <1>7, <1>8, IndexFinite DEF Inv, BadDataSlots
<1>14. GenerationsTrackReuse'
  <2>1. ASSUME NEW j \in Kinds, NEW x \in Index, reuse'[j][x] < SLOT_GENERATIONS
        PROVE  generation'[j][x] = reuse'[j][x]
    <3>0. reuse[j][x] \in Nat
      BY <1>1 DEF TypeOK
    <3>1. CASE j = k /\ x = i
      <4> DEFINE m == reuse[k][i]
      <4>1. /\ m \in Nat
            /\ m + 1 < SLOT_GENERATIONS
            /\ reuse'[j][x] = m + 1
        BY <1>1, <1>2, <1>8, <2>1, <3>1 DEF TypeOK
      <4>2. generation[k][i] = m
        <5>1. m < SLOT_GENERATIONS
          <6> HIDE DEF m
          <6> QED
            BY <4>1, PoolAssumption
        <5> QED
          BY <1>2, <5>1 DEF Inv, GenerationsTrackReuse
      <4>3. generation'[j][x] = (m + 1) % SLOT_GENERATIONS
        BY <1>2, <1>8, <3>1, <4>2
      <4>4. (m + 1) % SLOT_GENERATIONS = m + 1
        <5>1. m + 1 \in Nat
          BY <4>1
        <5> HIDE DEF m
        <5> QED
          BY <4>1, <5>1, Remainder, PoolAssumption
      <4> QED
        BY <4>1, <4>3, <4>4
    <3>2. CASE ~(j = k /\ x = i)
      BY <1>8, <2>1, <3>2 DEF Inv, GenerationsTrackReuse
    <3> QED
      BY <3>1, <3>2
  <2>2. ASSUME NEW q \in DOMAIN issued'
        PROVE  LET g == issued'[q].handle
                   b == issued'[q].birth
                   n == reuse'[g.kind][g.index]
               IN  /\ q \in alive' => b = n
                   /\ q \notin alive' => b < n
                   /\ g.generation <= b
                   /\ b < HANDLE_GENERATIONS => g.generation = b
    <3> DEFINE g == issued[q].handle
               b == issued[q].birth
               n == reuse[g.kind][g.index]
    <3>1. /\ q \in DOMAIN issued
          /\ g \in Handle
          /\ g.kind \in Kinds
          /\ g.index \in Index
          /\ b \in Nat
          /\ n \in Nat
      BY <1>1, <1>4, IssuedTyped
    <3>2. /\ q \in alive => b = n
          /\ q \notin alive => b < n
          /\ g.generation <= b
          /\ b < HANDLE_GENERATIONS => g.generation = b
      BY <3>1 DEF Inv, GenerationsTrackReuse
    <3>3. CASE g.kind = k /\ g.index = i
      <4>1. reuse'[g.kind][g.index] = n + 1
        BY <1>8, <3>1, <3>3
      <4>2. q \notin alive'
        BY <1>3, <1>5, <3>3 DEF Inv, SlotPerResource
      <4>3. b < n + 1
        <5> HIDE DEF b, n
        <5> QED
          BY <3>1, <3>2
      <4> QED
        BY <1>4, <3>2, <4>1, <4>2, <4>3
    <3>4. CASE ~(g.kind = k /\ g.index = i)
      <4>1. reuse'[g.kind][g.index] = n
        BY <1>8, <3>1, <3>4
      <4>2. q # r
        BY <3>4 DEF h, k, i
      <4> QED
        BY <1>4, <1>5, <3>2, <4>1, <4>2
    <3> QED
      BY <3>3, <3>4
  <2> QED
    BY <2>1, <2>2 DEF GenerationsTrackReuse
<1> QED
  BY <1>10, <1>11, <1>12, <1>13, <1>14 DEF Inv

-----------------------------------------------------------------------------
(* Every step keeps the invariant.                                         *)
LEMMA StepInv == Inv /\ [Next]_vars => Inv'
<1> SUFFICES ASSUME Inv, [Next]_vars PROVE Inv'
  OBVIOUS
<1>1. ASSUME NEW k \in Kinds, Create(k) PROVE Inv'
  BY <1>1, CreateInv
<1>2. ASSUME NEW r \in alive, Destroy(issued[r].handle) PROVE Inv'
  BY <1>2, DestroyInv
<1>3. ASSUME UNCHANGED vars PROVE Inv'
  BY <1>3 DEF vars, Inv, TypeOK, BlockListConsistent, SlotPerResource,
              BadDataSlots, GenerationsTrackReuse
<1>4. CASE Destroy(EYE_INVALID)
  BY <1>3, <1>4 DEF Destroy, EYE_INVALID
<1>5. CASE Clear
  <2>1. Init'
    BY <1>5 DEF Clear, Init, NewLists, NewObjs, Zeros
  <2> QED
    BY <2>1, InitInv, PTL
<1> QED
  BY <1>1, <1>2, <1>3, <1>4, <1>5 DEF Next

(* The inductive invariant holds in every state the pool can reach.        *)
THEOREM PoolInvariant == Spec => []Inv
  BY InitInv, StepInv, PTL DEF Spec

(* Every pool state is well typed: handles and slots keep their generation *)
(* within its width, indices within the blocks.                            *)
THEOREM PoolTypeOK == Spec => []TypeOK
<1>1. Inv => TypeOK
  BY DEF Inv
<1> QED
  BY <1>1, PoolInvariant, PTL

(* The block counts, the list sizes and the free bits never disagree, so   *)
(* push always finds the free bit its block's count promises.              *)
THEOREM PoolListsConsistent == Spec => []BlockListConsistent
<1>1. Inv => BlockListConsistent
  BY DEF Inv
<1> QED
  BY <1>1, PoolInvariant, PTL

(* Slots in use and resources that were not destroyed match one to one.    *)
THEOREM PoolSlotPerResource == Spec => []SlotPerResource
<1>1. Inv => SlotPerResource
  BY DEF Inv
<1> QED
  BY <1>1, PoolInvariant, PTL

(* The bad data object stays reachable through EYE_INVALID.                *)
THEOREM PoolBadData == Spec => []BadDataAlwaysThere
<1>1. Inv => BadDataAlwaysThere
  BY DEF Inv, BadDataSlots, BadDataAlwaysThere, Get, InUse, EYE_INVALID, Kinds
<1> QED
  BY <1>1, PoolInvariant, PTL

(* Until it wraps, a slot's generation counts its reuses, and the handle of*)
(* a resource carries the count its slot had when Create returned it.      *)
THEOREM PoolGenerations == Spec => []GenerationsTrackReuse
<1>1. Inv => GenerationsTrackReuse
  BY DEF Inv
<1> QED
  BY <1>1, PoolInvariant, PTL

(* The handle of a resource that was not destroyed resolves to it until    *)
(* its slot has been freed HANDLE_GENERATIONS times.                       *)
THEOREM PoolLiveHandleResolves == Spec => []LiveHandleResolves
<1>1. ASSUME Inv PROVE LiveHandleResolves
  <2> SUFFICES ASSUME NEW r \in alive,
                      reuse[issued[r].handle.kind][issued[r].handle.index]
                         < HANDLE_GENERATIONS
               PROVE  Get(issued[r].handle) = r
    BY DEF LiveHandleResolves
  <2> DEFINE h == issued[r].handle
             n == reuse[h.kind][h.index]
  <2>1. /\ r \in DOMAIN issued
        /\ h.kind \in Kinds
        /\ h.index \in Index
        /\ n \in Nat
    BY <1>1, IssuedTyped DEF Inv
  <2>2. /\ issued[r].birth = n
        /\ n < HANDLE_GENERATIONS => h.generation = n
        /\ n < SLOT_GENERATIONS => generation[h.kind][h.index] = n
    BY <1>1, <2>1 DEF Inv, GenerationsTrackReuse
  <2>3. n < SLOT_GENERATIONS
    <3> HIDE DEF n
    <3>1. n < HANDLE_GENERATIONS
      BY DEF n
    <3> QED
      BY <2>1, <3>1, PoolAssumption
  <2>4. InUse(list[h.kind], h.index) /\ obj[h.kind][h.index] = r
    BY <1>1 DEF Inv, SlotPerResource
  <2> QED
    BY <2>2, <2>3, <2>4 DEF Get
<1> QED
  BY <1>1, PoolInvariant, PTL

(* A stale handle never resolves until its slot has been freed             *)
(* SLOT_GENERATIONS times.                                                 *)
THEOREM PoolStaleHandleRejected == Spec => []StaleHandleRejected
<1>1. ASSUME Inv PROVE StaleHandleRejected
  <2> SUFFICES ASSUME NEW r \in DOMAIN issued \ alive,
                      reuse[issued[r].handle.kind][issued[r].handle.index]
                         < SLOT_GENERATIONS
               PROVE  Get(issued[r].handle) = Asserts
    BY DEF StaleHandleRejected
  <2> DEFINE h == issued[r].handle
             b == issued[r].birth
             n == reuse[h.kind][h.index]
  <2>1. /\ h.kind \in Kinds
        /\ h.index \in Index
        /\ h.generation \in Nat
        /\ n \in Nat
        /\ b \in Nat
    BY <1>1, IssuedTyped DEF Inv
  <2>2. /\ b < n
        /\ h.generation <= b
        /\ generation[h.kind][h.index] = n
    BY <1>1, <2>1 DEF Inv, GenerationsTrackReuse
  <2>3. h.generation # n
    <3> HIDE DEF n, b
    <3> QED
      BY <2>1, <2>2
  <2> QED
    BY <2>2, <2>3 DEF Get
<1> QED
  BY <1>1, PoolInvariant, PTL
=============================================================================
