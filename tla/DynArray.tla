------------------------------ MODULE DynArray ------------------------------
(***************************************************************************)
(* core/containers/dynarray: an array that grows.  A handle holds size,     *)
(* capacity and the address of the elements, and is copied by value, so two *)
(* handles can have the same memory: growing through one frees what the     *)
(* other still points to.                                                   *)
(*                                                                         *)
(* want is the sequence a handle's owner expects.  stale marks a handle     *)
(* whose memory another handle has freed or whose elements another has      *)
(* moved; nothing is promised of it.  Element type: trivially copyable (the *)
(* branch for other types is never instantiated by an insertion).           *)
(***************************************************************************)
EXTENDS Naturals, Sequences, SequencesExt, FiniteSets

CONSTANTS
    Handles,
    Pushes,       \* the sequences that are pushed
    Capacities,   \* what arrays are created with
    Blocks,       \* addresses of the instance
    MaxSize,      \* bound of the instance on the size of an array
    U32Max,       \* the largest u32, smaller in the instance
    Garbage,      \* what memory holds that was never written
    Null

VARIABLES hnd, heap, want, stale, failed

vars == <<hnd, heap, want, stale, failed>>

NoArray == [data |-> Null, size |-> 0, cap |-> 0]

\* An unsigned subtraction wraps.
MinusOne(n) == (n + U32Max) % (U32Max + 1)

Live(h) == hnd[h].data # Null
Free    == Blocks \ DOMAIN heap
Contents(h) == SubSeq(heap[hnd[h].data], 1, hnd[h].size)

\* Other handles that point to h's memory.
Aliases(h) == {g \in Handles \ {h} : Live(h) /\ hnd[g].data = hnd[h].data}

Cleared(n) == [i \in 1 .. n |-> Garbage]

Without(h, b) == [x \in DOMAIN h \ {b} |-> h[x]]

Init ==
    /\ hnd = [h \in Handles |-> NoArray]
    /\ heap = [b \in {} |-> <<>>]
    /\ want = [h \in Handles |-> <<>>]
    /\ stale = {} /\ failed = FALSE

\* DynArrayCreate; the handle is assigned over whatever it was, so only a handle
\* that owns nothing takes a new array.
Create(h, c) ==
    /\ ~Live(h) /\ Free # {}
    /\ LET b == CHOOSE b \in Free : TRUE
       IN  /\ heap' = [x \in DOMAIN heap \union {b} |-> IF x = b THEN Cleared(c) ELSE heap[x]]
           /\ hnd' = [hnd EXCEPT ![h] = [data |-> b, size |-> 0, cap |-> c]]
    /\ want' = [want EXCEPT ![h] = <<>>]
    /\ UNCHANGED <<stale, failed>>

\* DynArray<T> copy = array.
CopyHandle(h, g) ==
    /\ Live(h) /\ h \notin stale /\ ~Live(g)
    /\ hnd' = [hnd EXCEPT ![g] = hnd[h]]
    /\ want' = [want EXCEPT ![g] = want[h]]
    /\ UNCHANGED <<heap, stale, failed>>

\* The growth loop: twice the capacity, or what is needed at once.
Grown(c, needed) == IF needed <= c THEN c ELSE IF 2 * c >= needed THEN 2 * c ELSE needed

Inserted(s, objs, i) == SubSeq(s, 1, i) \o objs \o SubSeq(s, i + 1, Len(s))

\* memmove to the right of the gap, then memcpy into it; memory past the size stays.
Written(mem, size, objs, i) ==
    [k \in 1 .. Len(mem) |->
        IF k <= i THEN mem[k]
        ELSE IF k <= i + Len(objs) THEN objs[k - i]
        ELSE IF k <= size + Len(objs) THEN mem[k - Len(objs)]
        ELSE mem[k]]

PushAt(h, objs, i) ==
    LET a      == hnd[h]
        needed == a.size + Len(objs)
        c      == Grown(a.cap, needed)
    IN  /\ h \notin stale /\ needed <= MaxSize
        /\ \/ /\ i > a.size                           \* refused with an error
              /\ UNCHANGED <<hnd, heap, want, stale, failed>>
           \/ /\ i <= a.size /\ c # a.cap /\ a.cap = 0  \* DynArrayResize's assertion
              /\ failed' = TRUE
              /\ UNCHANGED <<hnd, heap, want, stale>>
           \/ /\ i <= a.size /\ c # a.cap /\ a.cap # 0 /\ Free # {}
              /\ LET b == CHOOSE b \in Free : TRUE
                     moved == Contents(h) \o Cleared(c - a.size)
                 IN  /\ heap' = [x \in (DOMAIN heap \ {a.data}) \union {b} |->
                           IF x = b THEN Written(moved, a.size, objs, i) ELSE heap[x]]
                     /\ hnd' = [hnd EXCEPT ![h] = [data |-> b, size |-> needed, cap |-> c]]
              /\ stale' = stale \union Aliases(h)
              /\ want' = [want EXCEPT ![h] = Inserted(@, objs, i)]
              /\ UNCHANGED failed
           \/ /\ i <= a.size /\ c = a.cap
              /\ heap' = [heap EXCEPT ![a.data] = Written(@, a.size, objs, i)]
              /\ hnd' = [hnd EXCEPT ![h].size = needed]
              /\ stale' = stale \union {g \in Aliases(h) : hnd[g].size > i}
              /\ want' = [want EXCEPT ![h] = Inserted(@, objs, i)]
              /\ UNCHANGED failed

\* An index outside the array, which is what Pop of an empty one asks for, is refused.
PopAt(h, i) ==
    LET a == hnd[h]
    IN  /\ h \notin stale
        /\ IF i >= a.size
           THEN UNCHANGED <<hnd, heap, want, stale>>
           ELSE /\ heap' = [heap EXCEPT ![a.data] =
                      [k \in DOMAIN @ |-> IF k > i /\ k < a.size THEN @[k + 1] ELSE @[k]]]
                /\ hnd' = [hnd EXCEPT ![h].size = @ - 1]
                /\ want' = [want EXCEPT ![h] = RemoveAt(@, i + 1)]
                /\ stale' = stale \union {g \in Aliases(h) : i # a.size - 1 /\ hnd[g].size > i}
        /\ UNCHANGED failed

Pop(h) == PopAt(h, MinusOne(hnd[h].size))

Clear(h) ==
    /\ h \notin stale
    /\ hnd' = [hnd EXCEPT ![h].size = 0]
    /\ want' = [want EXCEPT ![h] = <<>>]
    /\ UNCHANGED <<heap, stale, failed>>

Destroy(h) ==
    /\ Live(h) /\ h \notin stale
    /\ heap' = Without(heap, hnd[h].data)
    /\ hnd' = [hnd EXCEPT ![h] = NoArray]
    /\ want' = [want EXCEPT ![h] = <<>>]
    /\ stale' = stale \union Aliases(h)
    /\ UNCHANGED failed

\* A handle that was left behind goes out of scope.
Forget(h) ==
    /\ h \in stale \/ Aliases(h) \ stale # {}
    /\ hnd' = [hnd EXCEPT ![h] = NoArray]
    /\ want' = [want EXCEPT ![h] = <<>>]
    /\ stale' = stale \ {h}
    /\ UNCHANGED <<heap, failed>>

Next ==
    \/ \E h \in Handles :
          \/ \E c \in Capacities : Create(h, c)
          \/ \E g \in Handles : CopyHandle(h, g)
          \/ \E objs \in Pushes, i \in 0 .. MaxSize : PushAt(h, objs, i)
          \/ \E i \in 0 .. MaxSize : PopAt(h, i)
          \/ Pop(h) \/ Clear(h) \/ Destroy(h) \/ Forget(h)

Spec == Init /\ [][Next]_vars

-----------------------------------------------------------------------------

TypeOK ==
    /\ \A h \in Handles : hnd[h].size \in 0 .. MaxSize /\ hnd[h].data \in Blocks \union {Null}
    /\ DOMAIN heap \subseteq Blocks
    /\ \A b \in DOMAIN heap : heap[b] \in Seq(UNION {Range(o) : o \in Pushes} \union {Garbage})
    /\ stale \subseteq Handles /\ failed \in BOOLEAN

\* A handle reads what was put through it, or through the handle it is a copy of, until
\* another handle makes the array grow, removes or shifts elements; and memory that no
\* good handle reaches has been freed.
HandleReadsItsArray ==
    /\ \A h \in Handles \ stale : Live(h) =>
          /\ hnd[h].data \in DOMAIN heap
          /\ hnd[h].size <= hnd[h].cap /\ hnd[h].cap = Len(heap[hnd[h].data])
          /\ Contents(h) = want[h]
    /\ \A b \in DOMAIN heap : \E h \in Handles \ stale : hnd[h].data = b
=============================================================================
