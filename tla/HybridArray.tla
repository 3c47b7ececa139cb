----------------------------- MODULE HybridArray -----------------------------
(***************************************************************************)
(* core/containers/me_hybrid_array: an array that starts in memory of its   *)
(* own and moves to the heap when that is full; the stack of me_stack.h and *)
(* the subscribers of an event (me_event) are such arrays.  Copies are deep *)
(* and stay in place when the original is.                                  *)
(*                                                                         *)
(* An event calls its subscribers by index, up to the size the array has by *)
(* then: a callback may subscribe another.                                 *)
(***************************************************************************)
EXTENDS Naturals, Sequences, SequencesExt, FiniteSets

CONSTANTS
    Arrays,
    Element,
    FixedSize,    \* elements in place
    MaxSize,      \* bound of the instance on the size of an array
    Garbage       \* what memory holds that was never written

VARIABLES
    arr,     \* per array: elements (in place or a block), size, capacity, fixedMem
    heap,    \* the blocks allocated
    want,    \* the sequence each array's owner expects
    call,    \* the event being delivered: its array, the next index, who was called
    failed   \* the call whose assertion has failed, after which nothing more is promised

vars == <<arr, heap, want, call, failed>>

NoCall == [of |-> "none"]
Unused(n) == [i \in 1 .. n |-> Garbage]

NewArray == [at |-> 0, size |-> 0, cap |-> FixedSize, fixed |-> Unused(FixedSize)]

\* IsUsingInPlaceMemory.
InPlace(a)  == a.at = 0
Mem(a)      == IF InPlace(a) THEN a.fixed ELSE heap[a.at]
Contents(a) == SubSeq(Mem(a), 1, a.size)
NewBlock    == CHOOSE b \in 1 .. Cardinality(Arrays) + 1 : b \notin DOMAIN heap

Init ==
    /\ arr = [a \in Arrays |-> NewArray]
    /\ heap = [b \in {} |-> <<>>]
    /\ want = [a \in Arrays |-> <<>>]
    /\ call = NoCall /\ failed = "no"

\* Array a continues with n elements in the given memory, of which the rest is never
\* read; a block it had and leaves is freed.
Becomes(a, at, mem, n) ==
    LET m == SubSeq(mem, 1, n) \o Unused(Len(mem) - n)
    IN  /\ arr' = [arr EXCEPT ![a] =
              [at |-> at, size |-> n, cap |-> Len(m),
               fixed |-> IF at = 0 THEN m ELSE Unused(FixedSize)]]
        /\ heap' = [b \in (DOMAIN heap \ {arr[a].at}) \union ({at} \ {0}) |->
                       IF b = at THEN m ELSE heap[b]]

\* CheckArrayResize, before an insertion: twice the size when it is full.
Resized(a) ==
    LET r == arr[a]
    IN  IF r.size < r.cap THEN [at |-> r.at, mem |-> Mem(r)]
        ELSE [at |-> NewBlock, mem |-> Contents(r) \o Unused(r.size)]

Expect(a, s) == want' = [want EXCEPT ![a] = s]

\* push_back, Stack::push, meEventSubscribe.
PushBack(a, e) ==
    LET r == Resized(a)
    IN  /\ arr[a].size < MaxSize
        /\ Becomes(a, r.at, [r.mem EXCEPT ![arr[a].size + 1] = e], arr[a].size + 1)
        /\ Expect(a, Append(want[a], e))
        /\ UNCHANGED <<call, failed>>

\* The array may have been resized though an index at or past the end is refused.
Insert(a, e, i) ==
    LET r == Resized(a)
        n == arr[a].size
    IN  /\ n < MaxSize
        /\ IF i >= n
           THEN Becomes(a, r.at, r.mem, n) /\ UNCHANGED want
           ELSE /\ Becomes(a, r.at,
                       [k \in DOMAIN r.mem |-> IF k = i + 1 THEN e
                            ELSE IF k > i + 1 /\ k <= n + 1 THEN r.mem[k - 1]
                            ELSE r.mem[k]], n + 1)
                /\ Expect(a, InsertAt(want[a], i + 1, e))
        /\ UNCHANGED <<call, failed>>

\* The last element takes the place of the erased one.
EraseAndFill(a, i) ==
    LET r == arr[a]
    IN  /\ i < r.size
        /\ Becomes(a, r.at, [Mem(r) EXCEPT ![i + 1] = Mem(r)[r.size]], r.size - 1)
        /\ Expect(a, [k \in 1 .. r.size - 1 |->
                         IF k = i + 1 THEN Last(want[a]) ELSE want[a][k]])
        /\ UNCHANGED <<call, failed>>

\* The address to move from is asked of at(index + 1), whose assertion fails for the
\* last element.  One element more than there is gets moved, into the place past the
\* new end.
Erase(a, i) ==
    LET r == arr[a]
        m == Mem(r)
    IN  /\ i < r.size
        /\ \/ /\ i + 1 = r.size
              /\ failed' = "erase"
              /\ UNCHANGED <<arr, heap, want>>
           \/ /\ i + 1 < r.size
              /\ Becomes(a, r.at, [k \in DOMAIN m |-> IF k > i /\ k < r.size
                                                      THEN m[k + 1] ELSE m[k]], r.size - 1)
              /\ Expect(a, RemoveAt(want[a], i + 1))
              /\ UNCHANGED failed
        /\ UNCHANGED call

\* pop, Stack::pop.
Pop(a) ==
    /\ arr[a].size > 0
    /\ Becomes(a, arr[a].at, Mem(arr[a]), arr[a].size - 1)
    /\ Expect(a, Front(want[a]))
    /\ UNCHANGED <<call, failed>>

\* Memory taken from the heap is kept.
Clear(a) ==
    /\ Becomes(a, arr[a].at, Mem(arr[a]), 0)
    /\ Expect(a, <<>>)
    /\ UNCHANGED <<call, failed>>

\* The destructor, and the constructor of the next user.
Renew(a) ==
    /\ call.of # a
    /\ Becomes(a, 0, Unused(FixedSize), 0)
    /\ Expect(a, <<>>)
    /\ UNCHANGED <<call, failed>>

\* The assignment; the constructors that copy, and that move, do the same to an array
\* without memory.
CopyFrom(a, b) ==
    LET r == arr[b]
        copy == Contents(r) \o Unused(r.cap - r.size)
    IN  /\ a # b /\ call.of # a
        /\ Becomes(a, IF InPlace(r) THEN 0 ELSE NewBlock, copy, r.size)
        /\ Expect(a, want[b])
        /\ UNCHANGED <<call, failed>>

-----------------------------------------------------------------------------

\* meEvent::operator(), one subscriber at a time.
Fire(a) ==
    /\ call = NoCall
    /\ call' = [of |-> a, i |-> 0, called |-> <<>>, had |-> want[a]]
    /\ UNCHANGED <<arr, heap, want, failed>>

CallNext ==
    /\ call # NoCall
    /\ LET a == arr[call.of]
       IN  call' = IF call.i < a.size
                   THEN [call EXCEPT !.i = @ + 1, !.called = Append(@, Mem(a)[call.i + 1])]
                   ELSE NoCall
    /\ UNCHANGED <<arr, heap, want, failed>>

\* meEventUnsubscribe looks first at the element past the last one.
Unsubscribe(a, e) ==
    /\ failed' = "unsubscribe"
    /\ UNCHANGED <<arr, heap, want, call>>

\* Events are only subscribed to while one is delivered.
Free(a) == call.of # a

Next ==
    /\ failed = "no"
    /\ \/ \E a \in Arrays, e \in Element :
             \/ PushBack(a, e)
             \/ (Free(a) /\ \E i \in 0 .. MaxSize : Insert(a, e, i))
             \/ Unsubscribe(a, e)
       \/ \E a \in Arrays, i \in 0 .. MaxSize :
             Free(a) /\ (EraseAndFill(a, i) \/ Erase(a, i))
       \/ \E a \in Arrays : Fire(a) \/ (Free(a) /\ (Pop(a) \/ Clear(a) \/ Renew(a)))
       \/ \E a, b \in Arrays : CopyFrom(a, b)
       \/ CallNext

Spec == Init /\ [][Next]_vars

-----------------------------------------------------------------------------

TypeOK ==
    /\ \A a \in Arrays : arr[a].size \in 0 .. MaxSize /\ arr[a].size <= arr[a].cap
    /\ \A b \in DOMAIN heap : heap[b] \in Seq(Element \union {Garbage})
    /\ failed \in {"no", "erase", "unsubscribe"}

\* An array reads what was put into it, in memory that no other array writes; the heap
\* holds the blocks of the arrays that outgrew their own memory, and no others.
ArrayReadsItsElements ==
    /\ \A a \in Arrays :
          /\ InPlace(arr[a]) \/ arr[a].at \in DOMAIN heap
          /\ arr[a].cap = Len(Mem(arr[a]))
          /\ Contents(arr[a]) = want[a]
    /\ \A a, b \in Arrays : a # b => InPlace(arr[a]) \/ arr[a].at # arr[b].at
    /\ DOMAIN heap = {arr[a].at : a \in Arrays} \ {0}

\* A delivery calls the subscribers in the order they came, each once: those it began
\* with, and then those that a callback added, wherever the array has moved by then.
EventCallsEachOnce ==
    call # NoCall =>
        /\ call.called = SubSeq(want[call.of], 1, call.i)
        /\ IsPrefix(call.had, want[call.of])

\* Erasing the last element finds nothing to its right (me_hybrid_array.h:78), and stays
\* inside the array.
EraseStaysInside == failed # "erase"

\* Looking for a subscriber stays inside the array of subscribers (me_hybrid_array.inl:134).
UnsubscribeStaysInside == failed # "unsubscribe"
=============================================================================
