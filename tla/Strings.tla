------------------------------ MODULE Strings ------------------------------
(***************************************************************************)
(* core/me_string: String owns its bytes and knows the allocator they came  *)
(* from; StringBuilder grows a buffer; StringFormatTmp writes into the next *)
(* of a few buffers of the thread, so its result lasts for a few calls.     *)
(***************************************************************************)
EXTENDS Naturals, Sequences, SequencesExt, FiniteSets

CONSTANTS
    Strs,           \* String objects
    Texts,          \* what is not empty
    Allocators, DefaultAllocator,
    MaxBuffers,     \* MAX_TEXTFORMAT_BUFFERS, 12 in the code
    MaxLen,         \* bound of the instance on a builder's length
    MaxCalls,       \* bound of the instance on calls of StringFormatTmp
    Empty, Null

VARIABLES
    str,      \* per String: data, allocator
    heap,     \* allocations of strings: text and allocator
    want,     \* per String: the text it should hold
    builder,  \* capacity and length of a StringBuilder; given: it was made with memory
    tmp,      \* the temporary buffers: index, contents, results handed out
    lost      \* bytes that were to go back through a null allocator: there the program stops

vars == <<str, heap, want, builder, tmp, lost>>

Blocks == 1 .. Cardinality(Strs) + 1
NewBlock == CHOOSE b \in Blocks : b \notin DOMAIN heap

NoString == [data |-> Null, alloc |-> Null]
Empties(s) == str[s].data = Null

FreedIn(h, b) == [x \in DOMAIN h \ {b} |-> h[x]]
AllocIn(h, b, text, a) ==
    [x \in DOMAIN h \union {b} |-> IF x = b THEN [text |-> text, alloc |-> a] ELSE h[x]]

Text(s) == IF Empties(s) THEN Empty ELSE heap[str[s].data].text

NoBuilder == [cap |-> 0, len |-> 0, given |-> FALSE]

Init ==
    /\ str = [s \in Strs |-> NoString]
    /\ heap = [b \in {} |-> {}]
    /\ want = [s \in Strs |-> Empty]
    /\ builder = NoBuilder
    /\ tmp = [index |-> 0, bufs |-> [i \in 0 .. MaxBuffers - 1 |-> 0], calls |-> 0]
    /\ lost = {}

OnlyStrings == UNCHANGED <<builder, tmp, lost>>

\* A string gets a text of its own, the rest of the heap being h; or has none.
Filled(s, text, a, h) ==
    /\ str' = [str EXCEPT ![s] = [data |-> NewBlock, alloc |-> a]]
    /\ heap' = AllocIn(h, NewBlock, text, a)
    /\ want' = [want EXCEPT ![s] = text]

Emptied(s, h) ==
    /\ str' = [str EXCEPT ![s] = NoString]
    /\ heap' = h
    /\ want' = [want EXCEPT ![s] = Empty]

\* CopyOf: new memory from allocator a; an empty text leaves neither data nor allocator.
CopyOf(s, text, a, h) == IF text = Empty THEN Emptied(s, h) ELSE Filled(s, text, a, h)

\* The constructors from a view or a builder: of an object that holds nothing yet.
Construct(s, text, a) == Empties(s) /\ CopyOf(s, text, a, heap) /\ OnlyStrings

\* Takes memory for an empty text too, for the zero after it.
CopyOfCStr(s, text, a) == Empties(s) /\ Filled(s, text, a, heap) /\ OnlyStrings

\* Freeing what the string has leaves the rest of the heap.
Dropped(s) == IF Empties(s) THEN heap ELSE FreedIn(heap, str[s].data)

\* The old bytes are freed, the new ones come from the other string's allocator.
CopyAssign(s, t) ==
    /\ s # t
    /\ CopyOf(s, Text(t), str[t].alloc, Dropped(s))
    /\ OnlyStrings

\* Mutant: the string moved from keeps its bytes.
MoveAssignShares(s, t) ==
    /\ s # t
    /\ str' = [str EXCEPT ![s] = str[t]]
    /\ heap' = Dropped(s)
    /\ want' = [want EXCEPT ![s] = want[t]]
    /\ OnlyStrings

MoveAssign(s, t) ==
    /\ s # t
    /\ str' = [str EXCEPT ![s] = str[t], ![t] = NoString]
    /\ heap' = Dropped(s)
    /\ want' = [want EXCEPT ![s] = want[t], ![t] = Empty]
    /\ OnlyStrings

\* Assigning a view or a builder's text copies first, because it may point into the
\* string itself, and then frees what the string had through its allocator.  CopyOf of
\* an empty text has just set that to null.
ViewAssign(s, text) ==
    IF text = Empty /\ ~Empties(s)
    THEN /\ Emptied(s, heap)
         /\ lost' = {str[s].data}
         /\ UNCHANGED <<builder, tmp>>
    ELSE /\ CopyOf(s, text, IF str[s].alloc = Null THEN DefaultAllocator ELSE str[s].alloc,
                   Dropped(s))
         /\ OnlyStrings

Destroy(s) == Emptied(s, Dropped(s)) /\ OnlyStrings

-----------------------------------------------------------------------------

OnlyBuilder == UNCHANGED <<str, heap, want, tmp, lost>>

\* With memory from the start, or with an allocator given later by SetAllocator.
NewBuilder(size) ==
    /\ builder' = [cap |-> size, len |-> 0, given |-> size > 0]
    /\ OnlyBuilder

\* StringBuilderCheckGrow and the copy.
AppendText(n) ==
    /\ builder.len + n <= MaxLen
    /\ builder' = [builder EXCEPT
          !.cap = IF builder.len + n + 1 <= @ THEN @
                  ELSE IF n > @ THEN @ + n ELSE 2 * @,
          !.len = @ + n]
    /\ OnlyBuilder

ClearBuilder ==
    /\ builder.cap > 0
    /\ builder' = [builder EXCEPT !.len = 0]
    /\ OnlyBuilder

\* Mutant: the index is put back one buffer too late.
FormatTmpPastEnd ==
    /\ tmp.calls < MaxCalls
    /\ tmp' = [index |-> IF tmp.index + 1 > MaxBuffers THEN 0 ELSE tmp.index + 1,
               bufs  |-> [tmp.bufs EXCEPT ![tmp.index] = tmp.calls + 1],
               calls |-> tmp.calls + 1]
    /\ UNCHANGED <<str, heap, want, builder, lost>>

\* StringFormatTmp: the call's number stands for the text it wrote.
FormatTmp ==
    /\ tmp.calls < MaxCalls
    /\ tmp' = [index |-> IF tmp.index + 1 >= MaxBuffers THEN 0 ELSE tmp.index + 1,
               bufs  |-> [tmp.bufs EXCEPT ![tmp.index] = tmp.calls + 1],
               calls |-> tmp.calls + 1]
    /\ UNCHANGED <<str, heap, want, builder, lost>>

Next ==
    /\ lost = {}
    /\ \/ \E s \in Strs :
             \/ \E text \in Texts \union {Empty} :
                   \/ ViewAssign(s, text)
                   \/ \E a \in Allocators : Construct(s, text, a) \/ CopyOfCStr(s, text, a)
             \/ \E t \in Strs : CopyAssign(s, t) \/ MoveAssign(s, t)
             \/ Destroy(s)
       \/ \E n \in 0 .. 2 : NewBuilder(n)
       \/ \E n \in 1 .. 3 : AppendText(n)
       \/ ClearBuilder
       \/ FormatTmp

Spec == Init /\ [][Next]_vars

-----------------------------------------------------------------------------

TypeOK ==
    /\ str \in [Strs -> [data : Blocks \union {Null}, alloc : Allocators \union {Null}]]
    /\ DOMAIN heap \subseteq Blocks /\ lost \subseteq DOMAIN heap
    /\ want \in [Strs -> Texts \union {Empty}]
    /\ builder \in [cap : 0 .. 4 * MaxLen + 2, len : 0 .. MaxLen, given : BOOLEAN]
    /\ tmp.index \in 0 .. MaxBuffers - 1 /\ tmp.calls \in 0 .. MaxCalls

\* A string holds what was last assigned to it in memory that is its own alone and will
\* go back to the allocator it came from; what is allocated is some string's, but for the
\* bytes with which the program stops when a string that has some is assigned an empty
\* text.
StringsOwnTheirText ==
    /\ \A s \in Strs :
          /\ Text(s) = want[s]
          /\ ~Empties(s) => heap[str[s].data].alloc = str[s].alloc
          /\ str[s].data \notin lost
    /\ \A s, t \in Strs : s # t => Empties(s) \/ str[s].data # str[t].data
    /\ DOMAIN heap = ({str[s].data : s \in Strs} \ {Null}) \union lost

\* What an assignment replaces is freed, as the comment in operator= has it
\* (me_string.cpp:127): it is not, when the new text is empty, and the editor assigns one
\* when the text of a field is deleted.
AssignFreesOldText == lost = {}

\* A builder made with memory always has room for the terminating zero after its text;
\* one that started without has none after its first growth.
BuilderHasRoom == builder.len <= builder.cap /\ (builder.given => builder.len < builder.cap)

\* The results of the last MaxBuffers calls of StringFormatTmp are still there.
TmpResultsLast ==
    \A c \in 1 .. tmp.calls :
        c + MaxBuffers > tmp.calls => \E i \in DOMAIN tmp.bufs : tmp.bufs[i] = c
=============================================================================
