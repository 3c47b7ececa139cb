------------------------------- MODULE MeMap -------------------------------
(***************************************************************************)
(* core/containers/me_map.h: a hash map whose nodes are linked twice, in    *)
(* the chain of their bucket and in one list in the order of insertion.     *)
(* A node keeps its address while the map grows, so only the chains are     *)
(* rebuilt.  Nothing is ever erased: a map is cleared, copied, moved or     *)
(* swapped as a whole.  A loop over the map goes bucket by bucket.          *)
(***************************************************************************)
EXTENDS Naturals, Sequences, SequencesExt, FiniteSets

CONSTANTS
    Maps,           \* the maps of the instance
    Key, Value,
    HashOf,         \* hashFromKey, a function of Key
    InitialSize,    \* INITIAL_SIZE, 16 in the code
    MaxCapacity,    \* bound of the instance on the buckets of a map
    None

VARIABLES
    maps,   \* per map: capacity, chains (one per bucket), insertion list, values
    dict,   \* what was stored in each map, kept for the properties
    loop    \* the loop in progress over a map: its iterator and its end, the keys seen

vars == <<maps, dict, loop>>

NoLoop == [on |-> "none"]

EmptyMap(c) == [cap    |-> c,
                chains |-> [b \in 0 .. c - 1 |-> <<>>],
                order  |-> <<>>,
                val    |-> <<>>]

\* GetRequiredBucketCountForSize: a load of three quarters, rounded up.
RequiredBuckets(n) == (n * 4 + 2) \div 3

BucketOf(k, c) == HashOf[k] % c

Size(m) == Len(m.order)

FindNode(m, k) == m.cap # 0 /\ Contains(m.chains[BucketOf(k, m.cap)], k)


\* Nodes are taken in the order of insertion and put at the head of a chain.
Rehash(m, newCap) ==
    LET c == IF newCap = 0 THEN InitialSize ELSE newCap
    IN  [m EXCEPT !.cap = c,
                  !.chains = [b \in 0 .. c - 1 |->
                      Reverse(SelectSeq(m.order, LAMBDA k : BucketOf(k, c) = b))]]

EnsureCapacityForInsert(m) ==
    IF RequiredBuckets(Size(m) + 1) > m.cap THEN Rehash(m, 2 * m.cap) ELSE m

\* operator[] and the assignment through the reference it returns.
Store(m, k, v) ==
    IF FindNode(m, k)
    THEN [m EXCEPT !.val[k] = v]
    ELSE LET e == EnsureCapacityForInsert(m)
         IN  [e EXCEPT !.chains[BucketOf(k, e.cap)] = <<k>> \o @,
                       !.order = Append(@, k),
                       !.val = [x \in DOMAIN @ \union {k} |-> IF x = k THEN v ELSE @[x]]]

\* The copying constructor starts from the other map's capacity.
CopyOf(m) ==
    FoldLeft(LAMBDA copy, k : Store(copy, k, m.val[k]),
             EmptyMap(IF m.cap # 0 THEN m.cap ELSE InitialSize), m.order)

-----------------------------------------------------------------------------

Init ==
    /\ maps = [n \in Maps |-> EmptyMap(InitialSize)]
    /\ dict = [n \in Maps |-> <<>>]
    /\ loop = NoLoop

\* A loop over n goes on in whatever the chains have become.
LoopSees(n) ==
    loop' = IF loop.on = n /\ maps'[n].cap # maps[n].cap
            THEN [loop EXCEPT !.rebuilt = TRUE] ELSE loop

Put(n, k, v) ==
    /\ FindNode(maps[n], k) \/ EnsureCapacityForInsert(maps[n]).cap <= MaxCapacity
    /\ maps' = [maps EXCEPT ![n] = Store(@, k, v)]
    /\ dict' = [dict EXCEPT ![n] =
                   [x \in DOMAIN @ \union {k} |-> IF x = k THEN v ELSE @[x]]]
    /\ LoopSees(n)

ReserveFor(n, count) ==
    /\ RequiredBuckets(count) > maps[n].cap
    /\ RequiredBuckets(count) <= MaxCapacity
    /\ maps' = [maps EXCEPT ![n] = Rehash(@, RequiredBuckets(count))]
    /\ LoopSees(n)
    /\ UNCHANGED dict

\* Whole-map operations happen between loops.
Clear(n) ==
    /\ loop = NoLoop
    /\ maps' = [maps EXCEPT ![n] = EmptyMap(@.cap)]
    /\ dict' = [dict EXCEPT ![n] = <<>>]
    /\ UNCHANGED loop

CopyAssign(n, other) ==
    /\ loop = NoLoop /\ n # other
    /\ maps' = [maps EXCEPT ![n] = CopyOf(maps[other])]
    /\ dict' = [dict EXCEPT ![n] = dict[other]]
    /\ UNCHANGED loop

\* The map moved from has no buckets at all until the next insertion.
MoveAssign(n, other) ==
    /\ loop = NoLoop /\ n # other
    /\ maps' = [maps EXCEPT ![n] = maps[other], ![other] = EmptyMap(0)]
    /\ dict' = [dict EXCEPT ![n] = dict[other], ![other] = <<>>]
    /\ UNCHANGED loop

Swap(n, other) ==
    /\ loop = NoLoop /\ n # other
    /\ maps' = [maps EXCEPT ![n] = maps[other], ![other] = maps[n]]
    /\ dict' = [dict EXCEPT ![n] = dict[other], ![other] = dict[n]]
    /\ UNCHANGED loop

\* SkipEmptyBuckets: the head of the first chain from bucket b on, or no node.
SkipFrom(m, b) ==
    LET full == {c \in b .. m.cap - 1 : m.chains[c] # <<>>}
        c    == CHOOSE c \in full : \A d \in full : c <= d
    IN  IF full = {} THEN [bucket |-> m.cap, node |-> None]
                     ELSE [bucket |-> c, node |-> m.chains[c][1]]

BucketNext(m, k) ==
    LET chain == m.chains[BucketOf(k, m.cap)]
        i     == CHOOSE i \in DOMAIN chain : chain[i] = k
    IN  IF i = Len(chain) THEN None ELSE chain[i + 1]

\* for (auto& [key, value] : map): end() is taken once, with the capacity of then.
Begin(n) ==
    /\ loop = NoLoop
    /\ loop' = [on |-> n, it |-> SkipFrom(maps[n], 0), end |-> maps[n].cap,
                seen |-> <<>>, had |-> DOMAIN dict[n], rebuilt |-> FALSE]
    /\ UNCHANGED <<maps, dict>>

LoopDone == loop.it = [bucket |-> loop.end, node |-> None]
LoopLost == loop.it.node = None /\ loop.it.bucket # loop.end

\* The body sees the node, then operator++.
Advance ==
    /\ loop.on # "none" /\ loop.it.node # None
    /\ Len(loop.seen) <= Cardinality(Key)
    /\ LET m    == maps[loop.on]
           next == BucketNext(m, loop.it.node)
       IN  loop' = [loop EXCEPT
               !.seen = Append(@, loop.it.node),
               !.it   = IF next # None THEN [@ EXCEPT !.node = next]
                        ELSE SkipFrom(m, @.bucket + 1)]
    /\ UNCHANGED <<maps, dict>>

EndLoop ==
    /\ loop.on # "none" /\ LoopDone
    /\ loop' = NoLoop
    /\ UNCHANGED <<maps, dict>>

Next ==
    \/ \E n \in Maps, k \in Key, v \in Value : Put(n, k, v)
    \/ \E n \in Maps, c \in 1 .. Cardinality(Key) : ReserveFor(n, c)
    \/ \E n \in Maps : Clear(n) \/ Begin(n)
    \/ \E n, other \in Maps :
          CopyAssign(n, other) \/ MoveAssign(n, other) \/ Swap(n, other)
    \/ Advance
    \/ EndLoop

Spec == Init /\ [][Next]_vars

-----------------------------------------------------------------------------

TypeOK ==
    /\ \A n \in Maps :
          /\ maps[n].cap \in 0 .. MaxCapacity
          /\ DOMAIN maps[n].chains = 0 .. maps[n].cap - 1
          /\ maps[n].order \in Seq(Key)
    /\ loop.on \in Maps \union {"none"}

\* A map finds exactly what was stored in it, under the last value, whatever grew,
\* was copied or was moved before: each node is in one chain, the one of its hash.
FindsWhatWasStored ==
    \A n \in Maps :
        LET m == maps[n]
        IN  /\ m.val = dict[n]
            /\ IsInjective(m.order) /\ ToSet(m.order) = DOMAIN dict[n]
            /\ \A k \in Key : FindNode(m, k) <=> k \in DOMAIN dict[n]
            /\ \A b \in DOMAIN m.chains :
                  /\ IsInjective(m.chains[b])
                  /\ \A k \in ToSet(m.chains[b]) : BucketOf(k, m.cap) = b
            /\ m.cap = 0 \/ RequiredBuckets(Size(m)) <= m.cap

\* A loop whose body does not make the map grow sees every key the map had, none
\* twice, and ends; an insertion that rebuilds the chains promises nothing of it.
LoopVisitsAll ==
    (loop.on # "none" /\ ~loop.rebuilt) =>
        /\ IsInjective(loop.seen)
        /\ ~LoopLost
        /\ LoopDone => loop.had \subseteq ToSet(loop.seen)
=============================================================================
