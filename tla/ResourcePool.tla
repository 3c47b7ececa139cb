----------------------------- MODULE ResourcePool -----------------------------
(***************************************************************************)
(* meResourcePool<T> (core/me_resourcepool.h): two block lists of slots,   *)
(* one for template assets and one for instances, addressed by Eye handles *)
(* [index, generation, isAssetTemplate] (core/me_core.h).  A slot counts   *)
(* its generation in SLOT_GENERATIONS values (u16); the handle keeps only  *)
(* HANDLE_GENERATIONS of them (8 bits).                                    *)
(*                                                                         *)
(* A resource object is named by the serial number of the Create call that *)
(* made it, 0 being the default "bad data" object at index 0 of each list. *)
(* issued, alive and reuse are history, kept for the properties:           *)
(*   issued[r]  the handle Create returned for resource r, and the reuse   *)
(*              count its slot had then,                                   *)
(*   alive      the resources whose owner has not destroyed them,          *)
(*   reuse      how often Destroy has freed a slot since the last Clear.   *)
(* Callers destroy what they own once (meAssetUnloadBlocking and a failed  *)
(* meAssetLoad forget the handle they pass), so Destroy is called here on  *)
(* handles of alive resources and on EYE_INVALID.                          *)
(***************************************************************************)
EXTENDS BlockList, Integers

CONSTANTS
    HANDLE_GENERATIONS, \* 2^8 in the code
    SLOT_GENERATIONS,   \* 2^16 in the code
    MAX_INDEX,          \* bound: highest slot index in either list
    MAX_CREATES         \* bound: Create calls between two Clears

ASSUME PoolAssumption ==
    /\ HANDLE_GENERATIONS \in Nat \ {0}
    /\ SLOT_GENERATIONS \in Nat \ {0}
    /\ HANDLE_GENERATIONS <= SLOT_GENERATIONS
    /\ MAX_INDEX \in Nat
    /\ MAX_CREATES \in Nat

VARIABLES
    list,       \* the block list of each kind
    generation, \* slot generations; a freed slot keeps its own
    obj,        \* the resource object in each slot, or NoObj
    issued, alive, reuse

vars == <<list, generation, obj, issued, alive, reuse>>

Kinds == {"Template", "Instance"}
Index == 0 .. MAX_INDEX

BadData  == 0
NoObj    == -1
Serial   == 0 .. MAX_CREATES
Handle   == [kind : Kinds, index : Index, generation : 0 .. HANDLE_GENERATIONS - 1]
(* What Get returns when one of its two assertions fails.                  *)
Asserts  == -2

EYE_INVALID == [kind |-> "Instance", index |-> 0, generation |-> 0]

-----------------------------------------------------------------------------
(* Get and GetShared: the slot must be in use and its generation, compared *)
(* at full width, must be the handle's.                                    *)
Get(h) ==
    IF InUse(list[h.kind], h.index) /\ generation[h.kind][h.index] = h.generation
    THEN obj[h.kind][h.index]
    ELSE Asserts

(* Mutant: the handle is made from the slot passed to push, not the one in *)
(* the list.                                                               *)
EyeOfNewSlot(k, i) == [kind |-> k, index |-> i, generation |-> 0]

EyeOf(k, i) ==
    [kind |-> k, index |-> i, generation |-> generation[k][i] % HANDLE_GENERATIONS]

(* The constructor pushes the bad data object as index 0 of both lists.    *)
NewLists == [k \in Kinds |-> Pushed(EmptyList, 0)]
NewObjs  == [k \in Kinds |-> [i \in Index |-> IF i = 0 THEN BadData ELSE NoObj]]
Zeros    == [k \in Kinds |-> [i \in Index |-> 0]]

Init ==
    /\ list = NewLists
    /\ generation = Zeros
    /\ obj = NewObjs
    /\ issued = <<>>
    /\ alive = {}
    /\ reuse = Zeros

(* Mutant: the plain slot assignment copies the new slot's generation, 0.  *)
CreateResetsGeneration(k) ==
    /\ Len(issued) < MAX_CREATES
    /\ \E i \in Index :
          /\ PushesAt(list[k], i)
          /\ list' = [list EXCEPT ![k] = Pushed(@, i)]
          /\ generation' = [generation EXCEPT ![k][i] = 0]
          /\ obj' = [obj EXCEPT ![k][i] = Len(issued) + 1]
          /\ issued' = Append(issued, [handle |-> [kind |-> k, index |-> i, generation |-> 0],
                                       birth |-> reuse[k][i]])
    /\ alive' = alive \cup {Len(issued) + 1}
    /\ UNCHANGED reuse

(* Mutant: push's search of the free bits stops at a used one.             *)
CreateOverUsedSlot(k) ==
    /\ Len(issued) < MAX_CREATES
    /\ \E i \in Index :
          /\ PushBlock(list[k], BlockOf(i))
          /\ list' = [list EXCEPT ![k] = Pushed(@, i)]
          /\ obj' = [obj EXCEPT ![k][i] = Len(issued) + 1]
          /\ issued' = Append(issued, [handle |-> EyeOf(k, i), birth |-> reuse[k][i]])
    /\ alive' = alive \cup {Len(issued) + 1}
    /\ UNCHANGED <<generation, reuse>>

Create(k) ==
    /\ Len(issued) < MAX_CREATES
    /\ \E i \in Index :
          /\ PushesAt(list[k], i)
          /\ list' = [list EXCEPT ![k] = Pushed(@, i)]
          /\ obj' = [obj EXCEPT ![k][i] = Len(issued) + 1]
          /\ issued' = Append(issued, [handle |-> EyeOf(k, i), birth |-> reuse[k][i]])
    /\ alive' = alive \cup {Len(issued) + 1}
    /\ UNCHANGED <<generation, reuse>>

(* Mutant: the generation is not moved on.                                 *)
FreeSlotSameGeneration(k, i) ==
    /\ obj' = [obj EXCEPT ![k][i] = NoObj]
    /\ list' = [list EXCEPT ![k] = Deleted(@, i)]
    /\ reuse' = [reuse EXCEPT ![k][i] = @ + 1]
    /\ UNCHANGED generation

(* Mutant: the u16 counter does not wrap.                                  *)
FreeSlotNoWrap(k, i) ==
    /\ obj' = [obj EXCEPT ![k][i] = NoObj]
    /\ generation' = [generation EXCEPT ![k][i] = @ + 1]
    /\ list' = [list EXCEPT ![k] = Deleted(@, i)]
    /\ reuse' = [reuse EXCEPT ![k][i] = @ + 1]

FreeSlot(k, i) ==
    /\ obj' = [obj EXCEPT ![k][i] = NoObj]
    /\ generation' = [generation EXCEPT ![k][i] = (@ + 1) % SLOT_GENERATIONS]
    /\ list' = [list EXCEPT ![k] = Deleted(@, i)]
    /\ reuse' = [reuse EXCEPT ![k][i] = @ + 1]

(* Mutant: Destroy without the early return for index 0.                   *)
DestroyAnyIndex(h) ==
    /\ InUse(list[h.kind], h.index)
    /\ FreeSlot(h.kind, h.index)
    /\ alive' = {r \in alive : issued[r].handle # h}
    /\ UNCHANGED issued

(* Destroy returns early for index 0 and otherwise frees whatever the slot *)
(* holds: it never compares generations.                                   *)
Destroy(h) ==
    IF h.index = 0
    THEN UNCHANGED vars
    ELSE /\ InUse(list[h.kind], h.index)
         /\ FreeSlot(h.kind, h.index)
         /\ alive' = {r \in alive : issued[r].handle # h}
         /\ UNCHANGED issued

(* Clear empties both lists and constructs the pool anew in place: blocks  *)
(* are freed, and the generations with them.  Handles issued before are    *)
(* not worth anything after it.                                            *)
Clear ==
    /\ list' = NewLists
    /\ generation' = Zeros
    /\ obj' = NewObjs
    /\ issued' = <<>>
    /\ alive' = {}
    /\ reuse' = Zeros

Next ==
    \/ \E k \in Kinds : Create(k)
    \/ \E r \in alive : Destroy(issued[r].handle)
    \/ Destroy(EYE_INVALID)
    \/ Clear

Spec == Init /\ [][Next]_vars

-----------------------------------------------------------------------------
TypeOK ==
    /\ list \in [Kinds -> ListOf(Index)]
    /\ generation \in [Kinds -> [Index -> 0 .. SLOT_GENERATIONS - 1]]
    /\ obj \in [Kinds -> [Index -> Serial \cup {NoObj}]]
    /\ issued \in Seq([handle : Handle, birth : Nat])
    /\ Len(issued) <= MAX_CREATES
    /\ alive \in SUBSET (1 .. Len(issued))
    /\ reuse \in [Kinds -> [Index -> Nat]]

(* me_blocklist.inl push, markDeleted: block counts, list size and free    *)
(* bits are three records of one fact, and stay so through any sequence of *)
(* pushes and deletes.                                                     *)
BlockListConsistent == \A k \in Kinds : CountsMatchFreeBits(list[k])

(* me_resourcepool.h Create, Destroy: the used slots and the resources that*)
(* have not been destroyed match one to one.  No resource loses its slot   *)
(* to another one, and no slot stays in use with nobody owning it.         *)
SlotPerResource ==
    /\ \A r \in alive :
          LET h == issued[r].handle
          IN  /\ h.index # 0
              /\ InUse(list[h.kind], h.index)
              /\ obj[h.kind][h.index] = r
    /\ \A k \in Kinds : \A i \in list[k].used \ {0} :
          /\ obj[k][i] \in alive
          /\ issued[obj[k][i]].handle.kind = k
          /\ issued[obj[k][i]].handle.index = i

(* me_resourcepool.h:137-148: "an Eye of 0 is valid", whatever is created  *)
(* and destroyed.                                                          *)
BadDataAlwaysThere == Get(EYE_INVALID) = BadData

(* me_resourcepool.h Get: the handle of a resource that is still there     *)
(* resolves to it, until its slot has been freed HANDLE_GENERATIONS times. *)
LiveHandleResolves ==
    \A r \in alive :
        LET h == issued[r].handle
        IN  reuse[h.kind][h.index] < HANDLE_GENERATIONS => Get(h) = r

(* me_resourcepool.h Get, Destroy: a handle kept after its resource was    *)
(* destroyed never resolves, to the next owner of the slot or to anything, *)
(* until the slot's own generation has wrapped.                            *)
StaleHandleRejected ==
    \A r \in DOMAIN issued \ alive :
        LET h == issued[r].handle
        IN  reuse[h.kind][h.index] < SLOT_GENERATIONS => Get(h) = Asserts

(* What the two above rest on (slot operator=, Create, Destroy): a slot's   *)
(* generation counts its reuses, a resource's handle carries the count of  *)
(* its birth, and only the slots of resources that are gone have moved on. *)
GenerationsTrackReuse ==
    /\ \A k \in Kinds, i \in Index :
          reuse[k][i] < SLOT_GENERATIONS => generation[k][i] = reuse[k][i]
    /\ \A r \in DOMAIN issued :
          LET h == issued[r].handle
              b == issued[r].birth
              n == reuse[h.kind][h.index]
          IN  /\ r \in alive => b = n
              /\ r \notin alive => b < n
              /\ h.generation <= b
              /\ b < HANDLE_GENERATIONS => h.generation = b

(* me_resourcepool.h:223, ME_ASSERT(resource.generation == generation):    *)
(* a caller that asks for a resource it owns does not trip the assertion.  *)
OwnedHandleNeverAsserts ==
    \A r \in alive : Get(issued[r].handle) # Asserts
=============================================================================
