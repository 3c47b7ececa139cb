------------------------------ MODULE AssetLocks ------------------------------
(***************************************************************************)
(* Copies of one template asset and the scoped locks on them                *)
(* (asset/me_asset.h, asset/me_asset.cpp, core/me_resourcepool.h): a copy   *)
(* has a handle and may share the content, which the pool, the registry,     *)
(* the copies and the locks keep alive together.  The two kinds of lock,      *)
(* for reading and for writing, do the same.  How a load is done by the       *)
(* compiler thread is in AssetSystem: here it is there when the wait ends,    *)
(* or after the lock has given up.  Another template has places in the same   *)
(* pool, and of it only the handle is kept.                                   *)
(***************************************************************************)
EXTENDS Integers, Sequences

CONSTANTS Copies,     \* the owners of a copy of the asset
          Slots,      \* places of the pool of templates
          MaxLoads,   \* bound: loads, each of which makes a content
          MaxUnloads, \* bound: unloads
          Values,     \* what a content may hold
          None

VARIABLES reg,    \* the registry's entry: handle, stage, content; and how often it was unloaded
          pool,   \* generation and content of each place
          val,    \* the value of each content
          copies, \* a copy as the entry, and the age of the entry it was taken from
          locks,  \* the open locks: what is locked, whether the copy was current, and whether
                  \* the wait was given up
          file,   \* the file, the value last written through a current lock, what went wrong
          other   \* the other template's handle

vars == <<reg, pool, val, copies, locks, file, other>>

Handle(i, g) == [i |-> i, g |-> g]
NoAsset == [id |-> FALSE, handle |-> None, stage |-> "Unloaded", content |-> None]
Aged(a, n) == [asset |-> a, age |-> n]

Init ==
    /\ reg = Aged([NoAsset EXCEPT !.id = TRUE], 0)
    /\ pool = [i \in Slots |-> [gen |-> 0, obj |-> None]]
    /\ val = <<>>
    /\ copies = [c \in Copies |-> Aged([NoAsset EXCEPT !.id = TRUE], 0)]
    /\ locks = [c \in Copies |-> None]
    /\ \E v \in Values :
          file = [value |-> v, want |-> v, dirty |-> FALSE, misused |-> FALSE, failed |-> FALSE]
    /\ other = None

IsLoaded(a) == a.handle # None /\ a.stage = "Loaded"
Current(c) == copies[c].age = reg.age

\* GetShared: the content at the handle's place, which should be of its generation.
GetShared(h) == pool[h.i].obj
Fits(h) == pool[h.i].gen = h.g

Locked(c, k) == locks' = [locks EXCEPT ![c] = [res |-> k, age |-> reg.age,
                                            ok |-> Current(c), late |-> FALSE]]

\* InitLoadedRuntime: the copy's own content, or what the pool has, which asserts that
\* the place still is the handle's; there is no lock when it fails.
LockLoaded(c) ==
    LET a == copies[c].asset
        refused == a.content = None /\ ~Fits(a.handle)
    IN /\ locks[c] = None /\ IsLoaded(a)
       /\ IF refused THEN UNCHANGED locks
          ELSE Locked(c, IF a.content = None THEN GetShared(a.handle) ELSE a.content)
       /\ file' = [file EXCEPT !.failed = @ \/ (refused /\ Current(c))]
       /\ UNCHANGED <<reg, pool, val, copies, other>>

\* InitTemplateAsset of a template that is loaded: the registry's entry is taken.
LockTemplate(c) ==
    /\ locks[c] = None /\ copies[c].asset.id /\ ~IsLoaded(copies[c].asset)
    /\ IsLoaded(reg.asset)
    /\ locks' = [locks EXCEPT ![c] = [res |-> reg.asset.content, age |-> reg.age,
                                    ok |-> TRUE, late |-> FALSE]]
    /\ UNCHANGED <<reg, pool, val, copies, file, other>>

Free == {i \in Slots : pool[i].obj = None}
FirstFree == CHOOSE s \in Free : \A t \in Free : s <= t

\* The same when it has to be loaded first: the wait ends with it, or is given up before
\* the load is through, and the lock has nothing.
LockAndLoad(c) ==
    /\ locks[c] = None /\ copies[c].asset.id /\ ~IsLoaded(copies[c].asset)
    /\ ~IsLoaded(reg.asset) /\ Len(val) < MaxLoads /\ Free # {}
    /\ LET k == Len(val) + 1
           i == FirstFree
       IN /\ val' = Append(val, file.value)
          /\ pool' = [pool EXCEPT ![i].obj = k]
          /\ reg' = Aged([reg.asset EXCEPT !.handle = Handle(i, pool[i].gen),
                                          !.stage = "Loaded", !.content = k], reg.age)
          /\ \E late \in BOOLEAN :
                locks' = [locks EXCEPT ![c] = [res |-> IF late THEN None ELSE k,
                                               age |-> reg.age, ok |-> TRUE, late |-> late]]
          /\ file' = [file EXCEPT !.dirty = FALSE]
    /\ UNCHANGED <<copies, other>>

Unlock(c) ==
    /\ locks[c] # None
    /\ locks' = [locks EXCEPT ![c] = None]
    /\ UNCHANGED <<reg, pool, val, copies, file, other>>

\* A lock of now, on a copy that was current.
GoodLock(c) == locks[c].ok /\ locks[c].age = reg.age

Edit(c, v) ==
    /\ locks[c] # None /\ locks[c].res # None
    /\ val' = [val EXCEPT ![locks[c].res] = v]
    /\ file' = IF GoodLock(c) THEN [file EXCEPT !.want = v, !.dirty = TRUE] ELSE file
    /\ UNCHANGED <<reg, pool, copies, locks, other>>

\* meAssetWrite of the registry's entry: its content, or what the pool has; an entry
\* that is not loaded is not written, and a write that fails leaves the file as it was.
Save ==
    /\ IsLoaded(reg.asset)
    /\ \/ file' = [file EXCEPT !.value = val[reg.asset.content], !.dirty = FALSE]
       \/ UNCHANGED file
    /\ UNCHANGED <<reg, pool, val, copies, locks, other>>

\* A copy of the registry's entry, with its content or made from its handle alone.
Take(c) ==
    /\ IsLoaded(reg.asset)
    /\ \E k \in {None, reg.asset.content} :
          copies' = [copies EXCEPT ![c] = Aged([reg.asset EXCEPT !.content = k], reg.age)]
    /\ UNCHANGED <<reg, pool, val, locks, file, other>>

CopyOf(c, d) ==
    /\ c # d
    /\ copies' = [copies EXCEPT ![c] = copies[d]]
    /\ UNCHANGED <<reg, pool, val, locks, file, other>>

\* Mutant: the reference is set and the handle stays.
SetReferenceOnly(c) ==
    /\ copies' = [copies EXCEPT ![c].asset.id = TRUE, ![c].age = reg.age]
    /\ UNCHANGED <<reg, pool, val, locks, file, other>>

\* SetReference leaves the shared content where it is; no lock looks at it then.
SetReference(c) ==
    /\ copies' = [copies EXCEPT
          ![c] = Aged([@.asset EXCEPT !.id = TRUE, !.handle = None, !.stage = "Unloaded"],
                      reg.age)]
    /\ UNCHANGED <<reg, pool, val, locks, file, other>>

Unloaded(a) == [a EXCEPT !.handle = None, !.stage = "Unloaded", !.content = None]

\* meAssetUnloadBlocking: the registry's entry and the copy are reset, and the place
\* of the copy's handle is given back, whatever is in it now.
Unload(c) ==
    LET h == copies[c].asset.handle
        registry == IF h = None THEN reg
                    ELSE [asset |-> Unloaded(reg.asset), age |-> reg.age + 1]
    IN /\ h # None /\ reg.age < MaxUnloads
       /\ reg' = registry
       /\ copies' = [copies EXCEPT ![c] = Aged(Unloaded(@.asset), registry.age)]
       /\ pool' = [pool EXCEPT ![h.i] = [gen |-> @.gen + 1, obj |-> None]]
       /\ file' = [file EXCEPT !.misused = @ \/ ~Current(c), !.dirty = FALSE,
                               !.want = file.value]
       /\ UNCHANGED <<val, locks, other>>

\* The other template is loaded, and unloaded through its registry's entry, which gives
\* back the place of its handle, whatever is in it now.  0 is its content.
OtherLoads ==
    /\ other = None /\ Free # {} /\ pool[FirstFree].gen < MaxUnloads
    /\ pool' = [pool EXCEPT ![FirstFree].obj = 0]
    /\ other' = Handle(FirstFree, pool[FirstFree].gen)
    /\ UNCHANGED <<reg, val, copies, locks, file>>

OtherUnloads ==
    /\ other # None
    /\ pool' = [pool EXCEPT ![other.i] = [gen |-> @.gen + 1, obj |-> None]]
    /\ other' = None
    /\ UNCHANGED <<reg, val, copies, locks, file>>

Next ==
    \/ Save \/ OtherLoads \/ OtherUnloads
    \/ \E c \in Copies :
          \/ LockLoaded(c) \/ LockTemplate(c) \/ LockAndLoad(c) \/ Unlock(c)
          \/ Take(c) \/ SetReference(c) \/ Unload(c)
          \/ \E v \in Values : Edit(c, v)
          \/ \E d \in Copies : CopyOf(c, d)

Spec == Init /\ [][Next]_vars

-----------------------------------------------------------------------------
(* Properties.  Unloading through a copy that is out of date is misuse: it    *)
(* gives back a place that may be another's (LocksNeverFail shows it).        *)

TypeOK ==
    /\ Len(val) <= MaxLoads /\ \A k \in DOMAIN val : val[k] \in Values
    /\ \A c \in Copies : copies[c].age <= reg.age
    /\ \A i \in Slots : pool[i].obj \in DOMAIN val \union {None, 0}

\* All locks that were opened on current copies since the template was loaded see one
\* object, the registry's, though each copy has a pointer of its own or none; only a lock
\* that gave up its wait has nothing, and what others do through theirs is not lost.
LocksSeeTheTemplate ==
    ~file.misused => \A c \in Copies :
        (locks[c] # None /\ GoodLock(c) /\ IsLoaded(reg.asset)) =>
            locks[c].res = IF locks[c].late THEN None ELSE reg.asset.content

\* Once a save has succeeded, the file has what was last written through such a lock,
\* and no save that fails changes it; what is written through a copy from before an
\* unload goes to an object no one saves.
EditsReachTheFile == (~file.misused /\ ~file.dirty) => file.value = file.want

\* The pool's place of a loaded template has its content in the entry's generation, no
\* handle of a current copy is refused, and the other template keeps its own place.
PoolKeepsTheTemplate ==
    ~file.misused =>
        /\ ~file.failed
        /\ IsLoaded(reg.asset) => /\ Fits(reg.asset.handle)
                                  /\ GetShared(reg.asset.handle) = reg.asset.content
        /\ other # None => Fits(other) /\ GetShared(other) = 0

\* A lock on a copy that is not out of date finds the place of its handle in the
\* handle's generation (ME_ASSERT(resource.generation == handle.GetGeneration()) of
\* GetShared), whatever was unloaded through other copies.
LocksNeverFail == ~file.failed
=============================================================================
