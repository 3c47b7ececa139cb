------------------------------ MODULE AssetSystem ------------------------------
(***************************************************************************)
(* The asset registry and its load, write and unload paths                 *)
(* (asset/me_asset.{h,cpp}, with the parent request of                     *)
(* core/me_serialize.cpp), run by the main thread and by the one asset     *)
(* compiler thread (NUM_ASSET_COMPILER_THREADS).                           *)
(*                                                                         *)
(* A registry entry keeps its address forever (a meMap node, never erased), *)
(* and the lock of the registry guards the map, not the entry: stage and   *)
(* handle are read and written without it.  runtimeContent is set and      *)
(* reset together with runtimeHandle, so handle stands for both.           *)
(*                                                                         *)
(* The pool is seen as ResourcePool promises it: a used slot belongs to    *)
(* one resource.  The job queue is seen as JobSystem promises it: each job *)
(* runs once, in order per producer, one at a time.                        *)
(*                                                                         *)
(* held[a] is the owner's copy of the asset (rootScene, for a scene), made *)
(* by the request's callback and given to meAssetUnloadBlocking.           *)
(*                                                                         *)
(* raced is history: a request has replaced an entry that was not as the   *)
(* request had read it (me_asset.cpp:368 and 383), for somebody else took  *)
(* the asset in between.  LoadedIsNoop shows one such case; what is said   *)
(* of slots, copies and contents is said of the time before the first.     *)
(***************************************************************************)
EXTENDS Naturals, Sequences, FiniteSets

CONSTANTS
    Main, Worker,
    Assets,
    Deps,        \* the dependencies of an asset in the asset index, a sequence
    Parent,      \* the parentAsset of an asset's header, or None
    Requests,    \* what the main thread requests and locks
    Unloads,     \* ... unloads
    Writes,      \* ... saves
    Creates,     \* ... creates
    CanFail,     \* the assets whose file or runtime data may be bad
    NUM_SLOTS,   \* bound: slots of the resource pool
    MAX_ATTEMPTS,\* maxAttempts of meAssetWaitForLoadstage
    MAX_WRITES,  \* bound: queued write jobs
    None, Invalid

Threads == {Main, Worker}

ASSUME AssetSystemAssumption ==
    /\ Main # Worker
    /\ Deps \in [Assets -> Seq(Assets)]
    /\ Parent \in [Assets -> Assets \cup {None}]
    /\ None \notin Assets \cup [op : {"load", "write"}, asset : Assets, cb : BOOLEAN]
    /\ {NUM_SLOTS, MAX_ATTEMPTS, MAX_WRITES} \subseteq Nat
    /\ Invalid \notin Nat
    /\ Requests \cup Unloads \cup Writes \cup Creates \cup CanFail \subseteq Assets
    /\ \A a \in Creates : Parent[a] = None

VARIABLES
    entry,    \* the registry: stage and runtimeHandle of each asset
    slots,    \* the used slots of the resource pool
    jobs,     \* the compiler's queue, one FIFO per producing thread
    cur,      \* the worker's job, or None
    frame,    \* per thread, where it is in which call
    held,     \* the owner's copy of each asset: its runtimeHandle, or Invalid
    asserted, \* the assertions that have failed, and of which asset
    raced     \* a request has acted on a stage that was no longer so

vars == <<entry, slots, jobs, cur, frame, held, asserted, raced>>

Handles == (1 .. NUM_SLOTS) \cup {Invalid}
Stages  == {"None", "Unloaded", "Loading", "Compiling", "Loaded"}
Entry   == [stage : Stages, handle : Handles]
Job     == [op : {"load", "write"}, asset : Assets, cb : BOOLEAN]
Assertion == {"write", "content", "markDeleted"} \X (Assets \cup {None})

(* at     the next step of the thread,                                     *)
(* after  where meAssetRequestLoadTemplate returns to,                     *)
(* todo   the assets the request has still to look at,                     *)
(* cb     whether the request has a callback,                              *)
(* target, tries   the asset waited for, and the attempts made,            *)
(* doomed the handle about to be given to Destroy.                         *)
Frame == [at : {"idle", "read", "mark", "execute", "poll", "destroy", "compile",
                "parse", "copy", "init", "fail", "loaded", "check", "notify", "write"},
          after : {"idle", "poll", "loaded"}, todo : Seq(Assets), cb : BOOLEAN,
          target : Assets \cup {None}, tries : 0 .. MAX_ATTEMPTS, doomed : Handles]

Idle == [at |-> "idle", after |-> "idle", todo |-> <<>>, cb |-> FALSE,
         target |-> None, tries |-> 0, doomed |-> Invalid]

At(t, l)   == frame[t].at = l
Goto(t, l) == frame' = [frame EXCEPT ![t].at = l]

Absent == [stage |-> "None", handle |-> Invalid]
Reset  == [stage |-> "Unloaded", handle |-> Invalid]

IsLoaded(a) == entry[a].stage = "Loaded" /\ entry[a].handle # Invalid

(* ResourcePool takes the first free slot.                                 *)
FirstFree(h) == h \in 1 .. NUM_SLOTS \ slots /\ 1 .. h - 1 \subseteq slots

Init ==
    /\ entry = [a \in Assets |-> Absent]
    /\ slots = {}
    /\ jobs = [t \in Threads |-> <<>>]
    /\ cur = None
    /\ frame = [t \in Threads |-> Idle]
    /\ held = [a \in Assets |-> Invalid]
    /\ asserted = {}
    /\ raced = FALSE

-----------------------------------------------------------------------------
(* meAssetRequestLoadTemplate, by either thread.                           *)

(* The stage is read without the lock.  Already Loaded: the callback is    *)
(* called here and now.  Loading or Compiling: nothing, not even later.    *)
ReadStage(t) ==
    /\ At(t, "read")
    /\ LET a == Head(frame[t].todo)
       IN  \/ /\ frame[t].todo = <<>>
              /\ Goto(t, frame[t].after)
              /\ UNCHANGED held
           \/ /\ frame[t].todo # <<>>
              /\ entry[a].stage \in {"None", "Unloaded"}
              /\ Goto(t, "mark")
              /\ UNCHANGED held
           \/ /\ frame[t].todo # <<>>
              /\ entry[a].stage \notin {"None", "Unloaded"}
              /\ frame' = [frame EXCEPT ![t].todo = Tail(@)]
              /\ held' = IF frame[t].cb /\ entry[a].stage = "Loaded"
                         THEN [held EXCEPT ![a] = entry[a].handle]
                         ELSE held
    /\ UNCHANGED <<entry, slots, jobs, cur, asserted, raced>>

(* Under the lock, but without a second look at the stage.                 *)
MarkLoading(t) ==
    /\ At(t, "mark")
    /\ entry' = [entry EXCEPT ![Head(frame[t].todo)] =
                    [stage |-> "Loading", handle |-> Invalid]]
    /\ Goto(t, "execute")
    /\ raced' = (raced \/ entry[Head(frame[t].todo)].stage \notin {"None", "Unloaded"})
    /\ UNCHANGED <<slots, jobs, cur, held, asserted>>

(* Mutant: the job is lost.                                                *)
ExecuteNothing(t) ==
    /\ At(t, "execute")
    /\ frame' = [frame EXCEPT ![t].at = frame[t].after, ![t].todo = <<>>]
    /\ UNCHANGED <<entry, slots, jobs, cur, held, asserted, raced>>

(* The job is queued, and the call returns: the rest of its assets is not  *)
(* looked at.                                                              *)
Execute(t) ==
    /\ At(t, "execute")
    /\ jobs' = [jobs EXCEPT ![t] = Append(@,
                    [op |-> "load", asset |-> Head(frame[t].todo), cb |-> frame[t].cb])]
    /\ frame' = [frame EXCEPT ![t].at = frame[t].after, ![t].todo = <<>>]
    /\ UNCHANGED <<entry, slots, cur, held, asserted, raced>>

(* Mutants: one sleep too many; a sleep before the first look.             *)
PollOnceMore(t) ==
    /\ At(t, "poll")
    /\ LET found == entry[frame[t].target].stage = "Loaded"
       IN  IF ~found /\ frame[t].tries <= MAX_ATTEMPTS
           THEN frame' = [frame EXCEPT ![t].tries = @ + 1]
           ELSE frame' = [frame EXCEPT ![t] = [Idle EXCEPT !.at =
                              IF t = Main THEN "idle" ELSE IF found THEN "copy" ELSE "fail"]]
    /\ UNCHANGED <<entry, slots, jobs, cur, held, asserted, raced>>

PollSleepsFirst(t) ==
    /\ At(t, "poll")
    /\ LET found == entry[frame[t].target].stage = "Loaded" /\ frame[t].tries > 0
       IN  IF ~found /\ frame[t].tries < MAX_ATTEMPTS
           THEN frame' = [frame EXCEPT ![t].tries = @ + 1]
           ELSE frame' = [frame EXCEPT ![t] = [Idle EXCEPT !.at =
                              IF t = Main THEN "idle" ELSE IF found THEN "copy" ELSE "fail"]]
    /\ UNCHANGED <<entry, slots, jobs, cur, held, asserted, raced>>

(* meAssetWaitForLoadstage(Loaded): look, sleep, look again, up to         *)
(* MAX_ATTEMPTS sleeps.  A failed load is not noticed.                     *)
Poll(t) ==
    /\ At(t, "poll")
    /\ LET found == entry[frame[t].target].stage = "Loaded"
       IN  IF ~found /\ frame[t].tries < MAX_ATTEMPTS
           THEN frame' = [frame EXCEPT ![t].tries = @ + 1]
           ELSE frame' = [frame EXCEPT ![t] = [Idle EXCEPT !.at =
                              IF t = Main THEN "idle" ELSE IF found THEN "copy" ELSE "fail"]]
    /\ UNCHANGED <<entry, slots, jobs, cur, held, asserted, raced>>

(* The pool's Destroy, whose block list asserts that the slot is in use.   *)
DestroySlot(t) ==
    /\ At(t, "destroy")
    /\ slots' = slots \ {frame[t].doomed}
    /\ asserted' = IF frame[t].doomed \in slots THEN asserted ELSE asserted \cup {<<"markDeleted", None>>}
    /\ frame' = [frame EXCEPT ![t] = Idle]
    /\ cur' = IF t = Worker THEN None ELSE cur
    /\ UNCHANGED <<entry, jobs, held, raced>>

-----------------------------------------------------------------------------
(* The main thread's calls.                                                *)

(* A request, with a callback or without one.                              *)
Request(a, cb) ==
    /\ At(Main, "idle") /\ a \in Requests
    /\ frame' = [frame EXCEPT ![Main] = [Idle EXCEPT !.at = "read", !.todo = <<a>>, !.cb = cb]]
    /\ UNCHANGED <<entry, slots, jobs, cur, held, asserted, raced>>

(* A scoped lock on an asset reference: request it and wait.               *)
ScopedLock(a) ==
    /\ At(Main, "idle") /\ a \in Requests
    /\ frame' = [frame EXCEPT ![Main] = [Idle EXCEPT !.at = "read", !.todo = <<a>>,
                                                    !.after = "poll", !.target = a]]
    /\ UNCHANGED <<entry, slots, jobs, cur, held, asserted, raced>>

(* meAssetRequestWriteTemplate of a Loaded asset.                          *)
RequestWrite(a) ==
    /\ At(Main, "idle") /\ a \in Writes
    /\ entry[a].stage = "Loaded"
    /\ Cardinality({i \in DOMAIN jobs[Main] : jobs[Main][i].op = "write"}) < MAX_WRITES
    /\ jobs' = [jobs EXCEPT ![Main] = Append(@, [op |-> "write", asset |-> a, cb |-> FALSE])]
    /\ UNCHANGED <<entry, slots, cur, frame, held, asserted, raced>>

(* meAssetCreateNewAsset of a template asset, under a new id.              *)
CreateNewAsset(a) ==
    /\ At(Main, "idle") /\ a \in Creates
    /\ entry[a] = Absent
    /\ \E h \in 1 .. NUM_SLOTS :
          /\ FirstFree(h)
          /\ slots' = slots \cup {h}
          /\ entry' = [entry EXCEPT ![a] = [stage |-> "Loaded", handle |-> h]]
    /\ UNCHANGED <<jobs, cur, frame, held, asserted, raced>>

(* Mutant: only the copy is reset, not the registry.                       *)
UnloadCopyOnly(a) ==
    /\ At(Main, "idle") /\ a \in Unloads
    /\ held[a] # Invalid
    /\ held' = [held EXCEPT ![a] = Invalid]
    /\ frame' = [frame EXCEPT ![Main] = [Idle EXCEPT !.at = "destroy", !.doomed = held[a]]]
    /\ UNCHANGED <<entry, slots, jobs, cur, asserted, raced>>

(* Mutant: the owner keeps its copy.                                       *)
UnloadKeepsCopy(a) ==
    /\ At(Main, "idle") /\ a \in Unloads
    /\ held[a] # Invalid
    /\ entry' = [entry EXCEPT ![a] = Reset]
    /\ frame' = [frame EXCEPT ![Main] = [Idle EXCEPT !.at = "destroy", !.doomed = held[a]]]
    /\ UNCHANGED <<slots, jobs, cur, held, asserted, raced>>

(* meAssetUnloadBlocking of the owner's copy: first the registry, then the *)
(* copy, and the slot last.                                                *)
Unload(a) ==
    /\ At(Main, "idle") /\ a \in Unloads
    /\ held[a] # Invalid
    /\ entry' = [entry EXCEPT ![a] = Reset]
    /\ held' = [held EXCEPT ![a] = Invalid]
    /\ frame' = [frame EXCEPT ![Main] = [Idle EXCEPT !.at = "destroy", !.doomed = held[a]]]
    /\ UNCHANGED <<slots, jobs, cur, asserted, raced>>

-----------------------------------------------------------------------------
(* The compiler thread.                                                    *)

Dequeue(p) ==
    /\ At(Worker, "idle")
    /\ jobs[p] # <<>>
    /\ cur' = Head(jobs[p])
    /\ jobs' = [jobs EXCEPT ![p] = Tail(@)]
    /\ Goto(Worker, IF cur'.op = "load" THEN "compile" ELSE "write")
    /\ UNCHANGED <<entry, slots, held, asserted, raced>>

(* The write job asserts that the asset is still there.                    *)
Write ==
    /\ At(Worker, "write")
    /\ asserted' = IF IsLoaded(cur.asset) THEN asserted ELSE asserted \cup {<<"write", cur.asset>>}
    /\ cur' = None
    /\ Goto(Worker, "idle")
    /\ UNCHANGED <<entry, slots, jobs, held, raced>>

(* meAssetCompile returns early for an asset that is loaded, and otherwise *)
(* takes a slot for an entry that has none.                                *)
Compile ==
    /\ At(Worker, "compile")
    /\ LET a == cur.asset
       IN  \/ /\ IsLoaded(a)
              /\ Goto(Worker, "check")
              /\ UNCHANGED <<entry, slots>>
           \/ /\ ~IsLoaded(a) /\ entry[a].handle # Invalid
              /\ entry' = [entry EXCEPT ![a].stage = "Compiling"]
              /\ Goto(Worker, "parse")
              /\ UNCHANGED slots
           \/ /\ entry[a].handle = Invalid
              /\ \E h \in 1 .. NUM_SLOTS :
                    /\ FirstFree(h)
                    /\ slots' = slots \cup {h}
                    /\ entry' = [entry EXCEPT ![a] = [stage |-> "Compiling", handle |-> h]]
              /\ Goto(Worker, "parse")
    /\ UNCHANGED <<jobs, cur, held, asserted, raced>>

(* Deserialization of an asset with a parent asks for the parent and waits *)
(* for it, on this thread.                                                 *)
RequestParent ==
    /\ At(Worker, "parse")
    /\ Parent[cur.asset] # None
    /\ frame' = [frame EXCEPT ![Worker] =
                    [Idle EXCEPT !.at = "read", !.todo = <<Parent[cur.asset]>>,
                                 !.after = "poll", !.target = Parent[cur.asset]]]
    /\ UNCHANGED <<entry, slots, jobs, cur, held, asserted, raced>>

(* Mutant: the parent is not waited for.                                   *)
ParsedWithoutParent ==
    /\ frame[Worker].at \in {"parse", "copy"}
    /\ asserted' = IF entry[cur.asset].handle # Invalid THEN asserted
                   ELSE asserted \cup {<<"content", cur.asset>>}
    /\ entry' = [entry EXCEPT ![cur.asset].stage = "Loading"]
    /\ Goto(Worker, "init")
    /\ UNCHANGED <<slots, jobs, cur, held, raced>>

(* The file is read, over a copy of the parent if there is one, and the    *)
(* compiled data prepared; the content is looked into.                     *)
Parsed ==
    /\ \/ At(Worker, "parse") /\ Parent[cur.asset] = None
       \/ At(Worker, "copy") /\ entry[Parent[cur.asset]].handle # Invalid
    /\ asserted' = IF entry[cur.asset].handle # Invalid THEN asserted
                   ELSE asserted \cup {<<"content", cur.asset>>}
    /\ entry' = [entry EXCEPT ![cur.asset].stage = "Loading"]
    /\ Goto(Worker, "init")
    /\ UNCHANGED <<slots, jobs, cur, held, raced>>

(* A bad file or bad runtime data, or a parent that is gone again.         *)
Failed ==
    /\ \/ frame[Worker].at \in {"parse", "copy", "init"} /\ cur.asset \in CanFail
       \/ At(Worker, "copy") /\ entry[Parent[cur.asset]].handle = Invalid
    /\ Goto(Worker, "fail")
    /\ UNCHANGED <<entry, slots, jobs, cur, held, asserted, raced>>

(* Mutant: the failed handle is not given back.                            *)
ForgetFailed ==
    /\ At(Worker, "fail")
    /\ entry' = [entry EXCEPT ![cur.asset] = Reset]
    /\ Goto(Worker, "idle")
    /\ cur' = None
    /\ UNCHANGED <<slots, jobs, held, asserted, raced>>

(* The failure path resets the entry before it destroys the slot.          *)
ResetFailed ==
    /\ At(Worker, "fail")
    /\ LET h == entry[cur.asset].handle
       IN  /\ entry' = [entry EXCEPT ![cur.asset] = Reset]
           /\ frame' = [frame EXCEPT ![Worker] =
                           IF h = Invalid THEN Idle
                           ELSE [Idle EXCEPT !.at = "destroy", !.doomed = h]]
           /\ cur' = IF h = Invalid THEN None ELSE cur
    /\ UNCHANGED <<slots, jobs, held, asserted, raced>>

(* The runtime data is ready: request the dependencies.                    *)
InitializeRuntime ==
    /\ At(Worker, "init")
    /\ frame' = [frame EXCEPT ![Worker] =
                    [Idle EXCEPT !.at = "read", !.todo = Deps[cur.asset], !.after = "loaded"]]
    /\ UNCHANGED <<entry, slots, jobs, cur, held, asserted, raced>>

SetLoaded ==
    /\ At(Worker, "loaded")
    /\ entry' = [entry EXCEPT ![cur.asset].stage = "Loaded"]
    /\ Goto(Worker, "check")
    /\ UNCHANGED <<slots, jobs, cur, held, asserted, raced>>

(* The job looks once more before it tells anyone.                         *)
CheckLoaded ==
    /\ At(Worker, "check")
    /\ Goto(Worker, IF IsLoaded(cur.asset) THEN "notify" ELSE "idle")
    /\ cur' = IF IsLoaded(cur.asset) THEN cur ELSE None
    /\ UNCHANGED <<entry, slots, jobs, held, asserted, raced>>

(* meAssetOnLoad, the finished event and the request's callback, which     *)
(* copies the registry entry as it is by then.                             *)
Notify ==
    /\ At(Worker, "notify")
    /\ held' = IF cur.cb
               THEN [held EXCEPT ![cur.asset] = IF IsLoaded(cur.asset)
                                                THEN entry[cur.asset].handle ELSE Invalid]
               ELSE held
    /\ frame' = [frame EXCEPT ![Worker] = Idle]
    /\ cur' = None
    /\ UNCHANGED <<entry, slots, jobs, asserted, raced>>

InCall(t) == ReadStage(t) \/ MarkLoading(t) \/ Execute(t) \/ Poll(t) \/ DestroySlot(t)

InJob ==
    \/ Write \/ Compile \/ RequestParent \/ Parsed \/ Failed \/ ResetFailed
    \/ InitializeRuntime \/ SetLoaded \/ CheckLoaded \/ Notify

Next ==
    \/ \E a \in Assets : \E cb \in BOOLEAN : Request(a, cb)
    \/ \E a \in Assets : ScopedLock(a)
    \/ \E a \in Assets : RequestWrite(a)
    \/ \E a \in Assets : CreateNewAsset(a)
    \/ \E a \in Assets : Unload(a)
    \/ \E t \in Threads : InCall(t)
    \/ \E p \in Threads : Dequeue(p)
    \/ InJob

Spec == Init /\ [][Next]_vars

(* Both threads keep running while they are inside a call or a job, and    *)
(* the queue serves every producer again and again: requests come from     *)
(* user actions and from loads, not in an endless stream that would keep   *)
(* one producer's part of the queue from ever being looked at.             *)
FairSpec ==
    /\ Spec
    /\ \A t \in Threads : WF_vars(InCall(t))
    /\ WF_vars(InJob)
    /\ \A p \in Threads : SF_vars(Dequeue(p))

-----------------------------------------------------------------------------
TypeOK ==
    /\ entry \in [Assets -> Entry]
    /\ slots \in SUBSET (1 .. NUM_SLOTS)
    /\ jobs \in [Threads -> Seq(Job)]
    /\ cur \in Job \cup {None}
    /\ cur = None <=> At(Worker, "idle")
    /\ frame \in [Threads -> Frame]
    /\ held \in [Assets -> Handles]
    /\ asserted \in SUBSET Assertion
    /\ raced \in BOOLEAN

(* The slots of the pool, an owner each: each used slot belongs to one     *)
(* registry entry or is on its way to Destroy.                             *)
SlotsOwned ==
    LET entries == {a \in Assets : entry[a].handle # Invalid}
        dooming == {t \in Threads : frame[t].doomed # Invalid}
    IN  /\ slots = {entry[a].handle : a \in entries} \cup {frame[t].doomed : t \in dooming}
        /\ Cardinality(slots) = Cardinality(entries) + Cardinality(dooming)

(* No slot is leaked, shared or lost (meAssetCompile, the failure path of  *)
(* meAssetLoad, meAssetUnloadBlocking), though both threads request and    *)
(* wait for the same assets, until a request has raced.                    *)
SlotsAccountedFor == raced \/ SlotsOwned

(* Until a request has raced, none of the assertions of the load, write    *)
(* and unload paths fails, but that of the save of an asset that may be    *)
(* unloaded (me_asset.cpp:497).                                            *)
OnlyLateSavesFail == raced \/ asserted \subseteq {<<"write", a>> : a \in Writes \cap Unloads}

(* The owner's copy is the registry's: until a request has raced, it never *)
(* outlives an unload or a failed load (me_asset.cpp:428 and 408, the two  *)
(* places that call back).                                                 *)
HeldCopyIsCurrent ==
    ~raced => \A a \in Assets : held[a] # Invalid => IsLoaded(a) /\ entry[a].handle = held[a]

(* me_serialize.cpp DeepCopyParentAssetIfNeeded: nothing is loaded over a  *)
(* parent that is not there, and no parent goes away under its child,      *)
(* unless the user unloads it or a request has raced.                      *)
LoadedChildHasParent ==
    ~raced => \A a \in Assets :
        Parent[a] \notin Unloads \cup {None} /\ IsLoaded(a) => IsLoaded(Parent[a])

(* me_serialize.cpp:196, with one compiler thread: the thread that waits   *)
(* for the parent is the thread that would have to load it, so a wait that *)
(* does not succeed at the first look never does.                          *)
ParentWaitIsVain ==
    At(Worker, "poll") /\ frame[Worker].tries > 0 =>
        entry[frame[Worker].target].stage # "Loaded"

(* The registry, seen through the stages, behaves as AssetLifecycle: who   *)
(* asks for an asset gets an answer, and a loaded asset goes away only by  *)
(* an unload, until a request has raced.                                   *)
Status(a) ==
    IF IsLoaded(a) THEN "Loaded"
    ELSE IF entry[a].stage \in {"Loading", "Compiling"} THEN "Pending"
    ELSE "Unloaded"

Lifecycle == INSTANCE AssetLifecycle
                 WITH status <- [a \in Assets |-> Status(a)], void <- raced

ImplementsLifecycle == Lifecycle!Spec

-----------------------------------------------------------------------------
(* me_asset.cpp:497, ME_ASSERT(asset && asset->loadStage == Loaded && ...) *)
(* in the write job: an asset that was Loaded when its save was requested  *)
(* still is when the job runs.                                             *)
WriteAssertionHolds == \A a \in Assets : <<"write", a>> \notin asserted

(* me_asset.cpp:366 "if it's already loaded, noop": a request never takes  *)
(* a loaded asset back to Loading.                                         *)
LoadedIsNoop ==
    [][\A a \in Assets : IsLoaded(a) => entry'[a].stage \in {"Loaded", "Unloaded"}]_vars
=============================================================================
