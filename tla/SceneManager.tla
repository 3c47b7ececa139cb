------------------------------ MODULE SceneManager ------------------------------
(***************************************************************************)
(* The current scene (scene/me_scene.{h,cpp}): rootScene is a copy of a    *)
(* registry entry, made by the load callback on the asset compiler thread, *)
(* or on the main thread for a scene that is Loaded already.  The main     *)
(* thread reads it every frame through CurrentScene and takes it apart     *)
(* when the scene is changed; nothing locks it.                            *)
(*                                                                         *)
(* The asset system is seen as far as a scene is concerned: a request      *)
(* queues one job for an Unloaded scene, does nothing for one that is      *)
(* being loaded, and calls back at once for a Loaded one (AssetSystem).    *)
(* A scene is requested by the scene manager only.  Slots of the pool are  *)
(* seen as ResourcePool promises them: a handle resolves until it is       *)
(* destroyed, so a handle is the number of the load that made it.          *)
(* Handle 0 is the blank scene, an instance asset with no registry entry.  *)
(*                                                                         *)
(* A struct is copied member by member, in the order of declaration.       *)
(*                                                                         *)
(* wanted, overlapped and clash are history, for the properties: the scene *)
(* asked for last, whether a scene was asked for while a load was pending, *)
(* and whether the main thread wrote rootScene while one was.              *)
(***************************************************************************)
EXTENDS Naturals, Sequences

CONSTANTS
    Scenes,
    CanFail,     \* the scenes whose file or runtime data may be bad
    MAX_CHANGES, \* bound: changes of scene
    None, Invalid

ASSUME SceneManagerAssumption ==
    /\ CanFail \subseteq Scenes
    /\ MAX_CHANGES \in Nat
    /\ None \notin Scenes
    /\ Invalid \notin Nat

VARIABLES
    root,     \* rootScene: id, runtimeHandle and loadStage
    entry,    \* the registry entries of the scenes
    live,     \* the handles of the pool that resolve
    queue,    \* the compiler's jobs
    main,     \* where the main thread is: at, the scene asked for, the handle to destroy
    worker,   \* where the compiler thread is: at, and its job's scene
    created,  \* slots handed out
    changes,
    wanted, overlapped, clash

vars == <<root, entry, live, queue, main, worker, created, changes, wanted, overlapped, clash>>

Handles == (0 .. MAX_CHANGES) \cup {Invalid}
Stages  == {"Unloaded", "Loading", "Loaded"}
Blank   == 0

NoScene  == [scene |-> None, handle |-> Invalid, stage |-> "Unloaded"]
Unloaded == [handle |-> Invalid, stage |-> "Unloaded"]
InFrame  == [at |-> "frame", scene |-> None, doomed |-> Invalid]
NoJob    == [at |-> "idle", scene |-> None]

IsLoaded(asset) == asset.handle # Invalid /\ asset.stage = "Loaded"

Pending == queue # <<>> \/ worker # NoJob

(* meSceneInitializeLate: a blank scene.                                   *)
Init ==
    /\ root = [scene |-> None, handle |-> Blank, stage |-> "Loaded"]
    /\ entry = [s \in Scenes |-> Unloaded]
    /\ live = {Blank}
    /\ queue = <<>>
    /\ main = InFrame
    /\ worker = NoJob
    /\ created = 0
    /\ changes = 0
    /\ wanted = None
    /\ overlapped = FALSE
    /\ clash = FALSE

-----------------------------------------------------------------------------
(* The main thread.                                                        *)

(* ChangeCurrentSceneAsync, from the command of the editor or at start-up: *)
(* unload the current scene, if there is one loaded, then request s.       *)
Change(s) ==
    /\ main = InFrame
    /\ changes < MAX_CHANGES
    /\ changes' = changes + 1
    /\ main' = [InFrame EXCEPT !.at = IF IsLoaded(root) THEN "read" ELSE "request", !.scene = s]
    /\ wanted' = s
    /\ overlapped' = (overlapped \/ Pending)
    /\ clash' = (clash \/ (Pending /\ IsLoaded(root)))
    /\ UNCHANGED <<root, entry, live, queue, worker, created>>

(* meAssetUnloadBlocking of rootScene itself, one look at it per step: its *)
(* handle is read ...                                                      *)
ReadHandle ==
    /\ main.at = "read"
    /\ main' = [main EXCEPT !.at = "registry", !.doomed = root.handle]
    /\ UNCHANGED <<root, entry, live, queue, worker, created, changes, wanted, overlapped, clash>>

(* ... then the entry of its id is reset, if it is a template asset ...    *)
ResetRegistry ==
    /\ main.at = "registry"
    /\ entry' = IF root.handle \notin {Blank, Invalid} /\ root.scene # None
                THEN [entry EXCEPT ![root.scene] = Unloaded] ELSE entry
    /\ main' = [main EXCEPT !.at = "destroy"]
    /\ UNCHANGED <<root, live, queue, worker, created, changes, wanted, overlapped, clash>>

(* Mutants: the handle is destroyed and kept; it is dropped, not destroyed.*)
DestroyOnly ==
    /\ main.at = "destroy"
    /\ live' = live \ {main.doomed}
    /\ main' = [main EXCEPT !.at = "request", !.doomed = Invalid]
    /\ UNCHANGED <<root, entry, queue, worker, created, changes, wanted, overlapped, clash>>

ResetOnly ==
    /\ main.at = "destroy"
    /\ root' = [root EXCEPT !.handle = Invalid, !.stage = "Unloaded"]
    /\ main' = [main EXCEPT !.at = "forget", !.doomed = Invalid]
    /\ UNCHANGED <<entry, live, queue, worker, created, changes, wanted, overlapped, clash>>

(* ... then rootScene is, and the slot destroyed ...                       *)
ResetAndDestroy ==
    /\ main.at = "destroy"
    /\ root' = [root EXCEPT !.handle = Invalid, !.stage = "Unloaded"]
    /\ live' = live \ {main.doomed}
    /\ main' = [main EXCEPT !.at = "forget", !.doomed = Invalid]
    /\ UNCHANGED <<entry, queue, worker, created, changes, wanted, overlapped, clash>>

(* ... and UnloadCurrentScene forgets the rest.                            *)
Forget ==
    /\ main.at = "forget"
    /\ root' = NoScene
    /\ main' = [main EXCEPT !.at = "request"]
    /\ UNCHANGED <<entry, live, queue, worker, created, changes, wanted, overlapped, clash>>

(* Mutant: the job is queued twice.                                        *)
RequestTwice ==
    /\ main.at = "request"
    /\ LET s == main.scene
       IN  IF entry[s].stage = "Unloaded"
           THEN /\ entry' = [entry EXCEPT ![s] = [Unloaded EXCEPT !.stage = "Loading"]]
                /\ queue' = queue \o <<s, s>>
                /\ main' = InFrame
           ELSE /\ main' = IF entry[s].stage = "Loaded"
                           THEN [main EXCEPT !.at = "id"] ELSE InFrame
                /\ UNCHANGED <<entry, queue>>
    /\ clash' = (clash \/ (Pending /\ entry[main.scene].stage = "Loaded"))
    /\ UNCHANGED <<root, live, worker, created, changes, wanted, overlapped>>

(* meAssetRequestLoadTemplate: a job, a callback at once, or nothing.      *)
Request ==
    /\ main.at = "request"
    /\ LET s == main.scene
       IN  IF entry[s].stage = "Unloaded"
           THEN /\ entry' = [entry EXCEPT ![s] = [Unloaded EXCEPT !.stage = "Loading"]]
                /\ queue' = Append(queue, s)
                /\ main' = InFrame
           ELSE /\ main' = IF entry[s].stage = "Loaded"
                           THEN [main EXCEPT !.at = "id"] ELSE InFrame
                /\ UNCHANGED <<entry, queue>>
    /\ clash' = (clash \/ (Pending /\ entry[main.scene].stage = "Loaded"))
    /\ UNCHANGED <<root, live, worker, created, changes, wanted, overlapped>>

(* The callback's rootScene = *asset.                                      *)
CopyId(s)     == root' = [root EXCEPT !.scene = s]
CopyHandle(s) == root' = [root EXCEPT !.handle = entry[s].handle]
CopyStage(s)  == root' = [root EXCEPT !.stage = entry[s].stage]

MainCallback ==
    /\ \/ main.at = "id" /\ CopyId(main.scene) /\ main' = [main EXCEPT !.at = "handle"]
       \/ main.at = "handle" /\ CopyHandle(main.scene) /\ main' = [main EXCEPT !.at = "stage"]
       \/ main.at = "stage" /\ CopyStage(main.scene) /\ main' = InFrame
    /\ UNCHANGED <<entry, live, queue, worker, created, changes, wanted, overlapped, clash>>

-----------------------------------------------------------------------------
(* The asset compiler thread.                                              *)

Dequeue ==
    /\ worker = NoJob
    /\ queue # <<>>
    /\ worker' = [at |-> "load", scene |-> Head(queue)]
    /\ queue' = Tail(queue)
    /\ UNCHANGED <<root, entry, live, main, created, changes, wanted, overlapped, clash>>

LoadSucceeds ==
    /\ worker.at = "load"
    /\ created' = created + 1
    /\ live' = live \cup {created'}
    /\ entry' = [entry EXCEPT ![worker.scene] = [handle |-> created', stage |-> "Loaded"]]
    /\ worker' = [worker EXCEPT !.at = "check"]
    /\ UNCHANGED <<root, queue, main, changes, wanted, overlapped, clash>>

(* The slot taken for the load has been given back.                        *)
LoadFails ==
    /\ worker.at = "load"
    /\ worker.scene \in CanFail
    /\ entry' = [entry EXCEPT ![worker.scene] = Unloaded]
    /\ worker' = [worker EXCEPT !.at = "check"]
    /\ UNCHANGED <<root, live, queue, main, created, changes, wanted, overlapped, clash>>

(* Mutant: no callback.                                                    *)
CheckAndReturn ==
    /\ worker.at = "check"
    /\ worker' = NoJob
    /\ UNCHANGED <<root, entry, live, queue, main, created, changes, wanted, overlapped, clash>>

CheckLoaded ==
    /\ worker.at = "check"
    /\ worker' = IF IsLoaded(entry[worker.scene]) THEN [worker EXCEPT !.at = "id"] ELSE NoJob
    /\ UNCHANGED <<root, entry, live, queue, main, created, changes, wanted, overlapped, clash>>

WorkerCallback ==
    /\ \/ worker.at = "id" /\ CopyId(worker.scene) /\ worker' = [worker EXCEPT !.at = "handle"]
       \/ worker.at = "handle" /\ CopyHandle(worker.scene) /\ worker' = [worker EXCEPT !.at = "stage"]
       \/ worker.at = "stage" /\ CopyStage(worker.scene) /\ worker' = NoJob
    /\ UNCHANGED <<entry, live, queue, main, created, changes, wanted, overlapped, clash>>

-----------------------------------------------------------------------------
MainStep == ReadHandle \/ ResetRegistry \/ ResetAndDestroy \/ Forget \/ Request \/ MainCallback

WorkerStep == Dequeue \/ LoadSucceeds \/ LoadFails \/ CheckLoaded \/ WorkerCallback

(* A frame that changes nothing; the game runs on.                         *)
Frame == main = InFrame /\ UNCHANGED vars

Next == (\E s \in Scenes : Change(s)) \/ MainStep \/ WorkerStep \/ Frame

(* Both are threads of the operating system, and every call and job        *)
(* returns; nobody has to ask for a scene.                                 *)
Spec == Init /\ [][Next]_vars /\ WF_vars(MainStep) /\ WF_vars(WorkerStep)

-----------------------------------------------------------------------------
TypeOK ==
    /\ root \in [scene : Scenes \cup {None}, handle : Handles, stage : Stages]
    /\ entry \in [Scenes -> [handle : Handles, stage : Stages]]
    /\ live \subseteq 0 .. MAX_CHANGES
    /\ queue \in Seq(Scenes)
    /\ main \in [at : {"frame", "read", "registry", "destroy", "forget", "request",
                       "id", "handle", "stage"},
                 scene : Scenes \cup {None}, doomed : Handles]
    /\ worker \in [at : {"idle", "load", "check", "id", "handle", "stage"},
                   scene : Scenes \cup {None}]
    /\ created \in 0 .. MAX_CHANGES
    /\ changes \in 0 .. MAX_CHANGES
    /\ wanted \in Scenes \cup {None}
    /\ {overlapped, clash} \subseteq BOOLEAN

(* me_scene.cpp:132 CurrentScene, which every frame calls: rootScene has   *)
(* no handle or one that resolves, also while the compiler thread is in    *)
(* the middle of writing it, as long as only that thread writes it then.   *)
SceneResolvesUnlessClash ==
    ~clash /\ main = InFrame => root.handle \in live \cup {Invalid}

(* me_scene.cpp:42 UnloadCurrentScene, me_asset.cpp:582: once all is quiet *)
(* the only scene in the pool is the current one: the one that was         *)
(* replaced is gone, and so is one that failed.                            *)
OneSceneUnlessOverlapped ==
    ~overlapped /\ ~Pending /\ main = InFrame => live = {root.handle} \ {Invalid}

(* me_scene.cpp:57 ChangeCurrentSceneAsync, also with loads pending: the   *)
(* scene asked for becomes the current one and stays it, unless another is *)
(* asked for: the last one asked for wins, not the last one that loads.    *)
(* Left out are a request that finds its scene being loaded, which nobody  *)
(* answers (me_asset.cpp:421), and a rootScene that both threads write.    *)
WantedBecomesCurrent ==
    \A s \in Scenes \ CanFail :
        (main.at = "request" /\ main.scene = s /\ entry[s].stage # "Loading")
            ~> \/ [](IsLoaded(root) /\ root.scene = s)
               \/ wanted # s
               \/ clash

-----------------------------------------------------------------------------
(* me_resourcepool.h:223 ME_ASSERT(resource.generation == generation), for *)
(* the Get of CurrentScene.                                                *)
SceneResolves == main = InFrame => root.handle \in live \cup {Invalid}
=============================================================================
