-------------------------- MODULE SceneManagerProofs --------------------------
(***************************************************************************)
(* The scene manager's safety for every set of scenes and every number of  *)
(* changes.  The argument: a registry entry that has a handle has one of   *)
(* its own, made by its last load; as long as the two threads do not write *)
(* rootScene at one time, rootScene has the handle of the entry it names,  *)
(* so that an unload resets the very entry whose handle it destroys.  With *)
(* one scene asked for at a time there is never a second one.              *)
(***************************************************************************)
EXTENDS SceneManager, SequenceTheorems, TLAPS

Unloading   == main.at \in {"read", "registry", "destroy", "forget"}
InCallback  == main.at \in {"id", "handle", "stage"}
IsCallingBack == worker.at \in {"id", "handle", "stage"}

(* A load that is asked for or under way has a change of its own.          *)
LoadsToCome ==
    Len(queue) + (IF worker.at = "load" THEN 1 ELSE 0)
               + (IF Unloading \/ main.at = "request" THEN 1 ELSE 0)

CountersBounded ==
    /\ created + LoadsToCome <= changes
    /\ live \subseteq 0 .. created

ControlOK ==
    /\ main.at = "frame" => main = InFrame
    /\ main.at # "frame" => main.scene \in Scenes
    /\ worker.at = "idle" => worker = NoJob
    /\ worker.at # "idle" => worker.scene \in Scenes
    /\ \A s \in Scenes : entry[s].handle # Invalid <=> entry[s].stage = "Loaded"
    /\ ~overlapped => ~clash
    /\ ~overlapped /\ main # InFrame => ~Pending
    /\ ~clash /\ (Unloading \/ InCallback) => ~Pending

(* A handle in the registry resolves, and belongs to one entry.            *)
EntriesOwnHandles ==
    /\ \A s \in Scenes : entry[s].handle # Invalid => entry[s].handle \in live \ {Blank}
    /\ \A s, u \in Scenes : entry[s].handle = entry[u].handle /\ s # u => entry[s].handle = Invalid

(* Each job is the one load of a scene that nobody else loads.             *)
JobsAreLoads ==
    /\ \A i \in DOMAIN queue : entry[queue[i]].stage = "Loading"
    /\ \A i, j \in DOMAIN queue : queue[i] = queue[j] => i = j
    /\ worker.at = "load" => /\ entry[worker.scene].stage = "Loading"
                             /\ \A i \in DOMAIN queue : queue[i] # worker.scene
    /\ IsCallingBack => entry[worker.scene].stage = "Loaded"

(* rootScene has the handle of the entry it names, but between the copies  *)
(* of its members and between the two resets of an unload.                 *)
RootIsEntry ==
    /\ root.handle \in live \cup {Invalid}
    /\ root.handle \notin {Blank, Invalid} /\ main.at \notin {"destroy", "handle"} /\ worker.at # "handle"
          => root.scene # None /\ entry[root.scene].handle = root.handle
    /\ main.at = "handle" => root.scene = main.scene
    /\ worker.at = "handle" => root.scene = worker.scene

(* What an unload is about to destroy is rootScene's, and no entry's any   *)
(* more.                                                                   *)
UnloadsRoot ==
    /\ main.at \in {"read", "registry", "destroy"} => root.handle # Invalid
    /\ main.at \in {"registry", "destroy"} => main.doomed = root.handle
    /\ main.at = "destroy" => \A s \in Scenes : entry[s].handle # main.doomed

NoClash == ~clash => EntriesOwnHandles /\ JobsAreLoads /\ RootIsEntry /\ UnloadsRoot

(* With one scene asked for at a time: no handle but rootScene's, before   *)
(* and after a load; none at all while one is to come.                     *)
OneScene ==
    ~overlapped =>
        /\ ~InCallback
        /\ ~Pending /\ main.at \in {"frame", "read", "registry", "destroy"} =>
              /\ live = {root.handle} \ {Invalid}
              /\ root.handle # Invalid => root.stage = "Loaded"
        /\ main.at \in {"forget", "request"} \/ queue # <<>> \/ worker.at = "load" =>
              live = {} /\ root.handle = Invalid
        /\ Len(queue) <= 1
        /\ worker # NoJob => queue = <<>>
        /\ worker.at \in {"check", "id", "handle"} =>
              root.handle = Invalid /\ live = {entry[worker.scene].handle} \ {Invalid}
        /\ worker.at = "stage" =>
              root.handle = entry[worker.scene].handle /\ live = {root.handle}

Inv ==
    /\ TypeOK
    /\ CountersBounded
    /\ ControlOK
    /\ NoClash
    /\ OneScene

-----------------------------------------------------------------------------
LEMMA InitInv == Init => Inv
<1> SUFFICES ASSUME Init PROVE Inv
  OBVIOUS
<1> USE SceneManagerAssumption DEF Init, Blank, Unloaded, InFrame, NoJob
<1>1. TypeOK
  <2>1. root \in [scene : Scenes \cup {None}, handle : Handles, stage : Stages]
    BY DEF Handles, Stages
  <2>2. entry \in [Scenes -> [handle : Handles, stage : Stages]]
    BY DEF Handles, Stages
  <2> QED
    <3>1. main \in [at : {"frame"}, scene : {None}, doomed : {Invalid}]
      OBVIOUS
    <3>2. worker \in [at : {"idle"}, scene : {None}]
      OBVIOUS
    <3>3. live \subseteq 0 .. MAX_CHANGES /\ queue \in Seq(Scenes)
      OBVIOUS
    <3> QED
      BY <2>1, <2>2, <3>1, <3>2, <3>3 DEF TypeOK, Handles
<1>2. CountersBounded
  BY DEF CountersBounded, LoadsToCome, Unloading
<1>3. ControlOK
  BY DEF ControlOK, Pending, Unloading, InCallback
<1>4. NoClash
  BY DEF NoClash, EntriesOwnHandles, JobsAreLoads, RootIsEntry, UnloadsRoot, IsCallingBack
<1>5. OneScene
  BY DEF OneScene, InCallback
<1> QED
  BY <1>1, <1>2, <1>3, <1>4, <1>5 DEF Inv

LEMMA ChangeInv ==
    ASSUME Inv, NEW s \in Scenes, Change(s)
    PROVE  Inv'
<1> USE SceneManagerAssumption DEF Change
<1>1. TypeOK'
  <2>1. main' \in [at : {"read", "request"}, scene : Scenes, doomed : {Invalid}]
    BY DEF InFrame
  <2> QED
    BY <2>1 DEF Inv, TypeOK, Handles
<1>2. CountersBounded'
  BY DEF Inv, TypeOK, CountersBounded, Unloading, LoadsToCome, InFrame
<1>3. ControlOK'
  BY DEF Inv, TypeOK, ControlOK, Pending, Unloading, InCallback
<1>4. ~clash' => EntriesOwnHandles'
  BY DEF Inv, NoClash, EntriesOwnHandles
<1>5. ~clash' => JobsAreLoads'
  BY DEF Inv, NoClash, JobsAreLoads, IsCallingBack
<1>6. ~clash' => RootIsEntry'
  BY DEF Inv, NoClash, RootIsEntry, InFrame
<1>7. ~clash' => UnloadsRoot'
  BY DEF UnloadsRoot, IsLoaded
<1>8. OneScene'
  BY DEF Inv, TypeOK, OneScene, InCallback, IsLoaded
<1> QED
  BY <1>1, <1>2, <1>3, <1>4, <1>5, <1>6, <1>7, <1>8 DEF Inv, NoClash

LEMMA ReadHandleInv ==
    ASSUME Inv, ReadHandle
    PROVE  Inv'
<1> USE SceneManagerAssumption DEF ReadHandle
<1>1. TypeOK'
  BY DEF Inv, TypeOK
<1>2. CountersBounded'
  BY DEF Inv, CountersBounded, Unloading, LoadsToCome
<1>3. ControlOK'
  BY DEF Inv, ControlOK, Pending, Unloading
<1>4. ~clash' => EntriesOwnHandles'
  BY DEF Inv, NoClash, EntriesOwnHandles
<1>5. ~clash' => JobsAreLoads'
  BY DEF Inv, NoClash, JobsAreLoads, IsCallingBack
<1>6. ~clash' => RootIsEntry'
  BY DEF Inv, NoClash, RootIsEntry
<1>7. ~clash' => UnloadsRoot'
  BY DEF Inv, NoClash, UnloadsRoot
<1>8. OneScene'
  BY DEF Inv, OneScene, Pending, InCallback
<1> QED
  BY <1>1, <1>2, <1>3, <1>4, <1>5, <1>6, <1>7, <1>8 DEF Inv, NoClash

LEMMA ResetRegistryInv ==
    ASSUME Inv, ResetRegistry
    PROVE  Inv'
<1> USE SceneManagerAssumption DEF ResetRegistry
<1>1. TypeOK'
  BY DEF Inv, TypeOK, Unloaded, Handles, Stages
<1>2. CountersBounded'
  BY DEF Inv, CountersBounded, Unloading, LoadsToCome
<1>3. ControlOK'
  BY DEF Inv, ControlOK, Pending, Unloading, Unloaded
<1>4. ~clash' => EntriesOwnHandles'
  BY DEF Inv, NoClash, EntriesOwnHandles, Unloaded
<1>5. ~clash' => JobsAreLoads'
  BY DEF Inv, ControlOK, JobsAreLoads, Pending, Unloading, IsCallingBack, NoJob
<1>6. ~clash' => RootIsEntry'
  BY DEF Inv, NoClash, RootIsEntry
<1>7. ~clash' => UnloadsRoot'
  BY DEF Inv, NoClash, TypeOK, ControlOK, EntriesOwnHandles, RootIsEntry, UnloadsRoot, Pending, Unloading, NoJob, Unloaded
<1>8. OneScene'
  BY DEF Inv, ControlOK, OneScene, Pending, Unloading, InCallback, NoJob
<1> QED
  BY <1>1, <1>2, <1>3, <1>4, <1>5, <1>6, <1>7, <1>8 DEF Inv, NoClash

LEMMA ResetAndDestroyInv ==
    ASSUME Inv, ResetAndDestroy
    PROVE  Inv'
<1> USE SceneManagerAssumption DEF ResetAndDestroy
<1>1. TypeOK'
  BY DEF Inv, TypeOK, Handles, Stages
<1>2. CountersBounded'
  BY DEF Inv, CountersBounded, Unloading, LoadsToCome
<1>3. ControlOK'
  BY DEF Inv, ControlOK, Pending, Unloading
<1>4. ~clash' => EntriesOwnHandles'
  BY DEF Inv, NoClash, EntriesOwnHandles, UnloadsRoot
<1>5. ~clash' => JobsAreLoads'
  BY DEF Inv, NoClash, JobsAreLoads, IsCallingBack
<1>6. ~clash' => RootIsEntry'
  BY DEF Inv, NoClash, RootIsEntry
<1>7. ~clash' => UnloadsRoot'
  BY DEF UnloadsRoot
<1>8. OneScene'
  BY DEF Inv, NoClash, TypeOK, ControlOK, UnloadsRoot, OneScene, Pending, InCallback
<1> QED
  BY <1>1, <1>2, <1>3, <1>4, <1>5, <1>6, <1>7, <1>8 DEF Inv, NoClash

LEMMA ForgetInv ==
    ASSUME Inv, Forget
    PROVE  Inv'
<1> USE SceneManagerAssumption DEF Forget
<1>1. TypeOK'
  BY DEF Inv, TypeOK, Handles, Stages, NoScene
<1>2. CountersBounded'
  BY DEF Inv, CountersBounded, Unloading, LoadsToCome
<1>3. ControlOK'
  BY DEF Inv, ControlOK, Pending, Unloading
<1>4. ~clash' => EntriesOwnHandles'
  BY DEF Inv, NoClash, EntriesOwnHandles
<1>5. ~clash' => JobsAreLoads'
  BY DEF Inv, NoClash, JobsAreLoads, IsCallingBack
<1>6. ~clash' => RootIsEntry'
  BY DEF Inv, ControlOK, RootIsEntry, Pending, Unloading, NoJob, NoScene
<1>7. ~clash' => UnloadsRoot'
  BY DEF UnloadsRoot
<1>8. OneScene'
  BY DEF Inv, OneScene, InCallback, NoScene
<1> QED
  BY <1>1, <1>2, <1>3, <1>4, <1>5, <1>6, <1>7, <1>8 DEF Inv, NoClash

LEMMA RequestInv ==
    ASSUME Inv, Request
    PROVE  Inv'
<1> USE SceneManagerAssumption
<1> DEFINE s == main.scene
           n == Len(queue) + 1
<1>1. /\ main.at = "request" /\ s \in Scenes
      /\ queue \in Seq(Scenes)
      /\ UNCHANGED <<root, live, worker, created, changes, wanted, overlapped>>
      /\ clash' = (clash \/ (Pending /\ entry[s].stage = "Loaded"))
  BY DEF Inv, TypeOK, ControlOK, Request
<1>2. CASE entry[s].stage = "Unloaded"
  <2>1. /\ entry' = [entry EXCEPT ![s] = [Unloaded EXCEPT !.stage = "Loading"]]
        /\ queue' = Append(queue, s)
        /\ main' = InFrame
        /\ clash' = clash
    BY <1>1, <1>2 DEF Request, Inv, TypeOK
  <2>2. /\ queue' \in Seq(Scenes)
        /\ Len(queue') = n
        /\ DOMAIN queue' = DOMAIN queue \cup {n}
        /\ \A i \in DOMAIN queue : queue'[i] = queue[i] /\ i # n
        /\ queue'[n] = s
        /\ queue' # <<>>
    BY <1>1, <2>1
  <2>3. /\ entry' \in [Scenes -> [handle : Handles, stage : Stages]]
        /\ entry'[s].handle = Invalid /\ entry'[s].stage = "Loading"
        /\ \A u \in Scenes : u # s => entry'[u] = entry[u]
        /\ entry[s].handle = Invalid
    BY <1>1, <1>2, <2>1 DEF Inv, TypeOK, ControlOK, Unloaded, Handles, Stages
  <2> HIDE DEF s, n
  <2>4. TypeOK'
    BY <1>1, <2>1, <2>2, <2>3 DEF Inv, TypeOK, InFrame, Handles
  <2>5. CountersBounded'
    BY <1>1, <2>1, <2>2 DEF Inv, TypeOK, CountersBounded, LoadsToCome, Unloading, InFrame, n
  <2>6. ControlOK'
    BY <1>1, <2>1, <2>3 DEF Inv, ControlOK, Unloading, InCallback, InFrame
  <2>7. ASSUME ~clash PROVE EntriesOwnHandles' /\ UnloadsRoot' /\ RootIsEntry'
    BY <1>1, <2>1, <2>3, <2>7 DEF Inv, TypeOK, NoClash, EntriesOwnHandles, UnloadsRoot, RootIsEntry, InFrame
  <2>8. ASSUME ~clash PROVE JobsAreLoads'
    <3>1. /\ \A i \in DOMAIN queue : queue[i] # s /\ queue[i] \in Scenes
          /\ worker.at \in {"load", "id", "handle", "stage"} => worker.scene # s /\ worker.scene \in Scenes
      BY <1>1, <1>2, <2>8 DEF Inv, ControlOK, NoClash, JobsAreLoads, IsCallingBack, s
    <3> QED
      BY <1>1, <2>2, <2>3, <2>8, <3>1 DEF Inv, NoClash, JobsAreLoads, IsCallingBack
  <2>9. OneScene'
    <3> SUFFICES ASSUME ~overlapped PROVE OneScene'
      BY <1>1 DEF OneScene
    <3>1. queue = <<>> /\ worker = NoJob /\ live = {} /\ root.handle = Invalid
      BY <1>1 DEF Inv, ControlOK, OneScene, Pending, InFrame
    <3> QED
      BY <1>1, <2>1, <2>2, <3>1 DEF OneScene, Pending, InCallback, InFrame, NoJob, n
  <2> QED
    BY <2>1, <2>4, <2>5, <2>6, <2>7, <2>8, <2>9 DEF Inv, NoClash
<1>3. CASE entry[s].stage # "Unloaded"
  <2>1. /\ UNCHANGED <<entry, queue>>
        /\ main' = IF entry[s].stage = "Loaded" THEN [main EXCEPT !.at = "id"] ELSE InFrame
        /\ clash \in BOOLEAN
    BY <1>1, <1>3 DEF Request, Inv, TypeOK
  <2>2. /\ main'.at \in {"id", "frame"}
        /\ main'.at = "frame" => main' = InFrame
        /\ main'.at = "id" => main'.scene = s /\ entry[s].stage = "Loaded"
        /\ main' \in [at : {"id", "frame"}, scene : Scenes \cup {None}, doomed : Handles]
    BY <1>1, <2>1 DEF Inv, TypeOK, InFrame, Handles
  <2> HIDE DEF s
  <2>3. TypeOK'
    BY <1>1, <2>1, <2>2 DEF Inv, TypeOK
  <2>4. CountersBounded'
    <3>1. LoadsToCome = Len(queue) + (IF worker.at = "load" THEN 1 ELSE 0) + 1
      BY <1>1 DEF LoadsToCome, Unloading
    <3>2. LoadsToCome' = Len(queue) + (IF worker.at = "load" THEN 1 ELSE 0)
      <4>1. ~(Unloading' \/ main'.at = "request")
        BY <2>2 DEF Unloading
      <4>2. queue' = queue /\ worker' = worker
        BY <1>1, <2>1
      <4> QED
        BY <1>1, <4>1, <4>2 DEF LoadsToCome
    <3> QED
      BY <1>1, <3>1, <3>2 DEF Inv, TypeOK, CountersBounded
  <2>5. ControlOK'
    <3>1. Pending' <=> Pending
      BY <1>1, <2>1 DEF Pending
    <3>2. main # InFrame
      BY <1>1 DEF InFrame
    <3> QED
      BY <1>1, <2>1, <2>2, <3>1, <3>2 DEF Inv, ControlOK, Unloading, InCallback
  <2>6. ~clash' => EntriesOwnHandles' /\ JobsAreLoads' /\ RootIsEntry' /\ UnloadsRoot'
    BY <1>1, <2>1, <2>2 DEF Inv, NoClash, EntriesOwnHandles, JobsAreLoads, IsCallingBack, RootIsEntry, UnloadsRoot
  <2>7. OneScene'
    <3> SUFFICES ASSUME ~overlapped PROVE OneScene'
      BY <1>1 DEF OneScene
    <3>1. queue = <<>> /\ worker = NoJob /\ live = {} /\ root.handle = Invalid /\ ~clash
      BY <1>1 DEF Inv, ControlOK, OneScene, Pending, InFrame
    <3>2. entry[s].stage # "Loaded"
      BY <1>1, <3>1 DEF Inv, ControlOK, NoClash, EntriesOwnHandles
    <3> QED
      BY <1>1, <2>1, <2>2, <3>1, <3>2 DEF OneScene, Pending, InCallback, NoJob
  <2> QED
    BY <2>3, <2>4, <2>5, <2>6, <2>7 DEF Inv, NoClash
<1> QED
  BY <1>2, <1>3

LEMMA MainCallbackInv ==
    ASSUME Inv, MainCallback
    PROVE  Inv'
<1> USE SceneManagerAssumption DEF MainCallback, CopyId, CopyHandle, CopyStage
<1>1. TypeOK'
  BY DEF Inv, TypeOK, ControlOK, InFrame, Handles
<1>2. CountersBounded'
  <2>1. LoadsToCome' = LoadsToCome
    <3>1. ~(Unloading \/ main.at = "request") /\ ~(Unloading' \/ main'.at = "request")
      BY DEF Inv, TypeOK, Unloading, InFrame
    <3> QED
      BY <3>1 DEF LoadsToCome
  <2> QED
    BY <2>1 DEF Inv, CountersBounded
<1>3. ControlOK'
  BY DEF Inv, TypeOK, ControlOK, UnloadsRoot, Pending, InCallback, InFrame
<1>4. ~clash' => EntriesOwnHandles'
  BY DEF Inv, NoClash, EntriesOwnHandles
<1>5. ~clash' => JobsAreLoads'
  BY DEF Inv, NoClash, JobsAreLoads, IsCallingBack
<1>6. ~clash' => RootIsEntry'
  BY DEF Inv, NoClash, TypeOK, ControlOK, EntriesOwnHandles, RootIsEntry, Pending, InCallback, InFrame, NoJob
<1>7. ~clash' => UnloadsRoot'
  BY DEF Inv, TypeOK, UnloadsRoot, InFrame
<1>8. OneScene'
  BY DEF Inv, OneScene, InCallback
<1> QED
  BY <1>1, <1>2, <1>3, <1>4, <1>5, <1>6, <1>7, <1>8 DEF Inv, NoClash

LEMMA DequeueInv ==
    ASSUME Inv, Dequeue
    PROVE  Inv'
<1> USE SceneManagerAssumption DEF Dequeue
<1>1. TypeOK'
  BY DEF Inv, TypeOK
<1>2. CountersBounded'
  BY DEF Inv, CountersBounded, Unloading, LoadsToCome, NoJob
<1>3. ControlOK'
  BY DEF Inv, TypeOK, ControlOK, Pending, Unloading, InCallback
<1>4. ~clash' => EntriesOwnHandles'
  BY DEF Inv, NoClash, EntriesOwnHandles
<1>5. ~clash' => JobsAreLoads'
  BY DEF Inv, NoClash, JobsAreLoads, IsCallingBack, Blank
<1>6. ~clash' => RootIsEntry'
  BY DEF Inv, NoClash, RootIsEntry, NoJob
<1>7. ~clash' => UnloadsRoot'
  BY DEF Inv, NoClash, UnloadsRoot
<1>8. OneScene'
  BY DEF Inv, ControlOK, JobsAreLoads, OneScene, Pending, InCallback
<1> QED
  BY <1>1, <1>2, <1>3, <1>4, <1>5, <1>6, <1>7, <1>8 DEF Inv, NoClash

LEMMA LoadSucceedsInv ==
    ASSUME Inv, LoadSucceeds
    PROVE  Inv'
<1> USE SceneManagerAssumption DEF LoadSucceeds
<1>1. TypeOK'
  BY DEF Inv, TypeOK, CountersBounded, ControlOK, OneScene, LoadsToCome, NoJob, Blank, Handles, Stages
<1>2. CountersBounded'
  BY DEF Inv, TypeOK, CountersBounded, Unloading, LoadsToCome
<1>3. ControlOK'
  BY DEF Inv, TypeOK, ControlOK, Pending, Unloading, InCallback, NoJob
<1>4. ~clash' => EntriesOwnHandles'
  BY DEF Inv, NoClash, TypeOK, CountersBounded, EntriesOwnHandles, Blank
<1>5. ~clash' => JobsAreLoads'
  BY DEF Inv, NoClash, TypeOK, ControlOK, JobsAreLoads
<1>6. ~clash' => RootIsEntry'
  BY DEF Inv, NoClash, ControlOK, JobsAreLoads, RootIsEntry
<1>7. ~clash' => UnloadsRoot'
  BY DEF Inv, NoClash, TypeOK, CountersBounded, RootIsEntry, UnloadsRoot
<1>8. OneScene'
  BY DEF Inv, TypeOK, ControlOK, OneScene, Pending, InCallback, InFrame, NoJob
<1> QED
  BY <1>1, <1>2, <1>3, <1>4, <1>5, <1>6, <1>7, <1>8 DEF Inv, NoClash

LEMMA LoadFailsInv ==
    ASSUME Inv, LoadFails
    PROVE  Inv'
<1> USE SceneManagerAssumption DEF LoadFails
<1>1. TypeOK'
  BY DEF Inv, TypeOK, Unloaded, Handles, Stages
<1>2. CountersBounded'
  BY DEF Inv, TypeOK, CountersBounded, LoadsToCome
<1>3. ControlOK'
  BY DEF Inv, ControlOK, Pending, Unloading, InCallback, NoJob, Unloaded
<1>4. ~clash' => EntriesOwnHandles'
  BY DEF Inv, NoClash, EntriesOwnHandles, Unloaded
<1>5. ~clash' => JobsAreLoads'
  BY DEF Inv, NoClash, JobsAreLoads, IsCallingBack
<1>6. ~clash' => RootIsEntry'
  BY DEF Inv, NoClash, ControlOK, JobsAreLoads, RootIsEntry
<1>7. ~clash' => UnloadsRoot'
  BY DEF Inv, ControlOK, UnloadsRoot, Pending, Unloading, NoJob
<1>8. OneScene'
  BY DEF Inv, TypeOK, OneScene, InCallback, NoJob, Unloaded
<1> QED
  BY <1>1, <1>2, <1>3, <1>4, <1>5, <1>6, <1>7, <1>8 DEF Inv, NoClash

LEMMA CheckLoadedInv ==
    ASSUME Inv, CheckLoaded
    PROVE  Inv'
<1> USE SceneManagerAssumption DEF CheckLoaded
<1>1. TypeOK'
  BY DEF Inv, TypeOK, NoJob
<1>2. CountersBounded'
  BY DEF Inv, CountersBounded, Unloading, LoadsToCome, NoJob
<1>3. ControlOK'
  BY DEF Inv, ControlOK, Pending, Unloading, InCallback, NoJob
<1>4. ~clash' => EntriesOwnHandles'
  BY DEF Inv, NoClash, EntriesOwnHandles
<1>5. ~clash' => JobsAreLoads'
  BY DEF Inv, NoClash, JobsAreLoads, IsCallingBack, NoJob, IsLoaded
<1>6. ~clash' => RootIsEntry'
  BY DEF Inv, NoClash, RootIsEntry, NoJob
<1>7. ~clash' => UnloadsRoot'
  BY DEF Inv, NoClash, UnloadsRoot
<1>8. OneScene'
  BY DEF Inv, ControlOK, OneScene, Pending, InCallback, NoJob, IsLoaded
<1> QED
  BY <1>1, <1>2, <1>3, <1>4, <1>5, <1>6, <1>7, <1>8 DEF Inv, NoClash

LEMMA WorkerCallbackInv ==
    ASSUME Inv, WorkerCallback
    PROVE  Inv'
<1> USE SceneManagerAssumption DEF WorkerCallback, CopyId, CopyHandle, CopyStage
<1>1. TypeOK'
  BY DEF Inv, TypeOK, ControlOK, JobsAreLoads, NoJob
<1>2. CountersBounded'
  <2>1. LoadsToCome' = LoadsToCome
    <3>1. worker.at # "load" /\ worker'.at # "load" /\ (Unloading' <=> Unloading)
      BY DEF Inv, TypeOK, Unloading, NoJob
    <3> QED
      BY <3>1 DEF LoadsToCome
  <2> QED
    BY <2>1 DEF Inv, CountersBounded
<1>3. ControlOK'
  BY DEF Inv, TypeOK, ControlOK, Pending, Unloading, InCallback, NoJob
<1>4. ~clash' => EntriesOwnHandles'
  BY DEF Inv, NoClash, EntriesOwnHandles
<1>5. ~clash' => JobsAreLoads'
  BY DEF Inv, NoClash, TypeOK, JobsAreLoads, IsCallingBack, NoJob, Stages
<1>6. ~clash' => RootIsEntry'
  BY DEF Inv, NoClash, TypeOK, ControlOK, EntriesOwnHandles, RootIsEntry, Pending, InCallback, NoJob
<1>7. ~clash' => UnloadsRoot'
  BY DEF Inv, ControlOK, UnloadsRoot, Pending, Unloading, NoJob
<1>8. OneScene'
  BY DEF Inv, NoClash, TypeOK, CountersBounded, ControlOK, JobsAreLoads, OneScene, Pending, InCallback, IsCallingBack, NoJob
<1> QED
  BY <1>1, <1>2, <1>3, <1>4, <1>5, <1>6, <1>7, <1>8 DEF Inv, NoClash

-----------------------------------------------------------------------------
(* The invariant of the scene manager, for any scenes and any number of    *)
(* changes.                                                                *)
THEOREM SceneInvariant == Spec => []Inv
<1>1. Inv /\ [Next]_vars => Inv'
  <2> SUFFICES ASSUME Inv, [Next]_vars PROVE Inv'
    OBVIOUS
  <2>1. CASE UNCHANGED vars
    <3>1. TypeOK' /\ CountersBounded'
      BY <2>1 DEF Inv, TypeOK, CountersBounded, LoadsToCome, Unloading, vars
    <3>2. ControlOK'
      BY <2>1 DEF Inv, ControlOK, Pending, Unloading, InCallback, vars
    <3>3. NoClash'
      BY <2>1 DEF Inv, NoClash, EntriesOwnHandles, JobsAreLoads, IsCallingBack, RootIsEntry, UnloadsRoot, vars
    <3>4. OneScene'
      BY <2>1 DEF Inv, OneScene, Pending, InCallback, vars
    <3> QED
      BY <3>1, <3>2, <3>3, <3>4 DEF Inv
  <2>2. CASE \E s \in Scenes : Change(s)
    BY <2>2, ChangeInv
  <2>3. CASE MainStep
    BY <2>3, ReadHandleInv, ResetRegistryInv, ResetAndDestroyInv, ForgetInv, RequestInv, MainCallbackInv
       DEF MainStep
  <2>4. CASE WorkerStep
    BY <2>4, DequeueInv, LoadSucceedsInv, LoadFailsInv, CheckLoadedInv, WorkerCallbackInv
       DEF WorkerStep
  <2> QED
    BY <2>1, <2>2, <2>3, <2>4 DEF Next, Frame
<1> QED
  BY <1>1, InitInv, PTL DEF Spec

(* Every reachable state is type correct: no more scenes are made than     *)
(* changes were asked for.                                                 *)
THEOREM SceneTypeOK == Spec => []TypeOK
  BY SceneInvariant, PTL DEF Inv

(* As long as one thread at a time writes rootScene, every frame finds a   *)
(* handle there that resolves.                                             *)
THEOREM SceneResolvesInFrame == Spec => []SceneResolvesUnlessClash
<1>1. Inv => SceneResolvesUnlessClash
  BY DEF Inv, NoClash, RootIsEntry, SceneResolvesUnlessClash
<1> QED
  BY <1>1, SceneInvariant, PTL

(* With scenes asked for one at a time, the pool holds the current scene   *)
(* and no other once all is quiet.                                         *)
THEOREM SceneIsTheOnlyOne == Spec => []OneSceneUnlessOverlapped
<1>1. Inv => OneSceneUnlessOverlapped
  BY DEF Inv, OneScene, InFrame, OneSceneUnlessOverlapped
<1> QED
  BY <1>1, SceneInvariant, PTL
=============================================================================
