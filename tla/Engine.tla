-------------------------------- MODULE Engine --------------------------------
(***************************************************************************)
(* The engine from start to end (core/me_app.cpp, core/me_log.cpp): systems *)
(* made in turn, loaders that register themselves, frames with their        *)
(* commands, and the end, while the compiler thread loads scenes, tells the  *)
(* app of them and logs.  The logging library is external; overlapping       *)
(* reloads are in HotReload and the scene's handle in SceneManager.          *)
(***************************************************************************)
EXTENDS Integers, Sequences

LOCAL INSTANCE SequencesExt

CONSTANTS MaxScenes, \* bound: changes of scene
          MaxSwaps,  \* bound: libraries swapped in
          None       \* no library: the default callbacks, or a null handle

VARIABLES main,   \* the main thread: pc, the step of the start, running, the command line
          boot,   \* systems there are, loaders, how far the configuration was read
          app,    \* userApp's slots, the active one, and the libraries in the process
          worker, \* the compiler thread, and the scene loads that wait for it
          logger  \* the sinks, and the age of the loggers

vars == <<main, boot, app, worker, logger>>

Types == {"entity", "scene", "mesh", "material", "texture", "shader"}

\* InitializeEngine with InitializeEngineSystems: what is made, and what that uses.
Steps == <<"arenas", "cmdline", "logger", "window", "commands", "config", "renderer",
           "assets", "scene", "material", "texture", "mesh", "shader", "entity",
           "loaders", "index", "blank", "tests", "editor", "cursor", "init", "default">>

Uses(s) ==
    CASE s \in {"arenas", "logger"} -> {}
      [] s \in {"cmdline", "window", "commands", "config", "scene", "material", "entity"} ->
            {"arenas"}
      [] s \in {"renderer", "cursor"} -> {"arenas", "window"}
      [] s = "assets" -> {"arenas", "cmdline"}
      [] s \in {"texture", "mesh", "shader"} -> {"arenas", "renderer"}
      [] s = "loaders" -> {"assets"} \union Types
      [] s = "index" -> {"assets", "arenas"}
      [] s \in {"blank", "default"} -> {"scene", "loaders", "index"}
      [] s = "tests" -> {"cmdline"}
      [] s = "editor" -> {"arenas", "assets", "renderer"}
      [] s = "init" -> {"config"}

Slot(cb, dll) == [cb |-> cb, dll |-> dll]
EmptySlot == Slot(None, None)

Init ==
    /\ \E tests \in BOOLEAN :
          main = [pc |-> "boot", step |-> 1, running |-> TRUE, tests |-> tests]
    /\ boot = [made |-> {}, loaders |-> {}, cfg |-> "none", failed |-> FALSE]
    /\ app = [slots |-> [i \in {0, 1} |-> EmptySlot], active |-> 0, loaded |-> {}, next |-> 1]
    /\ worker = [at |-> "none", jobs |-> 0, sent |-> 0, slot |-> 0, in |-> None, log |-> 0,
                 over |-> FALSE, misused |-> FALSE]
    /\ logger = [sink |-> FALSE, age |-> 0]

-----------------------------------------------------------------------------
(* The start.                                                              *)

Step == Steps[main.step]
Booting(s) == main.pc = "boot" /\ Step = s
Forward == IF main.step = Len(Steps) THEN [main EXCEPT !.pc = "tick"]
           ELSE [main EXCEPT !.step = @ + 1]

\* A null pointer is used when something is not made yet.
Made(s) == [boot EXCEPT !.made = @ \union {s}, !.failed = @ \/ ~(Uses(s) \subseteq boot.made)]

\* MENEW of a pool, a system or a window; most steps of the start.
MakeSystem ==
    /\ main.pc = "boot" /\ Step \notin {"logger", "config", "assets", "loaders", "tests", "default"}
    /\ boot' = Made(Step) /\ main' = Forward
    /\ UNCHANGED <<app, worker, logger>>

\* InitializeLogger; without a log file there is no engine.
StartLogger ==
    /\ Booting("logger")
    /\ \E ok \in BOOLEAN :
          /\ logger' = [logger EXCEPT !.sink = ok]
          /\ main' = IF ok THEN Forward ELSE [main EXCEPT !.pc = "exit"]
    /\ boot' = Made("logger")
    /\ UNCHANGED <<app, worker>>

\* InitializeEngineConfig: each file and the library may be missing; the app then runs
\* with the callbacks that do nothing.  The library registers itself while it loads.
ReadConfig ==
    /\ Booting("config")
    /\ \E cfg \in {"none", "user", "app", "dll"} :
          /\ boot' = [Made("config") EXCEPT !.cfg = cfg]
          /\ app' = IF cfg # "dll" THEN app
                    ELSE [app EXCEPT !.slots[0] = Slot(1, 1), !.loaded = {1}, !.next = 2]
    /\ main' = Forward
    /\ UNCHANGED <<worker, logger>>

\* meAssetInitialize starts the compiler thread.
StartAssets ==
    /\ Booting("assets")
    /\ boot' = Made("assets") /\ main' = Forward
    /\ worker' = [worker EXCEPT !.at = "idle"]
    /\ UNCHANGED <<app, logger>>

\* meAssetInitializeLate calls the subscribers of registerAssetLoader in the order the
\* linker left them in; meAssetRegisterLoader asserts a pool and a free place.
RegisterLoader(t) ==
    /\ Booting("loaders") /\ t \notin boot.loaders
    /\ LET all == boot.loaders \union {t} = Types IN
          /\ boot' = [(IF all THEN Made("loaders") ELSE boot) EXCEPT
                         !.loaders = @ \union {t},
                         !.failed = @ \/ t \notin boot.made \/ "assets" \notin boot.made]
          /\ main' = IF all THEN Forward ELSE main
    /\ UNCHANGED <<app, worker, logger>>

\* With -ShouldRunTests the tests run, and the engine ends.
RunTests ==
    /\ Booting("tests")
    /\ boot' = Made("tests")
    /\ main' = IF main.tests THEN [main EXCEPT !.pc = "removeLoggers"] ELSE Forward
    /\ UNCHANGED <<app, worker, logger>>

SendScene == [worker EXCEPT !.jobs = @ + 1, !.sent = @ + 1]

\* The default scene is known when the app's configuration was read, and may be missing.
DefaultScene ==
    /\ Booting("default")
    /\ boot' = Made("default") /\ main' = Forward
    /\ \/ UNCHANGED worker
       \/ boot.cfg \in {"app", "dll"} /\ worker' = SendScene
    /\ UNCHANGED <<app, logger>>

-----------------------------------------------------------------------------
(* Frames: RunEngine.                                                      *)

\* meOSTick: the window may be closed; the frame goes on to its end.
Tick ==
    /\ main.pc = "tick"
    /\ main' \in {[main EXCEPT !.pc = "flush"], [main EXCEPT !.pc = "flush", !.running = FALSE]}
    /\ UNCHANGED <<boot, app, worker, logger>>

ChangeScene ==
    /\ main.pc = "flush" /\ worker.sent < MaxScenes
    /\ worker' = SendScene
    /\ UNCHANGED <<main, boot, app, logger>>

NewSlot == 1 - app.active

\* DoUserAppDllSwap, from the library that loads to the slot that is switched.  The
\* library registers itself while it loads; when it does not load nothing is swapped.
SwapLoad ==
    /\ main.pc = "flush" /\ app.next <= MaxSwaps + 1
    /\ \E ok \in BOOLEAN :
          /\ app' = IF ok
                    THEN [app EXCEPT !.slots[NewSlot].cb = app.next,
                                     !.loaded = @ \union {app.next}, !.next = @ + 1]
                    ELSE [app EXCEPT !.next = @ + 1]
          /\ main' = IF ok THEN [main EXCEPT !.pc = "unload"] ELSE main
    /\ UNCHANGED <<boot, worker, logger>>

\* Whether the compiler thread is in the scene's callback.
InCallback == worker.at \in {"slot", "subscriber", "app"}
Overlapped == [worker EXCEPT !.over = @ \/ InCallback]

SwapUnload ==
    /\ main.pc = "unload"
    /\ app' = [app EXCEPT !.loaded = @ \ {app.slots[app.active].dll}]
    /\ main' = [main EXCEPT !.pc = "clear"]
    /\ worker' = Overlapped
    /\ UNCHANGED <<boot, logger>>

\* Mutant: the old slot keeps its callbacks, and stays the active one.
KeepSlot ==
    /\ main.pc = "clear"
    /\ app' = [app EXCEPT !.slots[NewSlot].dll = app.next - 1]
    /\ main' = [main EXCEPT !.pc = "flush"]
    /\ worker' = Overlapped
    /\ UNCHANGED <<boot, logger>>

SwapClear ==
    /\ main.pc = "clear"
    /\ app' = [app EXCEPT !.slots[app.active] = EmptySlot, !.slots[NewSlot].dll = app.next - 1]
    /\ main' = [main EXCEPT !.pc = "switch"]
    /\ worker' = Overlapped
    /\ UNCHANGED <<boot, logger>>

SwapSwitch ==
    /\ main.pc = "switch"
    /\ app' = [app EXCEPT !.active = NewSlot]
    /\ main' = [main EXCEPT !.pc = "flush"]
    /\ worker' = Overlapped
    /\ UNCHANGED <<boot, logger>>

\* updateFn and the rest of the frame; after the last frame shutdownFn is called.
Frame ==
    /\ main.pc = "flush"
    /\ main' = [main EXCEPT !.pc = IF main.running THEN "tick" ELSE "shutdown"]
    /\ UNCHANGED <<boot, app, worker, logger>>

-----------------------------------------------------------------------------
(* The end: the compiler thread is not stopped (its Shutdown is commented out). *)

CallShutdown ==
    /\ main.pc = "shutdown"
    /\ main' = [main EXCEPT !.pc = "removeLoggers"]
    /\ UNCHANGED <<boot, app, worker, logger>>

\* ShutdownLogger: the loggers go, then the backend stops, then the sinks go.
RemoveLoggers ==
    /\ main.pc = "removeLoggers"
    /\ logger' = [logger EXCEPT !.age = @ + 1]
    /\ main' = [main EXCEPT !.pc = "resetSinks"]
    /\ UNCHANGED <<boot, app, worker>>

ResetSinks ==
    /\ main.pc = "resetSinks"
    /\ logger' = [logger EXCEPT !.sink = FALSE]
    /\ main' = [main EXCEPT !.pc = "exit"]
    /\ UNCHANGED <<boot, app, worker>>

-----------------------------------------------------------------------------
(* The compiler thread: it runs until the process ends.                     *)

At(from, to) == /\ worker.at = from /\ main.pc # "exit"
                /\ UNCHANGED <<main, boot, app>>

TakeJob ==
    /\ At("idle", "message") /\ worker.jobs > 0
    /\ worker' = [worker EXCEPT !.at = "message", !.jobs = @ - 1, !.over = FALSE]
    /\ UNCHANGED logger

\* GetLogCategoryLogger makes a logger when there is none, also while they are removed.
GetLogger ==
    /\ At("message", "log")
    /\ worker' = IF logger.sink THEN [worker EXCEPT !.at = "log", !.log = logger.age]
                 ELSE [worker EXCEPT !.at = "load"]
    /\ UNCHANGED logger

\* A logger of an older age is no more.
UseLogger ==
    /\ At("log", "load")
    /\ worker' = [worker EXCEPT !.at = "load",
                                !.misused = @ \/ worker.log # logger.age \/ main.pc = "resetSinks"]
    /\ UNCHANGED logger

\* The load succeeds or not; of a scene that is loaded the app is told.
LoadScene ==
    /\ At("load", "slot")
    /\ \E ok \in BOOLEAN :
          worker' = [worker EXCEPT !.at = IF ok THEN "slot" ELSE "idle",
                                   !.over = main.pc \in {"clear", "switch"}]
    /\ UNCHANGED logger

\* ActiveCallbacks() is a reference into the slot; its subscriber is read later.
ReadSlot ==
    /\ At("slot", "subscriber")
    /\ worker' = [worker EXCEPT !.at = "subscriber", !.slot = app.active]
    /\ UNCHANGED logger

ReadSubscriber ==
    /\ At("subscriber", "app")
    /\ LET cb == app.slots[worker.slot].cb IN
       worker' = [worker EXCEPT !.at = IF cb = None THEN "idle" ELSE "app", !.in = cb]
    /\ UNCHANGED logger

SubscriberReturns ==
    /\ At("app", "idle")
    /\ worker' = [worker EXCEPT !.at = "idle", !.in = None]
    /\ UNCHANGED logger

Next ==
    \/ MakeSystem \/ StartLogger \/ ReadConfig \/ StartAssets \/ RunTests \/ DefaultScene
    \/ \E t \in Types : RegisterLoader(t)
    \/ Tick \/ ChangeScene \/ Frame
    \/ SwapLoad \/ SwapUnload \/ SwapClear \/ SwapSwitch
    \/ CallShutdown \/ RemoveLoggers \/ ResetSinks
    \/ TakeJob \/ GetLogger \/ UseLogger \/ LoadScene
    \/ ReadSlot \/ ReadSubscriber \/ SubscriberReturns

Spec == Init /\ [][Next]_vars

-----------------------------------------------------------------------------
(* Properties.                                                             *)

TypeOK ==
    /\ main.step \in 1 .. Len(Steps) /\ worker.jobs \in 0 .. worker.sent
    /\ boot.made \subseteq ToSet(Steps) /\ boot.loaders \subseteq Types
    /\ app.loaded \subseteq 1 .. MaxSwaps + 1 /\ app.active \in {0, 1}

\* No step of the start uses what is not made, in whatever order the loaders register,
\* and every type of asset has its loader before the first frame or load.
StartIsInOrder ==
    /\ ~boot.failed
    /\ (main.pc = "tick" \/ worker.jobs > 0) => boot.loaders = Types

\* Whenever the main thread calls the app it calls into a library that is loaded, or
\* the callbacks that do nothing: after a failed start, and after each swap.
MainCallsLoadedCode ==
    (main.pc \in {"flush", "shutdown"} \/ Booting("init")) =>
        app.slots[app.active].cb \in app.loaded \union {None}

\* The compiler thread, which calls the app without a lock, calls into a library that
\* is loaded unless a swap took a step while it was on its way there.
WorkerCallsLoadedCode ==
    worker.at = "app" /\ ~worker.over => worker.in \in app.loaded

\* me_app.cpp:69 has the old library unloaded after the slot is swapped: what the
\* compiler thread is about to call through the active slot is loaded.
ActiveSlotIsLoaded ==
    worker.at = "subscriber" /\ worker.slot = app.active =>
        app.slots[app.active].cb \in app.loaded \union {None}

\* me_log.h:29 has the producers of messages stopped before the loggers: the compiler
\* thread never logs with one that is gone.
LoggersOutliveProducers == ~worker.misused
=============================================================================
