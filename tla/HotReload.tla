------------------------------- MODULE HotReload -------------------------------
(***************************************************************************)
(* Hot reload of the user app (core/me_app.{h,cpp}): F5 starts a build in  *)
(* another process; its exit callback, on a thread of the operating        *)
(* system, copies the built library to <app>-N.dll and sends a command;    *)
(* the main thread's next flush of the command queue (core/me_command.cpp) *)
(* loads the copy, swaps the two app slots and unloads the old library.    *)
(* The callback reads the paths in HotReloadData, which the next F5        *)
(* rewrites, and a build may be started while others are still running.    *)
(*                                                                         *)
(* A library file is its suffix N.  External: the build tool, which exits  *)
(* with 0 (rebuilt), 2 (nothing changed) or 1 (error); a file copy, which  *)
(* fails on a library that is loaded; LoadLibrary and FreeLibrary, which   *)
(* count references and run the static registration of the app             *)
(* (InternalRegisterApp) only when the library was not loaded yet.         *)
(*                                                                         *)
(* src, running and overlapped are history, for the properties: the        *)
(* version of the sources, the version of the code loaded last, and        *)
(* whether F5 was ever pressed before the last press was done with.        *)
(***************************************************************************)
EXTENDS Naturals, FiniteSets

CONSTANTS
    MAX_PRESSES, \* bound: F5 presses
    MAX_EDITS,   \* bound: edits of the sources
    None         \* no library

ASSUME HotReloadAssumption ==
    /\ MAX_PRESSES \in Nat
    /\ MAX_EDITS \in Nat
    /\ None \notin Nat

VARIABLES
    slots,      \* meLoadedUserApp::slots
    activeSlot, dllCounter,
    data,       \* HotReloadData; newDllPath is the file newCounter names
    refs,       \* reference count of each library in the process
    files,      \* the version in each library file, or None
    built,      \* the version in builtDllPath
    build,      \* per press, where its build is
    path,       \* per press, the newDllPath its callback has read
    cmds,       \* swap commands in the queue
    mainPc,     \* "flush" or "keys", in RunEngine
    presses, src, running, overlapped

vars == <<slots, activeSlot, dllCounter, data, refs, files, built, build, path,
          cmds, mainPc, presses, src, running, overlapped>>

app    == <<slots, activeSlot, dllCounter, refs, running>>
Slots  == {0, 1}
Libs   == 1 .. MAX_PRESSES + 1
Builds == 1 .. MAX_PRESSES
Versions == 0 .. MAX_EDITS

EmptySlot == [lib |-> None, callbacks |-> None]

InFlight == {b \in Builds : build[b] \in {"running", "exited", "copy", "send"}}

(* InitializeEngineConfig loads <app>-1.dll, or fails to.  Files of earlier*)
(* sessions may be there.                                                  *)
Init ==
    /\ \E loaded \in BOOLEAN :
          /\ slots = [s \in Slots |-> IF s = 0 /\ loaded THEN [lib |-> 1, callbacks |-> 1]
                                      ELSE EmptySlot]
          /\ refs = [n \in Libs |-> IF n = 1 /\ loaded THEN 1 ELSE 0]
    /\ activeSlot = 0
    /\ dllCounter = 1
    /\ data = [newCounter |-> 0, newSlot |-> 0]
    /\ files \in [Libs -> {0, None}]
    /\ slots[0].lib = 1 => files[1] = 0
    /\ built = 0
    /\ build = [b \in Builds |-> "none"]
    /\ path = [b \in Builds |-> None]
    /\ cmds = 0
    /\ mainPc = "flush"
    /\ presses = 0
    /\ src = 0
    /\ running = 0
    /\ overlapped = FALSE

-----------------------------------------------------------------------------
(* The main thread: one frame is a flush, then a look at the keyboard.     *)

(* LoadDynamicLibrary: the counts, and the slots after the registration    *)
(* into the pending slot.                                                  *)
Loaded(n)      == [refs EXCEPT ![n] = @ + 1]
Registered(n)  == IF refs[n] = 0 THEN [slots EXCEPT ![data.newSlot].callbacks = n] ELSE slots
Released(r, n) == IF n = None THEN r ELSE [r EXCEPT ![n] = @ - 1]

(* Mutants: the old library stays loaded; the counter is not moved on; the *)
(* old slot is not cleared.                                                *)
SwapWithoutUnload ==
    LET n == data.newCounter
    IN  /\ files[n] # None
        /\ refs' = Loaded(n)
        /\ slots' = [[Registered(n) EXCEPT ![activeSlot] = EmptySlot] EXCEPT ![data.newSlot].lib = n]
        /\ dllCounter' = n
        /\ activeSlot' = data.newSlot
        /\ running' = files[n]

SwapKeepsCounter ==
    LET n == data.newCounter
    IN  /\ files[n] # None
        /\ refs' = Released(Loaded(n), slots[activeSlot].lib)
        /\ slots' = [[Registered(n) EXCEPT ![activeSlot] = EmptySlot] EXCEPT ![data.newSlot].lib = n]
        /\ activeSlot' = data.newSlot
        /\ running' = files[n]
        /\ UNCHANGED dllCounter

SwapKeepsSlot ==
    LET n == data.newCounter
    IN  /\ files[n] # None
        /\ refs' = Released(Loaded(n), slots[activeSlot].lib)
        /\ slots' = [Registered(n) EXCEPT ![data.newSlot].lib = n]
        /\ dllCounter' = n
        /\ activeSlot' = data.newSlot
        /\ running' = files[n]

(* DoUserAppDllSwap loads, unloads what the active slot holds, clears that *)
(* slot, and only then fills the new one.                                  *)
Swap ==
    LET n == data.newCounter
    IN  /\ files[n] # None
        /\ refs' = Released(Loaded(n), slots[activeSlot].lib)
        /\ slots' = [[Registered(n) EXCEPT ![activeSlot] = EmptySlot] EXCEPT ![data.newSlot].lib = n]
        /\ dllCounter' = n
        /\ activeSlot' = data.newSlot
        /\ running' = files[n]

(* ... or logs that the file does not load.                                *)
SwapFails == files[data.newCounter] = None /\ UNCHANGED app

(* meFlushMainThreadCommands: until the queue is empty.                    *)
FlushCommand ==
    /\ mainPc = "flush"
    /\ cmds > 0
    /\ cmds' = cmds - 1
    /\ Swap \/ SwapFails
    /\ UNCHANGED <<data, files, built, build, path, mainPc, presses, src, overlapped>>

FlushEnd ==
    /\ mainPc = "flush"
    /\ cmds = 0
    /\ mainPc' = "keys"
    /\ UNCHANGED <<app, data, files, built, build, path, cmds, presses, src, overlapped>>

(* Mutants: the slot after the active one, without coming round; always    *)
(* slot 1.                                                                 *)
NextSlot == [newCounter |-> dllCounter + 1, newSlot |-> activeSlot + 1]
Slot1    == [newCounter |-> dllCounter + 1, newSlot |-> 1]

NewData == [newCounter |-> dllCounter + 1, newSlot |-> 1 - activeSlot]

(* CheckForUserAppReload with F5 pressed; the process may not start.       *)
PressF5 ==
    /\ mainPc = "keys"
    /\ presses < MAX_PRESSES
    /\ presses' = presses + 1
    /\ data' = NewData
    /\ build' \in {build, [build EXCEPT ![presses + 1] = "running"]}
    /\ mainPc' = "flush"
    /\ overlapped' = (overlapped \/ InFlight # {} \/ cmds > 0)
    /\ UNCHANGED <<app, files, built, path, cmds, src>>

NoKey ==
    /\ mainPc = "keys"
    /\ mainPc' = "flush"
    /\ UNCHANGED <<app, data, files, built, build, path, cmds, presses, src, overlapped>>

-----------------------------------------------------------------------------
(* A build process, and the watcher thread that gets its exit code.        *)

Edit ==
    /\ src < MAX_EDITS
    /\ src' = src + 1
    /\ UNCHANGED <<app, data, files, built, build, path, cmds, mainPc, presses, overlapped>>

BuildExits(b) ==
    /\ build[b] = "running"
    /\ \/ /\ src # built
          /\ built' = src
          /\ build' = [build EXCEPT ![b] = "exited"]
       \/ /\ build' = [build EXCEPT ![b] = "done"] \* nothing changed, or an error
          /\ UNCHANGED built
    /\ UNCHANGED <<app, data, files, path, cmds, mainPc, presses, src, overlapped>>

ReadPaths(b) ==
    /\ build[b] = "exited"
    /\ path' = [path EXCEPT ![b] = data.newCounter]
    /\ build' = [build EXCEPT ![b] = "copy"]
    /\ UNCHANGED <<app, data, files, built, cmds, mainPc, presses, src, overlapped>>

(* Mutant: failIfExists.                                                   *)
CopyIfAbsent(b) ==
    /\ build[b] = "copy"
    /\ IF refs[path[b]] > 0 \/ files[path[b]] # None
       THEN build' = [build EXCEPT ![b] = "done"] /\ UNCHANGED files
       ELSE /\ files' = [files EXCEPT ![path[b]] = built]
            /\ build' = [build EXCEPT ![b] = "send"]
    /\ UNCHANGED <<app, data, built, path, cmds, mainPc, presses, src, overlapped>>

Copy(b) ==
    /\ build[b] = "copy"
    /\ IF refs[path[b]] > 0
       THEN build' = [build EXCEPT ![b] = "done"] /\ UNCHANGED files
       ELSE /\ files' = [files EXCEPT ![path[b]] = built]
            /\ build' = [build EXCEPT ![b] = "send"]
    /\ UNCHANGED <<app, data, built, path, cmds, mainPc, presses, src, overlapped>>

Send(b) ==
    /\ build[b] = "send"
    /\ cmds' = cmds + 1
    /\ build' = [build EXCEPT ![b] = "done"]
    /\ UNCHANGED <<app, data, files, built, path, mainPc, presses, src, overlapped>>

Next ==
    \/ FlushCommand
    \/ FlushEnd
    \/ PressF5
    \/ NoKey
    \/ Edit
    \/ \E b \in Builds : BuildExits(b) \/ ReadPaths(b) \/ Copy(b) \/ Send(b)

Spec == Init /\ [][Next]_vars

-----------------------------------------------------------------------------
TypeOK ==
    /\ slots \in [Slots -> [lib : Libs \cup {None}, callbacks : Libs \cup {None}]]
    /\ activeSlot \in Slots
    /\ dllCounter \in Libs
    /\ data \in [newCounter : Libs \cup {0}, newSlot : Slots]
    /\ refs \in [Libs -> Nat]
    /\ files \in [Libs -> Versions \cup {None}]
    /\ built \in Versions
    /\ build \in [Builds -> {"none", "running", "exited", "copy", "send", "done"}]
    /\ path \in [Builds -> Libs \cup {None}]
    /\ cmds \in 0 .. MAX_PRESSES
    /\ mainPc \in {"flush", "keys"}
    /\ presses \in 0 .. MAX_PRESSES
    /\ src \in Versions
    /\ running \in Versions
    /\ overlapped \in BOOLEAN

(* DoUserAppDllSwap: however builds and swaps overlap, a library is loaded *)
(* exactly as often as a slot holds it: none leaks, none that a slot still *)
(* holds is gone.                                                          *)
ModulesAccountedFor ==
    \A n \in Libs : refs[n] = Cardinality({s \in Slots : slots[s].lib = n})

(* me_app.h:62 "matches the -N suffix of the currently loaded dll": also   *)
(* when a swap runs with data that a later F5 has written.                 *)
CounterMatchesLibrary ==
    slots[activeSlot].lib # None => slots[activeSlot].lib = dllCounter

(* me_app.cpp DoUserAppDllSwap: nothing is left of the app that was        *)
(* replaced, though the slot a swap fills was chosen by an earlier F5.     *)
InactiveSlotEmpty == slots[1 - activeSlot] = EmptySlot

(* The two of them: a swap, whichever F5 its data is from, leaves one app,  *)
(* the one that the counter names.                                         *)
SwapLeavesNamedApp == CounterMatchesLibrary /\ InactiveSlotEmpty

(* me_app.cpp:54, :76: the active slot has the callbacks of the library it *)
(* holds, as long as F5 is pressed only when the last press is done with.  *)
RegisteredUnlessOverlapped ==
    ~overlapped => slots[activeSlot].callbacks = slots[activeSlot].lib

(* ... and then what was built last is what runs, once all is quiet: the   *)
(* build tool's "nothing changed" never hides code that is not loaded.     *)
UpToDateUnlessOverlapped ==
    ~overlapped /\ InFlight = {} /\ cmds = 0 => running = built

-----------------------------------------------------------------------------
(* me_app.cpp:69 "loads new dll, swaps slot, unloads old": the active slot *)
(* has the callbacks of the library it holds.                              *)
ActiveAppRegistered == slots[activeSlot].callbacks = slots[activeSlot].lib
=============================================================================
