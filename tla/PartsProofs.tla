------------------------------ MODULE PartsProofs ------------------------------
(***************************************************************************)
(* What is proved of a part alone holds in the run of all the parts.  The  *)
(* index of assets has a module of proofs of its own, instantiated here    *)
(* for the parts' variables: a step of the part is a step of that          *)
(* instance.  The others are proved in PartLemmas.                         *)
(***************************************************************************)
EXTENDS MCParts, PartLemmas

IndexP == INSTANCE AssetIndexProofs WITH disk <- s1, seen <- s2, index <- s3, twice <- s4,
    writes <- s5, starts <- s6

-----------------------------------------------------------------------------
(* Which part a behaviour is of never changes, and only its steps happen.  *)
LEMMA PartStays == Next => part' = part
  BY DEF Next, MapStep, ArrayStep, HybridStep, MemoryStep, StrStep, TextStep, SerialStep,
         FileStep, ProcessStep, IndexStep, ReflectStep, TagsStep, NamesStep, MakeStep,
         KeyboardStep, MouseStep, EditStep, SelectStep, GpuStep, WorldStep, LocksStep, RunStep

LEMMA PartsNext ==
    ASSUME Next
    PROVE  /\ part = "index" => Index!Next
           /\ part = "memory" => Memory!Next
           /\ part = "string" => Str!Next
           /\ part = "keyboard" => Keyboard!Next
           /\ part = "mouse" => Mouse!Next
           /\ part = "editor" => Edit!Next
           /\ part = "select" => Select!Next
           /\ part = "file" => File!Next
           /\ part = "process" => Process!Next
           /\ part = "scene" => World!Next
           /\ part = "locks" => Locks!Next
           /\ part = "engine" => Run!Next
  BY DEF Next, MapStep, ArrayStep, HybridStep, MemoryStep, StrStep, TextStep, SerialStep,
         FileStep, ProcessStep, IndexStep, ReflectStep, TagsStep, NamesStep, MakeStep,
         KeyboardStep, MouseStep, EditStep, SelectStep, GpuStep, WorldStep, LocksStep, RunStep

-----------------------------------------------------------------------------
(* The index of assets.                                                    *)
IndexInv == part = "index" => IndexP!Inv

LEMMA IndexInit == Init => IndexInv
<1>1. Index!Init => IndexP!Init
  BY
    DEF Index!Init, IndexP!Init, Index!Files, IndexP!Files, Index!Dirs,
        IndexP!Dirs, Index!Names, IndexP!Names, Index!TypeKnown, IndexP!TypeKnown,
        Index!Listed, IndexP!Listed, Index!EmptyIndex, IndexP!EmptyIndex
<1>2. IndexP!Init => IndexP!Inv
  BY PartsAssumption, IndexP!InitInv
<1>3. QED
  BY <1>1, <1>2 DEF Init, IndexInv

LEMMA IndexNext == Index!Next => IndexP!Next
<1>1. ASSUME NEW f PROVE Index!OnFound(f) \/ Index!Skip(f) => IndexP!OnFound(f) \/ IndexP!Skip(f)
  BY
    DEF Index!OnFound, IndexP!OnFound, Index!Recorded, IndexP!Recorded,
        Index!Registered, IndexP!Registered, Index!Put, IndexP!Put,
        Index!SecondName, IndexP!SecondName, Index!Skip, IndexP!Skip
<1>2. ASSUME NEW n, NEW i PROVE Index!NewAsset(n, i) => IndexP!NewAsset(n, i)
  BY
    DEF Index!NewAsset, IndexP!NewAsset, Index!Registered, IndexP!Registered,
        Index!Put, IndexP!Put, Index!SecondName, IndexP!SecondName,
        Index!EnsureExtension, IndexP!EnsureExtension, Index!TypeKnown,
        IndexP!TypeKnown, Index!Started, IndexP!Started
<1>3. ASSUME NEW i PROVE Index!SaveAsset(i) => IndexP!SaveAsset(i)
  BY
    DEF Index!SaveAsset, IndexP!SaveAsset, Index!Registered, IndexP!Registered,
        Index!Put, IndexP!Put, Index!SecondName, IndexP!SecondName,
        Index!EnsureExtension, IndexP!EnsureExtension, Index!TypeKnown,
        IndexP!TypeKnown, Index!FilesystemPath, IndexP!FilesystemPath,
        Index!Started, IndexP!Started
<1>4. ASSUME NEW i PROVE Index!WriteFails(i) => IndexP!WriteFails(i)
  BY DEF Index!WriteFails, IndexP!WriteFails
<1>5. ASSUME NEW i, NEW d PROVE Index!WriteAsset(i, d) => IndexP!WriteAsset(i, d)
  BY
    DEF Index!WriteAsset, IndexP!WriteAsset, Index!Put, IndexP!Put,
        Index!FilesystemPath, IndexP!FilesystemPath
<1>6. ASSUME NEW i, NEW d PROVE Index!RecordDependency(i, d) => IndexP!RecordDependency(i, d)
  BY
    DEF Index!RecordDependency, IndexP!RecordDependency, Index!Recorded,
        IndexP!Recorded, Index!Put, IndexP!Put, Index!Dependencies,
        IndexP!Dependencies, Index!FilesystemPath, IndexP!FilesystemPath,
        Index!Started, IndexP!Started
<1>7. Index!Restart => IndexP!Restart
  BY
    DEF Index!Restart, IndexP!Restart, Index!EmptyIndex, IndexP!EmptyIndex,
        Index!Listed, IndexP!Listed, Index!Started, IndexP!Started
<1>8. Index!Names = IndexP!Names
  BY DEF Index!Names, IndexP!Names
<1>9. QED
  BY <1>1, <1>2, <1>3, <1>4, <1>5, <1>6, <1>7, <1>8 DEF Index!Next, IndexP!Next

LEMMA IndexKept ==
    ASSUME IndexInv, [Next]_vars
    PROVE  IndexInv'
<1>1. part' = part
  BY PartStays DEF vars
<1>2. CASE part = "index"
  <2>1. [IndexP!Next]_(IndexP!vars)
    BY <1>2, PartsNext, IndexNext DEF vars, IndexP!vars
  <2>2. IndexP!Inv'
    BY <1>2, <2>1, PartsAssumption, IndexP!InvStep DEF IndexInv
  <2>3. QED
    BY <2>2 DEF IndexInv
<1>3. QED
  BY <1>1, <1>2 DEF IndexInv

LEMMA IndexHolds == IndexP!Inv => Index!IndexAgrees
<1>1. IndexP!Inv => IndexP!IndexAgrees
  BY IndexP!InvAgrees
<1>2. IndexP!IndexAgrees => Index!IndexAgrees
  BY
    DEF Index!IndexAgrees, IndexP!IndexAgrees, Index!EnsureExtension,
        IndexP!EnsureExtension, Index!TypeKnown, IndexP!TypeKnown,
        Index!MAIDFromPath, IndexP!MAIDFromPath, Index!FilesystemPath,
        IndexP!FilesystemPath, Index!Listed, IndexP!Listed, Index!Dependencies,
        IndexP!Dependencies, Index!ToSet, IndexP!ToSet
<1>3. QED
  BY <1>1, <1>2

(* A save moves no asset; and unless an id has two names or a name two ids, *)
(* the maps between ids and paths are inverse, and every asset file at the  *)
(* top that the start read or that was written since is known.             *)
THEOREM PartsIndexAgrees == Spec => []IndexAgrees
<1>1. IndexInv => IndexAgrees
  BY IndexHolds DEF IndexInv, IndexAgrees
<1>2. QED
  BY <1>1, IndexInit, IndexKept, PTL DEF Spec

-----------------------------------------------------------------------------
(* The arena and the strings.                                              *)
MemoryInv == part = "memory" => ArenaInv
StringInv == part = "string" => StrInv

LEMMA MemoryInit == Init => MemoryInv /\ StringInv
<1>1. Sizes
  BY PartsAssumption DEF Sizes
<1>2. QED
  BY <1>1, ArenaStart, StringsStart DEF Init, MemoryInv, StringInv

LEMMA MemoryKept ==
    ASSUME MemoryInv, StringInv, [Next]_vars
    PROVE  MemoryInv' /\ StringInv'
<1>1. part' = part
  BY PartStays DEF vars
<1>2. part = "memory" => [Memory!Next]_(Memory!vars)
  BY PartsNext DEF vars, Memory!vars
<1>3. MemoryInv'
  BY <1>1, <1>2, ArenaStep DEF MemoryInv
<1>4. StringInv'
  <2>1. CASE UNCHANGED vars
    BY <2>1
      DEF vars, StringInv, StrInv, StrShape, Str!Blocks, Str!StringsOwnTheirText, Str!Text,
          Str!Empties, BuilderShape, Str!BuilderHasRoom, TmpShape, RingHolds, BufferOf
  <2>2. CASE Next
    BY <1>1, <2>2, PartsNext, StringsStep DEF StringInv
  <2>3. QED
    BY <2>1, <2>2
<1>5. QED
  BY <1>3, <1>4

(* Blocks of the arena never overlap, and lie in it but for the end of the  *)
(* last one; a string has its text in memory of its own, and what is        *)
(* allocated is some string's, but for the bytes with which an empty        *)
(* assignment stops the program; a builder made with memory has room for    *)
(* the zero after its text; the results of the last MaxBuffers calls of     *)
(* StringFormatTmp are still there.                                         *)
THEOREM PartsMemoryApart == Spec => []MemoryIsApart
<1>1. MemoryInv /\ StringInv => MemoryIsApart
  BY ArenaHolds, RingIsRead DEF MemoryInv, StringInv, StrInv, MemoryIsApart
<1>2. QED
  BY <1>1, MemoryInit, MemoryKept, PTL DEF Spec

-----------------------------------------------------------------------------
(* The window, with a key and with a button.                              *)
KeyboardInv == part = "keyboard" => WinInv({"tab"}, {})
MouseInv == part = "mouse" => WinInv({"tab", "left"}, {"left"})

LEMMA KeyboardInit == Init => KeyboardInv
<1>1. Keyboard!Init => Win({"tab"}, {}, 2, 2)!Init
  BY DEF Keyboard!Init, Win!Init, Keyboard!Captured, Win!Captured
<1>2. QED
  BY <1>1, WinStart DEF Init, KeyboardInv

LEMMA KeyboardNext == Keyboard!Next => Win({"tab"}, {}, 2, 2)!Next
  BY DEF Keyboard!Next, Win!Next, Keyboard!PressKey, Win!PressKey, Keyboard!ReleaseKey,
         Win!ReleaseKey, Keyboard!Motion, Win!Motion, Keyboard!LoseFocus, Win!LoseFocus,
         Keyboard!GainFocus, Win!GainFocus, Keyboard!TakeCapture, Win!TakeCapture,
         Keyboard!Close, Win!Close, Keyboard!TickBegin, Win!TickBegin, Keyboard!Dispatch,
         Win!Dispatch, Keyboard!Minimise, Win!Minimise, Keyboard!TickEnd, Win!TickEnd,
         Keyboard!MoveCamera, Win!MoveCamera, Keyboard!Posts, Win!Posts, Keyboard!Post,
         Win!Post, Keyboard!Captured, Win!Captured, Keyboard!Freed, Win!Freed,
         Keyboard!Handled, Win!Handled, Keyboard!ForgetInput, Win!ForgetInput,
         Keyboard!TabToggles, Win!TabToggles, Keyboard!JustPressed, Win!JustPressed

LEMMA MouseInit == Init => MouseInv
<1>1. Mouse!Init => Win({"tab", "left"}, {"left"}, 1, 1)!Init
  BY DEF Mouse!Init, Win!Init, Mouse!Captured, Win!Captured
<1>2. QED
  BY <1>1, WinStart DEF Init, MouseInv

LEMMA MouseNext == Mouse!Next => Win({"tab", "left"}, {"left"}, 1, 1)!Next
  BY DEF Mouse!Next, Win!Next, Mouse!PressKey, Win!PressKey, Mouse!ReleaseKey,
         Win!ReleaseKey, Mouse!Motion, Win!Motion, Mouse!LoseFocus, Win!LoseFocus,
         Mouse!GainFocus, Win!GainFocus, Mouse!TakeCapture, Win!TakeCapture,
         Mouse!Close, Win!Close, Mouse!TickBegin, Win!TickBegin, Mouse!Dispatch,
         Win!Dispatch, Mouse!Minimise, Win!Minimise, Mouse!TickEnd, Win!TickEnd,
         Mouse!MoveCamera, Win!MoveCamera, Mouse!Posts, Win!Posts, Mouse!Post,
         Win!Post, Mouse!Captured, Win!Captured, Mouse!Freed, Win!Freed,
         Mouse!Handled, Win!Handled, Mouse!ForgetInput, Win!ForgetInput,
         Mouse!TabToggles, Win!TabToggles, Mouse!JustPressed, Win!JustPressed

LEMMA WindowHolds ==
    /\ WinInv({"tab"}, {}) => Keyboard!NoStuckKeys /\ Keyboard!CursorHiddenWhileRaw
    /\ WinInv({"tab", "left"}, {"left"}) => Mouse!NoStuckKeys /\ Mouse!CursorHiddenWhileRaw
<1>1. ASSUME WinInv({"tab"}, {}) PROVE Keyboard!NoStuckKeys /\ Keyboard!CursorHiddenWhileRaw
  <2>1. Win({"tab"}, {}, 2, 2)!NoStuckKeys /\ Win({"tab"}, {}, 2, 2)!CursorHiddenWhileRaw
    BY <1>1, WinHolds
  <2>2. QED
    BY <2>1 DEF Win!NoStuckKeys, Win!CursorHiddenWhileRaw, Keyboard!NoStuckKeys,
                Keyboard!CursorHiddenWhileRaw
<1>2. ASSUME WinInv({"tab", "left"}, {"left"}) PROVE Mouse!NoStuckKeys /\ Mouse!CursorHiddenWhileRaw
  <2>1. /\ Win({"tab", "left"}, {"left"}, 1, 1)!NoStuckKeys
        /\ Win({"tab", "left"}, {"left"}, 1, 1)!CursorHiddenWhileRaw
    BY <1>2, WinHolds
  <2>2. QED
    BY <2>1 DEF Win!NoStuckKeys, Win!CursorHiddenWhileRaw, Mouse!NoStuckKeys,
                Mouse!CursorHiddenWhileRaw
<1>3. QED
  BY <1>1, <1>2

LEMMA WindowKept ==
    ASSUME KeyboardInv, MouseInv, [Next]_vars
    PROVE  KeyboardInv' /\ MouseInv'
<1>1. part' = part
  BY PartStays DEF vars
<1>2. CASE UNCHANGED vars
  BY <1>2 DEF vars, KeyboardInv, MouseInv, WinInv, WinShape, CursorCounted, KeyAccounted, Held,
              EndsFrom
<1>3. CASE Next
  <2>1. part = "keyboard" => WinInv({"tab"}, {})'
    BY <1>3, PartsNext, KeyboardNext, WinStep DEF KeyboardInv
  <2>2. part = "mouse" => WinInv({"tab", "left"}, {"left"})'
    BY <1>3, PartsNext, MouseNext, WinStep DEF MouseInv
  <2>3. QED
    BY <1>1, <2>1, <2>2 DEF KeyboardInv, MouseInv
<1>4. QED
  BY <1>2, <1>3

-----------------------------------------------------------------------------
(* The selection.                                                          *)
PickInv == part = "select" => SelInv({1, 2, 3}, <<"e", "e", "m">>, {"x", "y"}, 2)

LEMMA PickInit == Init => PickInv
<1>1. Select!Init => Sel({1, 2, 3}, <<"e", "e", "m">>, {"x", "y"}, 2)!Init
  BY DEF Select!Init, Sel!Init
<1>2. QED
  BY <1>1, SelStart DEF Init, PickInv

LEMMA PickNext == Select!Next => Sel({1, 2, 3}, <<"e", "e", "m">>, {"x", "y"}, 2)!Next
  BY DEF Select!Next, Sel!Next, Select!HandlePickEntity, Sel!HandlePickEntity,
         Select!Pick, Sel!Pick, Select!Remodel, Sel!Remodel, Select!CloseInspector,
         Sel!CloseInspector, Select!Chosen, Sel!Chosen, Select!Lit, Sel!Lit,
         Select!Inspected, Sel!Inspected, Select!Instance, Sel!Instance

LEMMA PickHolds ==
    SelInv({1, 2, 3}, <<"e", "e", "m">>, {"x", "y"}, 2) =>
        Select!LitIsSelected /\ Select!OneInspectorPerAsset
  BY DEF SelInv, Sel!LitIsSelected, Sel!OneInspectorPerAsset, Sel!Instance,
         Select!LitIsSelected, Select!OneInspectorPerAsset, Select!Instance

LEMMA PickKept ==
    ASSUME PickInv, [Next]_vars
    PROVE  PickInv'
<1>1. part' = part
  BY PartStays DEF vars
<1>2. CASE UNCHANGED vars
  BY <1>2 DEF vars, PickInv, SelInv, SelShape, Sel!LitIsSelected, Sel!OneInspectorPerAsset,
              Sel!Instance
<1>3. CASE part = "select" /\ Next
  BY <1>3, PartsNext, PickNext, SelStep DEF PickInv
<1>4. QED
  BY <1>1, <1>2, <1>3 DEF PickInv

-----------------------------------------------------------------------------
(* The editor.                                                             *)
EditorInv == part = "editor" => EdInv

LEMMA EditorInit == Init => EditorInv
  BY EdInit DEF Init, EditorInv

LEMMA EditorKept ==
    ASSUME EditorInv, [Next]_vars
    PROVE  EditorInv'
<1>1. part' = part
  BY PartStays DEF vars
<1>2. CASE UNCHANGED vars
  BY <1>2 DEF vars, EditorInv, EdInv, EdShape, Edit!UnsavedIsKnown, Edit!OpenOnce
<1>3. CASE part = "editor" /\ Next
  BY <1>3, PartsNext, EdStep DEF EditorInv
<1>4. QED
  BY <1>1, <1>2, <1>3 DEF EditorInv

(* A key is down for the program only while it is held, or the message that *)
(* says otherwise waits; hides and shows of the cursor balance, unless a    *)
(* registration failed; a template that differs from its file is dirty, on  *)
(* its way, or had a write fail, and none is open twice; the selected       *)
(* entity's material is the one that is lit, and an asset has one inspector. *)
THEOREM PartsEditorShowsState == Spec => []EditorShowsState
<1>1. KeyboardInv /\ MouseInv /\ PickInv /\ EditorInv => EditorShowsState
  BY WindowHolds, PickHolds
    DEF KeyboardInv, MouseInv, PickInv, EditorInv, EdInv, EditorShowsState
<1>2. QED
  BY <1>1, KeyboardInit, MouseInit, WindowKept, PickInit, PickKept, EditorInit, EditorKept, PTL
    DEF Spec

-----------------------------------------------------------------------------
(* Files and processes of the system.                                      *)
FilesInv == part = "file" => FileInv
ProcessesInv == part = "process" => WatchInv /\ TreeInv

LEMMA SystemNone == HandlesAreSomething /\ NoneIsNoAnswer
  BY PartsAssumption DEF HandlesAreSomething, FileHandle, NoneIsNoAnswer

LEMMA SystemInit == Init => FilesInv /\ ProcessesInv
  BY SystemNone, FileStart, ProcessStart DEF Init, FilesInv, ProcessesInv

LEMMA FilesKept ==
    ASSUME FilesInv, [Next]_vars
    PROVE  FilesInv'
<1>1. part' = part
  BY PartStays DEF vars
<1>2. CASE UNCHANGED vars
  BY <1>2 DEF vars, FilesInv, FileInv, FileShape, HandlesOwned, OwnersAgree
<1>3. CASE part = "file" /\ Next
  BY <1>3, PartsNext, SystemNone, FileKeeps DEF FilesInv
<1>4. QED
  BY <1>1, <1>2, <1>3 DEF FilesInv

LEMMA ProcessesKept ==
    ASSUME ProcessesInv, [Next]_vars
    PROVE  ProcessesInv'
<1>1. part' = part
  BY PartStays DEF vars
<1>2. CASE UNCHANGED vars
  BY <1>2 DEF vars, ProcessesInv, WatchInv, TreeInv, Process!PathIsMade
<1>3. CASE part = "process" /\ Next
  BY <1>3, PartsNext, SystemNone, WatchKept, TreeKept DEF ProcessesInv
<1>4. QED
  BY <1>1, <1>2, <1>3 DEF ProcessesInv

-----------------------------------------------------------------------------
(* Scene files, and the locks on a template.                               *)
SceneInv == part = "scene" => WorldInv
LocksPartInv == part = "locks" => LocksInv

LEMMA LocksNone == NoneIsNothing /\ LockSlots \subseteq Nat /\ LockSlots # {}
  BY PartsAssumption DEF NoneIsNothing, PoolHandle

LEMMA SceneInit == Init => SceneInv /\ LocksPartInv
  BY LocksNone, WorldStart, LocksStart DEF Init, SceneInv, LocksPartInv

LEMMA SceneKept ==
    ASSUME SceneInv, [Next]_vars
    PROVE  SceneInv'
<1>1. part' = part
  BY PartStays DEF vars
<1>2. CASE UNCHANGED vars
  BY <1>2 DEF vars, SceneInv, WorldInv, WorldShape, MeshesOwned
<1>3. CASE part = "scene" /\ Next
  BY <1>3, PartsNext, WorldKeeps DEF SceneInv
<1>4. QED
  BY <1>1, <1>2, <1>3 DEF SceneInv

LEMMA LocksPartKept ==
    ASSUME LocksPartInv, [Next]_vars
    PROVE  LocksPartInv'
<1>1. part' = part
  BY PartStays DEF vars
<1>2. CASE UNCHANGED vars
  BY <1>2 DEF vars, LocksPartInv, LocksInv, LocksShape, TemplateInPlace
<1>3. CASE part = "locks" /\ Next
  BY <1>3, PartsNext, LocksNone, LocksKept DEF LocksPartInv
<1>4. QED
  BY <1>1, <1>2, <1>3 DEF LocksPartInv

-----------------------------------------------------------------------------
(* The engine from start to end.                                           *)
EnginePartInv == part = "engine" => EngineInv

LEMMA EngineInit == Init => EnginePartInv
  BY PartsAssumption, RunStart DEF Init, EnginePartInv

LEMMA EngineKept ==
    ASSUME EnginePartInv, [Next]_vars
    PROVE  EnginePartInv'
<1>1. part' = part
  BY PartStays DEF vars
<1>2. CASE UNCHANGED vars
  BY <1>2 DEF vars, EnginePartInv, EngineInv, EngineShape, StartInv, SwapInv, CallInv
<1>3. CASE part = "engine" /\ Next
  BY <1>3, PartsAssumption, PartsNext, RunKeeps DEF EnginePartInv
<1>4. QED
  BY <1>1, <1>2, <1>3 DEF EnginePartInv

(* An open handle of a file has one owner; the exit of a child is told at   *)
(* most once; a path that is said to be made is there; a mesh of a scene    *)
(* has one entity; the pool keeps each of two templates where its entry     *)
(* says, unless one unloads through a copy of before; and the engine starts *)
(* in order and calls code of the app only while it is loaded, on the       *)
(* compiler thread unless a swap overlaps the call.                         *)
THEOREM PartsHandlesHaveOneOwner == Spec => []HandlesHaveOneOwner
<1>1. FilesInv /\ ProcessesInv /\ SceneInv /\ LocksPartInv /\ EnginePartInv
          => HandlesHaveOneOwner
  <2>1. FilesInv => (part = "file" => File!HandlesHaveOneOwner)
    BY SystemNone, FileHolds DEF FilesInv
  <2>2. ProcessesInv => (part = "process" => Process!ExitIsToldOnce /\ Process!PathIsMade)
    BY ProcessHolds DEF ProcessesInv, TreeInv
  <2>3. SceneInv => (part = "scene" => World!MeshesHaveOneEntity)
    BY WorldHolds DEF SceneInv
  <2>4. LocksPartInv => (part = "locks" => Locks!PoolKeepsTheTemplate)
    BY LocksHold DEF LocksPartInv
  <2>5. EnginePartInv => (part = "engine" =>
                             /\ Run!StartIsInOrder
                             /\ Run!MainCallsLoadedCode /\ Run!WorkerCallsLoadedCode)
    BY RunHolds DEF EnginePartInv
  <2>6. QED
    BY <2>1, <2>2, <2>3, <2>4, <2>5 DEF HandlesHaveOneOwner
<1>2. Init => /\ FilesInv /\ ProcessesInv /\ SceneInv /\ LocksPartInv /\ EnginePartInv
  BY SystemInit, SceneInit, EngineInit
<1>3. /\ FilesInv /\ ProcessesInv /\ SceneInv /\ LocksPartInv /\ EnginePartInv
      /\ [Next]_vars
      => /\ FilesInv' /\ ProcessesInv' /\ SceneInv' /\ LocksPartInv' /\ EnginePartInv'
  BY FilesKept, ProcessesKept, SceneKept, LocksPartKept, EngineKept
<1>4. QED
  BY <1>1, <1>2, <1>3, PTL DEF Spec
=============================================================================
