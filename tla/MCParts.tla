------------------------------ MODULE MCParts ------------------------------
(***************************************************************************)
(* The parts that share no state with the rest of the engine, checked by    *)
(* one run: containers, memory, strings, text, files and processes of the   *)
(* system, the serializer, the index of assets and the locks on them, the   *)
(* reflector and the build, the window, the editor, scene files, the GPU's  *)
(* resources, and the engine from start to stop.  A behaviour is one of one *)
(* part: part names it, and s1 to s7 are that part's variables (0 where a    *)
(* part has fewer).  No part sees another one's steps, so what is checked    *)
(* of each is what is checked of it alone.                                 *)
(***************************************************************************)
EXTENDS PartsState

vars == <<part, s1, s2, s3, s4, s5, s6, s7>>

-----------------------------------------------------------------------------

\* Small instances.  Bounds named in the modules; sets as small as lets each case happen.

\* Three keys of which two pairs collide with two buckets, and one with four.
Map == INSTANCE MeMap WITH maps <- s1, dict <- s2, loop <- s3,
    Maps <- {"a", "b"}, Key <- {1, 3, 5}, Value <- {10}, HashOf <- [k \in {1, 3, 5} |-> k],
    InitialSize <- 2, MaxCapacity <- 4

Array == INSTANCE DynArray WITH hnd <- s1, heap <- s2, want <- s3, stale <- s4, failed <- s5,
    Handles <- {"a", "b"}, Pushes <- {<<1>>, <<2, 1>>}, Capacities <- 0 .. 2, Blocks <- {"p", "q", "r"},
    MaxSize <- 2, U32Max <- 7, Null <- None

Hybrid == INSTANCE HybridArray WITH arr <- s1, heap <- s2, want <- s3, call <- s4, failed <- s5,
    Arrays <- {"a", "b"}, Element <- {1, 2}, FixedSize <- 1, MaxSize <- 2

Text == INSTANCE TextScan WITH input <- s1, got <- s2,
    Bits <- 4, Tails <- {<<>>, <<",">>, <<" ", "1">>, <<".">>},
    Relatives <- {<<"a">>, <<"a", ".", "x">>, <<"d", "/", "a", ".", "x">>,
                  <<"d", "\\", "e", "/", "a", ".", "x">>, <<"d", "/", "e">>,
                  <<"d", ".", "d", "/", "a">>},
    Resources <- <<":", "/", "r">>, Folders <- <<"c", "d", "e">>

\* The parent differs from the defaults in every field, and has longer lists.
ParentObject ==
    [magic |-> "MEAS", ver |-> 0, type |-> None, id |-> None, parent |-> None, deps |-> <<>>,
     n |-> 1, name |-> <<"b">>, xs |-> <<1, 1>>, pos |-> <<1, 1>>, refs |-> <<"q", "p">>]
Serial == INSTANCE Serializer WITH version <- s1, saved <- s2, file <- s3, out <- s4,
    Nums <- {0, 1}, Names <- {<<>>, <<"a", "b">>}, Arrays <- {<<>>, <<1>>, <<1, 0>>},
    Vectors <- {<<0, 1>>}, Assets <- {"q"}, Me <- "me",
    Parent <- "p", ParentObject <- ParentObject,
    Versions <- {1, 2}, MaxRemoved <- 1

Index == INSTANCE AssetIndex WITH disk <- s1, seen <- s2, index <- s3, twice <- s4,
    writes <- s5, starts <- s6

\* Two structs: B may contain A, derive from it, or hold a DynArray of it.
Type(n) == [name |-> n, args |-> <<>>]
Field(n, t) == [name |-> n, type |-> t, excluded |-> FALSE, bits |-> FALSE]
AFields == {<<>>, <<Field("x", Type("int"))>>,
            <<Field("x", Type("char")), Field("y", Type("int"))>>,
            <<Field("x", Type("int")), Field("y", Type("char"))>>}
BField ==
    [name : {"x", "z", "w"}, excluded : BOOLEAN, bits : {FALSE},
     type : {Type("char"), Type("int"), Type("A"), [name |-> "DynArray", args |-> <<"A">>]}]
    \union {[Field("z", Type("int")) EXCEPT !.bits = TRUE]}
BFields ==
    {<<>>} \union {<<f>> : f \in BField}
    \union {<<f, g>> : f, g \in {h \in BField : h.type # Type("char")}}
Programs ==
    {[A |-> [tagged |-> t, ver |-> 1, bases |-> <<>>, fields |-> x],
      B |-> [tagged |-> TRUE, ver |-> 2, bases |-> p, fields |-> y]] :
        t \in BOOLEAN, x \in AFields, p \in {<<>>, <<"A">>},
        y \in {z \in BFields : Len(z) < 2 \/ z[1].name # z[2].name}}

Reflect == INSTANCE Reflector WITH prog <- s1, visited <- s2, refl <- s3, written <- s4,
    failed <- s5, Order <- <<"A", "B">>, Builtin <- [char |-> 1, int |-> 4, DynArray |-> 2]

\* A struct, one that may derive from it, and two functions; or one struct whose tag is
\* written in every way.
Decl(kind, name, op) ==
    [kind |-> kind, name |-> name, op |-> op, written |-> <<>>, bases |-> <<>>,
     fields |-> <<>>, spelled |-> TRUE, builds |-> TRUE]
TaggedFields == {<<>>, <<TRUE>>, <<TRUE, FALSE>>}
FirstFunctions ==
    {Decl("function", "f", "ConsoleCommand"), Decl("function", "f", "CompileRun"),
     [Decl("function", "f", "CompileRun") EXCEPT !.spelled = FALSE],
     [Decl("function", "f", "CompileRun") EXCEPT !.builds = FALSE]}
Value(key, quoted, value) == [key |-> key, quoted |-> quoted, value |-> value]
Values ==
    {Value("Tooltip", TRUE, <<"x", ",", "y">>), Value("Tooltip", TRUE, <<"x", ")">>),
     Value("Tooltip", TRUE, <<"Version">>), Value("Version", FALSE, <<"2">>),
     Value("Serializer", TRUE, <<"f">>), Value("Serializer", FALSE, <<"f">>),
     Value("Deserializer", TRUE, <<"g">>), Value("Deserializer", FALSE, <<"g">>)}
ValueLists ==
    {w \in UNION {[1 .. n -> Values] : n \in 0 .. 3} :
        \A i, j \in DOMAIN w : w[i].key = w[j].key => i = j}
TaggedPrograms ==
    {<<[Decl("struct", "base", t) EXCEPT !.fields = x],
       [Decl("struct", "s", o) EXCEPT !.fields = y, !.bases = b], f, Decl("function", g, "CompileRun")>> :
        t \in {None, "type"}, x \in TaggedFields, o \in {None, "type", "CompileRun"},
        y \in TaggedFields, b \in {<<>>, <<1>>}, f \in FirstFunctions, g \in {"f", "g"}}
    \union {<<[Decl("struct", "s", "type") EXCEPT !.written = w]>> : w \in ValueLists}

AtBuild == INSTANCE CompileRun WITH prog <- s1, ctx <- s2, run <- s3, told <- s4, done <- s5,
    Programs <- TaggedPrograms, BaseAsset <- "base"

\* A type in a library's header and three of the project's, two of which can have one file
\* name; the names of two types can differ in their case only.
TypeIn(file, scope, name, kind, fields) ==
    [file |-> file, scope |-> scope, name |-> name, kind |-> kind, fields |-> fields]
FieldOf(of, excluded) == [of |-> of, excluded |-> excluded]
NamedPrograms ==
    {[types |-> 
               <<TypeIn(u, sc, IF k = "builtin" THEN "Vec3" ELSE "Vec", k, <<>>),
                 TypeIn(v, "", n, "tagged", IF x THEN <<>> ELSE <<FieldOf(1, FALSE)>>),
                 TypeIn("a/x.h", "", "Box", "tagged", <<FieldOf(2, FALSE), FieldOf(1, e)>>)>>,
      order |-> o] :
        u \in {"lib/v.h", "b/x.h"}, sc \in {"", "m"}, k \in {"tagged", "plain", "special", "builtin"},
        v \in {"a/x.h", "b/x.h", "c/y.h"}, n \in {"Ball", "BOX", "String"}, x \in BOOLEAN,
        e \in BOOLEAN,
        o \in {<<"a/x.h", "b/x.h", "c/y.h", "lib/v.h">>, <<"lib/v.h", "c/y.h", "b/x.h", "a/x.h">>}}

Named == INSTANCE Descriptors WITH prog <- s1, run <- s2, store <- s3, out <- s4, told <- s5,
    Programs <- NamedPrograms, Ours <- {"a/x.h", "b/x.h", "c/y.h"}, ByHand <- {"VEC3", "STRING"},
    Stem <- [h \in {"a/x.h", "b/x.h", "c/y.h", "lib/v.h"} |->
                CASE h = "c/y.h" -> "y" [] h = "lib/v.h" -> "v" [] OTHER -> "x"],
    Capitals <- [n \in {"Vec", "Vec3", "Ball", "Box", "BOX", "String"} |->
                    CASE n = "Vec" -> "VEC" [] n = "Vec3" -> "VEC3" [] n = "Ball" -> "BALL"
                      [] n = "String" -> "STRING" [] OTHER -> "BOX"],
    MaxRuns <- 2

Make == INSTANCE Build WITH src <- s1, gen <- s2, log <- s3, bin <- s4, me <- s5,
    Headers <- {"h"}, MaxVersion <- 2

Keyboard == INSTANCE Window WITH phys <- s1, queue <- s2, in <- s3, cur <- s4, frame <- s5,
    Keys <- {"tab"}, Buttons <- {}, MaxQueue <- 2, MaxShow <- 2

Mouse == INSTANCE Window WITH phys <- s1, queue <- s2, in <- s3, cur <- s4, frame <- s5,
    Keys <- {"tab", "left"}, Buttons <- {"left"}, MaxQueue <- 1, MaxShow <- 1

Select == INSTANCE Selection WITH queue <- s1, sel <- s2, insp <- s3,
    Insts <- {1, 2, 3}, InstId <- <<"e", "e", "m">>, Materials <- {"x", "y"}, MaxQueue <- 2

Gpu == INSTANCE GpuResources WITH gpu <- s1, mesh <- s2, tex <- s3, mat <- s4, shader <- s5,
    Meshes <- {1, 2}, Textures <- {1, 2}, Materials <- {1, 2}, Streams <- <<"pos", "idx">>,
    MaxHandles <- 8

-----------------------------------------------------------------------------

Init ==
    \/ part = "map" /\ Map!Init /\ s4 = 0 /\ s5 = 0 /\ s6 = 0 /\ s7 = 0
    \/ part = "array" /\ Array!Init /\ s6 = 0 /\ s7 = 0
    \/ part = "hybrid" /\ Hybrid!Init /\ s6 = 0 /\ s7 = 0
    \/ part = "memory" /\ Memory!Init /\ s6 = 0 /\ s7 = 0
    \/ part = "string" /\ Str!Init /\ s7 = 0
    \/ part = "text" /\ Text!Init /\ s3 = 0 /\ s4 = 0 /\ s5 = 0 /\ s6 = 0 /\ s7 = 0
    \/ part = "serial" /\ Serial!Init /\ s5 = 0 /\ s6 = 0 /\ s7 = 0
    \/ part = "file" /\ File!Init /\ s6 = 0 /\ s7 = 0
    \/ part = "process" /\ Process!Init /\ s3 = 0 /\ s4 = 0 /\ s5 = 0 /\ s6 = 0 /\ s7 = 0
    \/ part = "index" /\ Index!Init /\ s7 = 0
    \/ part = "reflect" /\ Reflect!Init /\ s6 = 0 /\ s7 = 0
    \/ part = "tags" /\ AtBuild!Init /\ s6 = 0 /\ s7 = 0
    \/ part = "names" /\ Named!Init /\ s6 = 0 /\ s7 = 0
    \/ part = "build" /\ Make!Init /\ s6 = 0 /\ s7 = 0
    \/ part = "keyboard" /\ Keyboard!Init /\ s6 = 0 /\ s7 = 0
    \/ part = "mouse" /\ Mouse!Init /\ s6 = 0 /\ s7 = 0
    \/ part = "editor" /\ Edit!Init /\ s5 = 0 /\ s6 = 0 /\ s7 = 0
    \/ part = "select" /\ Select!Init /\ s4 = 0 /\ s5 = 0 /\ s6 = 0 /\ s7 = 0
    \/ part = "gpu" /\ Gpu!Init /\ s6 = 0 /\ s7 = 0
    \/ part = "locks" /\ Locks!Init
    \/ part = "scene" /\ World!Init /\ s6 = 0 /\ s7 = 0
    \/ part = "engine" /\ Run!Init /\ s6 = 0 /\ s7 = 0

MapStep == part = "map" /\ Map!Next /\ UNCHANGED <<part, s4, s5, s6, s7>>
ArrayStep == part = "array" /\ Array!Next /\ UNCHANGED <<part, s6, s7>>
HybridStep == part = "hybrid" /\ Hybrid!Next /\ UNCHANGED <<part, s6, s7>>
MemoryStep == part = "memory" /\ Memory!Next /\ UNCHANGED <<part, s6, s7>>
StrStep == part = "string" /\ Str!Next /\ UNCHANGED <<part, s7>>
TextStep == part = "text" /\ Text!Next /\ UNCHANGED <<part, s3, s4, s5, s6, s7>>
SerialStep == part = "serial" /\ Serial!Next /\ UNCHANGED <<part, s5, s6, s7>>
FileStep == part = "file" /\ File!Next /\ UNCHANGED <<part, s6, s7>>
ProcessStep == part = "process" /\ Process!Next /\ UNCHANGED <<part, s3, s4, s5, s6, s7>>
IndexStep == part = "index" /\ Index!Next /\ UNCHANGED <<part, s7>>
ReflectStep == part = "reflect" /\ Reflect!Next /\ UNCHANGED <<part, s6, s7>>
TagsStep == part = "tags" /\ AtBuild!Next /\ UNCHANGED <<part, s6, s7>>
NamesStep == part = "names" /\ Named!Next /\ UNCHANGED <<part, s6, s7>>
MakeStep == part = "build" /\ Make!Next /\ UNCHANGED <<part, s6, s7>>
KeyboardStep == part = "keyboard" /\ Keyboard!Next /\ UNCHANGED <<part, s6, s7>>
MouseStep == part = "mouse" /\ Mouse!Next /\ UNCHANGED <<part, s6, s7>>
EditStep == part = "editor" /\ Edit!Next /\ UNCHANGED <<part, s5, s6, s7>>
SelectStep == part = "select" /\ Select!Next /\ UNCHANGED <<part, s4, s5, s6, s7>>
GpuStep == part = "gpu" /\ Gpu!Next /\ UNCHANGED <<part, s6, s7>>
WorldStep == part = "scene" /\ World!Next /\ UNCHANGED <<part, s6, s7>>
LocksStep == part = "locks" /\ Locks!Next /\ UNCHANGED <<part>>
RunStep == part = "engine" /\ Run!Next /\ UNCHANGED <<part, s6, s7>>

Next ==
    \/ MapStep \/ ArrayStep \/ HybridStep \/ MemoryStep \/ StrStep
    \/ TextStep \/ SerialStep \/ FileStep \/ ProcessStep \/ IndexStep
    \/ ReflectStep \/ TagsStep \/ NamesStep \/ MakeStep \/ KeyboardStep \/ MouseStep \/ EditStep
    \/ SelectStep \/ GpuStep \/ WorldStep \/ LocksStep \/ RunStep

Spec == Init /\ [][Next]_vars

\* Nothing is promised of the locks once an unload through an old copy hit another
\* asset's place, so the run does not look further.
UntilMisused == part = "locks" => ~s6.misused

-----------------------------------------------------------------------------

\* Every part keeps its variables in their types.
PartsTypeOK ==
    /\ part = "map" => Map!TypeOK
    /\ part = "array" => Array!TypeOK
    /\ part = "hybrid" => Hybrid!TypeOK
    /\ part = "memory" => Memory!TypeOK
    /\ part = "string" => Str!TypeOK
    /\ part = "text" => Text!TypeOK
    /\ part = "serial" => Serial!TypeOK
    /\ part = "file" => File!TypeOK
    /\ part = "process" => Process!TypeOK
    /\ part = "index" => Index!TypeOK
    /\ part = "reflect" => Reflect!TypeOK
    /\ part = "tags" => AtBuild!TypeOK
    /\ part = "names" => Named!TypeOK
    /\ part = "build" => Make!TypeOK
    /\ part = "keyboard" => Keyboard!TypeOK
    /\ part = "mouse" => Mouse!TypeOK
    /\ part = "editor" => Edit!TypeOK
    /\ part = "select" => Select!TypeOK
    /\ part = "gpu" => Gpu!TypeOK
    /\ part = "scene" => World!TypeOK
    /\ part = "locks" => Locks!TypeOK
    /\ part = "engine" => Run!TypeOK


\* No two users of the arena, of the strings' allocators or of the temporary text
\* buffers have the same memory, and none reads memory that was given back.
MemoryIsApart ==
    /\ part = "memory" => Memory!BlocksDisjoint
    /\ part = "string" =>
          Str!StringsOwnTheirText /\ Str!BuilderHasRoom /\ Str!TmpResultsLast

\* What is saved comes back: an object through the serializer in either mode, also with
\* fields removed or of another version; a number or a path through its text; a file is
\* the old or the new one, never a part of it, and the search finds the nearest one; a
\* scene shows what it did when it was saved, and a ray picks the nearest entity that is
\* shown; and what was changed under a lock of an asset is in its file.
SavedIsRead ==
    /\ part = "serial" =>
          Serial!SavesFit /\ Serial!LoadGivesWhatWasSaved /\ Serial!LoadOwnsItsMemory
    /\ part = "file" => File!SaveIsAllOrNothing
    /\ part = "scene" =>
          World!NodesAreListedInOrder /\ World!ReloadShowsTheSame /\ World!RayPicksTheNearest
    /\ part = "locks" => Locks!LocksSeeTheTemplate /\ Locks!EditsReachTheFile
    /\ part = "text" =>
          Text!NumbersReadBack /\ Text!PathsComeBack /\ Text!NearestFileIsFound

\* The index of assets agrees with itself and, once started, with the files.
IndexAgrees == part = "index" => Index!IndexAgrees

\* What the reflector writes describes each struct as the compiler lays it out, from
\* tags that read back as they were written, once the functions that run at build time
\* have seen each of them; each type's descriptor is found under its name, or a name that
\* two of them share stops the build; and a build that succeeds uses what the reflector
\* wrote last, whatever builds failed before.
GeneratedCodeIsCurrent ==
    /\ part = "reflect" =>
          Reflect!MembersTile /\ Reflect!SupportedStructsPass /\ Reflect!ReferencesDefined
    /\ part = "tags" =>
          /\ AtBuild!EachDeclListedOnce /\ AtBuild!FunctionsSawEverything
          /\ AtBuild!RefusedOnlyForFunctions /\ AtBuild!ParamsReadBack
    /\ part = "names" =>
          Named!TypesAreDescribed /\ Named!BuildFailsForAName /\ Named!SameSourcesChangeNothing
    /\ part = "build" => Make!BuildUpToDate

\* What a person sees is so: a key is down only while held, the cursor is hidden only
\* while it moves the camera, what is unsaved is marked, and what is lit is selected.
EditorShowsState ==
    /\ part = "keyboard" => Keyboard!NoStuckKeys /\ Keyboard!CursorHiddenWhileRaw
    /\ part = "mouse" => Mouse!NoStuckKeys /\ Mouse!CursorHiddenWhileRaw
    /\ part = "editor" => Edit!UnsavedIsKnown /\ Edit!OpenOnce
    /\ part = "select" => Select!LitIsSelected /\ Select!OneInspectorPerAsset

\* A handle of the GPU has one owner, which gives it back once, and is drawn with only
\* while it is live.
GpuHandlesHaveOneOwner ==
    part = "gpu" =>
        Gpu!HandlesHaveOneOwner /\ Gpu!TeardownDestroysOnce /\ Gpu!DrawsWithLiveHandles

\* A handle of the system has one owner, which gives it back once; a child's exit is told
\* at most once, and a made path is there; the mesh of an import has one entity, each of
\* two templates one place in their pool; and the engine starts in order and calls code
\* only while it is loaded (on the compiler thread, unless a swap overlaps the call).
HandlesHaveOneOwner ==
    /\ part = "file" => File!HandlesHaveOneOwner
    /\ part = "process" =>
          Process!ExitIsToldOnce /\ Process!PathIsMade
    /\ part = "scene" => World!MeshesHaveOneEntity
    /\ part = "locks" => Locks!PoolKeepsTheTemplate
    /\ part = "engine" =>
          Run!StartIsInOrder /\ Run!MainCallsLoadedCode /\ Run!WorkerCallsLoadedCode

\* The parts do what the repository's own assertions and comments say of them; each
\* module quotes its line.  The repository keeps none of these: a run stops at one of
\* them, and each is broken by a behaviour of its own part.
PartsKeepTheirWord ==
    /\ part = "hybrid" => Hybrid!UnsubscribeStaysInside /\ Hybrid!EraseStaysInside
    /\ part = "memory" => Memory!ResizeStaysInside
    /\ part = "string" => Str!AssignFreesOldText
    /\ part = "index" => Index!PathFindsItsAsset
    /\ part = "names" => Named!FilesKeepTheirTime
    /\ part = "build" => Make!CopyIsCurrent
    /\ part = "process" => Process!ExitIsTold
    /\ part = "scene" => World!RayUsesLoadedMeshes
    /\ part = "locks" => Locks!LocksNeverFail
    /\ part = "engine" => Run!ActiveSlotIsLoaded /\ Run!LoggersOutliveProducers
=============================================================================
