----------------------------- MODULE AssetIndex -----------------------------
(***************************************************************************)
(* asset/me_asset_index: the maps between asset ids and paths, and the      *)
(* dependencies of each asset.  They are built at the start from the files  *)
(* of the resource directory, and kept up as assets are made, saved and     *)
(* loaded.                                                                 *)
(*                                                                         *)
(* The walk through the directories keeps only the last part of a path      *)
(* (me_filesystem.cpp, meOSReadDirectory), so a file of a subdirectory is   *)
(* looked for at the top.  A name is its base, the extension of its type    *)
(* and whether ".masset" ends it.                                          *)
(***************************************************************************)
EXTENDS Naturals, Sequences, SequencesExt, FiniteSets

CONSTANTS
    Bases,          \* first parts of file names
    Ids,            \* asset ids
    MaxDeps,        \* bound of the instance on recorded dependencies
    MaxStarts,      \* bound of the instance on starts of the program
    None

VARIABLES
    disk,    \* per directory and name: the id and dependencies of the file's header
    seen,    \* per file listed at the start or written since: how far it got
    index,   \* assetToPathMap, pathToAssetsMap, dependencyMap
    twice,   \* an id was given a second name, or a name a second id
    writes,  \* ids with a write in the queue; two writes of one are like one
    starts

vars == <<disk, seen, index, twice, writes, starts>>

Dirs  == {"top", "sub"}
Stages == {"todo", "skipped", "read", "written"}
Names == [base : Bases, ext : {"scn", None}, common : BOOLEAN]

EmptyIndex == [toPath |-> <<>>, toId |-> <<>>, deps |-> <<>>]

Put(f, k, v) == [x \in DOMAIN f \union {k} |-> IF x = k THEN v ELSE f[x]]

\* meAssetFindAssetTypeFromFilepath: without the common extension the length of the
\* rest is not cut to what is left, so no type matches.
TypeKnown(n) == n.common /\ n.ext = "scn"

\* meAssetEnsurePathHasGoodExtension: a name of no known type that has a dot loses what
\* is before the dot and keeps the rest.
EnsureExtension(n) ==
    IF TypeKnown(n) THEN n
    ELSE [base   |-> IF n.ext = None /\ ~n.common THEN n.base ELSE "dot",
          ext    |-> "scn",
          common |-> TRUE]

\* meAssetIndexGetFilesystemPath, meAssetIndexGetMAIDFromPath, GetDependencies.
FilesystemPath(id) == IF id \in DOMAIN index.toPath THEN index.toPath[id] ELSE None
MAIDFromPath(name) == IF name \in DOMAIN index.toId THEN index.toId[name] ELSE None
Dependencies(id)   == IF id \in DOMAIN index.deps THEN index.deps[id] ELSE <<>>

-----------------------------------------------------------------------------

Files == {d \in [Dirs \X {n \in Names : TypeKnown(n) /\ n.base # "dot"} ->
                    {None} \union [id : Ids, deps : {<<>>} \union {<<i>> : i \in Ids}]] :
             \E f \in DOMAIN d : d[f] # None}

\* What meFsRecursiveDirectoryWalk lists, in the order the system gives.
Listed(d) == {f \in DOMAIN d : d[f] # None}

Init ==
    /\ disk \in Files
    /\ seen = [f \in Listed(disk) |-> "todo"]
    /\ index = EmptyIndex /\ twice = FALSE /\ writes = {} /\ starts = 1

\* The main loop begins when the start has been through its list.
Started == \A f \in DOMAIN seen : seen[f] # "todo"

\* meAssetIndexRecordDependency keeps no two apart.
Recorded(x, owner, deps) ==
    IF deps = <<>> THEN x
    ELSE [x EXCEPT !.deps = Put(@, owner,
              (IF owner \in DOMAIN @ THEN @[owner] ELSE <<>>) \o deps)]

\* Mutant: only one of the two maps is kept.
RegisteredOneWay(x, name, id) == [x EXCEPT !.toPath = Put(@, id, name)]

Registered(x, name, id) ==
    [toPath |-> Put(x.toPath, id, name), toId |-> Put(x.toId, name, id), deps |-> x.deps]

SecondName(name, id) ==
    \/ id \in DOMAIN index.toPath /\ index.toPath[id] # name
    \/ name \in DOMAIN index.toId /\ index.toId[name] # id

\* OnFoundAssetFile: the header is read from the top directory, whatever directory the
\* file was found in.
OnFound(f) ==
    LET read == disk[<<"top", f[2]>>]
    IN  /\ seen[f] = "todo" /\ read # None
        /\ seen' = Put(seen, f, "read")
        /\ index' = Recorded(Registered(index, f[2], read.id), read.id, read.deps)
        /\ twice' = (twice \/ SecondName(f[2], read.id))
        /\ UNCHANGED <<disk, writes, starts>>

\* It leaves a file out of the index when its type has no loader, when it cannot be mapped
\* (it is not at the top, or another program has it) or when its header does not read.
Skip(f) ==
    /\ seen[f] = "todo"
    /\ seen' = Put(seen, f, "skipped")
    /\ UNCHANGED <<disk, index, twice, writes, starts>>

\* The command that makes an asset: its file name, as a person typed it, is registered
\* and a write is queued.
NewAsset(name, id) ==
    LET path == EnsureExtension(name)
    IN  /\ Started
        /\ id \notin DOMAIN index.toPath
        /\ index' = Registered(index, path, id)
        /\ twice' = (twice \/ SecondName(path, id))
        /\ writes' = writes \union {id}
        /\ UNCHANGED <<disk, seen, starts>>

\* The save command registers the path again, made good, and queues a write.
SaveAsset(id) ==
    LET path == EnsureExtension(FilesystemPath(id))
    IN  /\ Started /\ FilesystemPath(id) # None
        /\ index' = Registered(index, path, id)
        /\ twice' = (twice \/ SecondName(path, id))
        /\ writes' = writes \union {id}
        /\ UNCHANGED <<disk, seen, starts>>

\* meAssetWrite, by a job: to the path the index has by then, with what the asset refers to
\* by then.
WriteAsset(id, deps) ==
    LET file == <<"top", FilesystemPath(id)>>
    IN  /\ id \in writes /\ writes' = writes \ {id}
        /\ disk' = Put(disk, file, [id |-> id, deps |-> deps])
        /\ seen' = Put(seen, file, "written")
        /\ UNCHANGED <<index, twice, starts>>

\* The write fails and leaves the file as it was.
WriteFails(id) ==
    /\ id \in writes /\ writes' = writes \ {id}
    /\ UNCHANGED <<disk, seen, index, twice, starts>>

\* meAssetDeserializerFn, for a reference the loaded file has.
RecordDependency(owner, dep) ==
    /\ Started /\ FilesystemPath(owner) # None
    /\ Len(Dependencies(owner)) < MaxDeps
    /\ index' = Recorded(index, owner, <<dep>>)
    /\ UNCHANGED <<disk, seen, twice, writes, starts>>

\* The program ends, writes in the queue or not, and starts with what is on the disk.
Restart ==
    /\ Started /\ starts < MaxStarts
    /\ index' = EmptyIndex /\ seen' = [f \in Listed(disk) |-> "todo"]
    /\ twice' = FALSE /\ writes' = {} /\ starts' = starts + 1
    /\ UNCHANGED disk

Next ==
    \/ \E f \in DOMAIN seen : OnFound(f) \/ Skip(f)
    \/ \E n \in Names, i \in Ids : NewAsset(n, i)
    \/ \E i \in Ids : SaveAsset(i) \/ WriteFails(i)
    \/ \E i \in Ids, deps \in {<<>>} \union {<<d>> : d \in Ids} : WriteAsset(i, deps)
    \/ \E i, d \in Ids : RecordDependency(i, d)
    \/ Restart

Spec == Init /\ [][Next]_vars

-----------------------------------------------------------------------------

TypeOK ==
    /\ DOMAIN index.toPath \subseteq Ids /\ DOMAIN index.deps \subseteq Ids
    /\ \A i \in DOMAIN index.toPath : TypeKnown(index.toPath[i])
    /\ DOMAIN seen \subseteq DOMAIN disk /\ \A f \in DOMAIN seen : seen[f] \in Stages
    /\ writes \subseteq DOMAIN index.toPath
    /\ twice \in BOOLEAN /\ starts \in 1 .. MaxStarts

\* A path in the index always has the good extension, so saving moves no asset.  As long
\* as no id got a second name and no name a second id, both maps say the same, and every
\* asset file at the top that was read at the start or written since is found under its
\* id, with each dependency its header named at the start.  A file the start skipped is
\* promised from the next write of it on.
IndexAgrees ==
    /\ \A i \in DOMAIN index.toPath : EnsureExtension(index.toPath[i]) = index.toPath[i]
    /\ ~twice =>
         /\ \A i \in DOMAIN index.toPath : MAIDFromPath(FilesystemPath(i)) = i
         /\ \A n \in DOMAIN index.toId : FilesystemPath(MAIDFromPath(n)) = n
         /\ \A f \in Listed(disk) : f[1] = "top" /\ seen[f] \in {"read", "written"} =>
               /\ FilesystemPath(disk[f].id) = f[2]
               /\ seen[f] = "read" =>
                     ToSet(disk[f].deps) \subseteq ToSet(Dependencies(disk[f].id))

\* me_asset_index.h:7 gives an asset its path on disk: once the start is over, the path of
\* an asset finds that asset, in spite of names that are taken and of copied files.
PathFindsItsAsset ==
    Started => \A i \in DOMAIN index.toPath : MAIDFromPath(FilesystemPath(i)) = i
=============================================================================
