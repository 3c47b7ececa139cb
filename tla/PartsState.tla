---------------------------- MODULE PartsState ----------------------------
(***************************************************************************)
(* The constants and variables of the run of the parts, and the eight of   *)
(* its parts whose values are fixed and of which something is proved: what *)
(* PartLemmas says of them, it says of these instances.  MCParts adds the  *)
(* others.                                                                 *)
(***************************************************************************)
EXTENDS Integers, Sequences, FiniteSets

CONSTANTS None,     \* no value; in the code U32_INVALID_ID, a null pointer or an empty name
          Garbage   \* what memory holds that was never written

\* The configuration gives the size of the index of assets, the arena, the strings, the
\* files, the processes, the scene, the locks and the engine.  Of the others it is given
\* below.
CONSTANTS Bases, Ids, MaxDeps, MaxStarts,
          MemSize, MaxScopes,
          Strs, Texts, Allocators, DefaultAllocator, MaxBuffers, MaxLen, MaxCalls, Empty,
          FileRefs, FileHandles,
          MaxLoads, MaxListed,
          LockCopies, LockSlots, MaxUnloads, LockValues,
          MaxScenes, MaxSwaps

ASSUME PartsAssumption ==
    /\ None \notin Nat \union BOOLEAN \union {"dir", "file"}
    /\ None \notin FileHandles
    /\ None \notin [path : {"file", "temp"}, write : BOOLEAN, delete : BOOLEAN]
    /\ None \notin [i : LockSlots, g : Nat]
    /\ LockSlots \subseteq Nat /\ LockSlots # {}
    /\ MaxStarts \in Nat \ {0}
    /\ MemSize \in Nat \ {0} /\ MaxScopes \in Nat
    /\ IsFiniteSet(Strs)
    /\ MaxBuffers \in Nat \ {0} /\ MaxLen \in Nat /\ MaxCalls \in Nat

VARIABLES part, s1, s2, s3, s4, s5, s6, s7

-----------------------------------------------------------------------------

Memory == INSTANCE Arena WITH arena <- s1, blocks <- s2, scopes <- s3, broken <- s4, failed <- s5

Str == INSTANCE Strings WITH str <- s1, heap <- s2, want <- s3, builder <- s4, tmp <- s5, lost <- s6,
    Null <- None

\* Several instances of one template, and one of another.
Edit == INSTANCE Editor WITH mem <- s1, disk <- s2, ed <- s3, queue <- s4,
    Ids <- {"e"}, Insts <- {1, 2}, InstId <- <<"e", "m">>, MaxOpen <- 2, MaxQueue <- 2,
    MaxLen <- 1

File == INSTANCE OsFile WITH disk <- s1, handles <- s2, refs <- s3, save <- s4, cut <- s5,
    Refs <- FileRefs, File <- "file", Temp <- "temp", OldText <- <<1>>, Texts <- {<<2, 2>>},
    FlagSets <- {{"exists", "read", "scoped"}, {"exists"}}, Handles <- FileHandles

Process == INSTANCE OsProcess WITH watch <- s1, tree <- s2

World == INSTANCE SceneFile WITH file <- s1, load <- s2, scene <- s3, ents <- s4, meshes <- s5,
    Gltfs <- {<<"mesh">>, <<"empty", "mesh">>, <<"mesh", "bad">>},
    Templates <- {-1, -2, -3}, Readable <- {-1, -3}, Broken <- {-3}

Locks == INSTANCE AssetLocks WITH reg <- s1, pool <- s2, val <- s3, copies <- s4, locks <- s5,
    file <- s6, other <- s7, Copies <- LockCopies, Slots <- LockSlots, Values <- LockValues

Run == INSTANCE Engine WITH main <- s1, boot <- s2, app <- s3, worker <- s4, logger <- s5
=============================================================================
