------------------------------ MODULE SceneFile ------------------------------
(***************************************************************************)
(* What a scene's file makes (scene/me_scene.cpp, scene/me_entity.cpp): the *)
(* entities it refers to, and one for each node of the glTF file it names,  *)
(* with a mesh of its own; what a save keeps of them, and which of them a    *)
(* ray picks.  Entities and meshes of an import are made for the run: no     *)
(* unload gives them back.  The glTF library and the distances at which a    *)
(* ray meets a box are external; when a change of scene may come is in       *)
(* SceneManager.                                                           *)
(*                                                                         *)
(* The id of an entity made at run time is its number; ids of entities with  *)
(* a file are in Templates, and 0 is none.  Nodes are "empty", "mesh", or     *)
(* "bad" when the mesh or its material cannot be imported.                    *)
(***************************************************************************)
EXTENDS Integers, Sequences, FiniteSets

CONSTANTS Gltfs,     \* what the glTF file may hold, as sequences of nodes
          Templates, \* ids of entities that are in files, or were
          Readable,  \* those that load
          Broken,    \* those of them whose mesh does not load, or not while its lock waits
          MaxLoads,  \* bound: loads of the scene
          MaxListed, \* bound: entities in the list
          None

VARIABLES file,  \* the ids the scene's file lists, whether it names a glTF file, what
                 \* was shown when it was last saved
          load,  \* the load that runs: stage, nodes and the list so far; loads so far
          scene, \* the current scene: its list, the nodes it was imported from, and
                 \* whether it is as it was loaded
          ents,  \* the pool of entities: node, mesh and flags
          meshes \* the pool of meshes: the live ones, and how many there were

vars == <<file, load, scene, ents, meshes>>

\* A reference to an entity, and one with a handle of the pool.
Ref(id, handle) == [id |-> id, handle |-> handle]
NoScene == [list |-> <<>>, nodes |-> <<>>, state |-> "none"]

Init ==
    /\ \E gltf \in BOOLEAN :
          file = [ids |-> <<>>, gltf |-> gltf, shown |-> None]
    /\ load = [stage |-> "none", nodes |-> <<>>, list |-> <<>>, count |-> 0]
    /\ scene = NoScene
    /\ ents = <<>>
    /\ meshes = [live |-> {}, made |-> 0]

-----------------------------------------------------------------------------
(* Loading.                                                                *)

EndLoad == [load EXCEPT !.stage = "none"]

\* UnloadCurrentScene, then the load of the same file: its list, with no handles; and
\* if it names a glTF file, what that holds, or nothing when it cannot be mapped,
\* parsed or has no scene.
Reload ==
    /\ load.stage = "none" /\ load.count < MaxLoads
    /\ scene' = NoScene
    /\ LET begun == [stage |-> "import", nodes |-> <<>>, count |-> load.count + 1,
                     list |-> [i \in DOMAIN file.ids |-> Ref(file.ids[i], 0)]]
       IN load' \in IF file.gltf
                    THEN {[begun EXCEPT !.nodes = g] : g \in Gltfs}
                         \union {[begun EXCEPT !.stage = "none"]}
                    ELSE {begun}
    /\ UNCHANGED <<file, ents, meshes>>

\* The nodes that are imported so far.
Imported == Len(load.list) - Len(file.ids)

\* meEntityCreateBlankInstance; the handle is the number of the entity.
NewEntity(node, mesh) == Append(ents, [node |-> node, mesh |-> mesh, flags |-> {}])

\* Mutant: the mesh that was not imported stays in its pool.
ImportNodeKeepsMesh ==
    /\ load.stage = "import" /\ Imported < Len(load.nodes)
    /\ LET n == Imported + 1
           kind == load.nodes[n]
           m == meshes.made + 1
       IN /\ ents' = NewEntity(n, IF kind = "mesh" THEN m ELSE 0)
          /\ meshes' = IF kind = "empty" THEN meshes
                       ELSE [live |-> meshes.live \union {m}, made |-> m]
          /\ load' = IF kind = "bad" THEN EndLoad
                     ELSE [load EXCEPT !.list = Append(@, Ref(Len(ents'), Len(ents')))]
    /\ UNCHANGED <<file, scene>>

\* A turn of the loop of meScenePool::Load: when the import of the node's mesh fails
\* the mesh is given back, and the load fails with its entities left in their pool.
ImportNode ==
    /\ load.stage = "import" /\ Imported < Len(load.nodes)
    /\ LET n == Imported + 1
           kind == load.nodes[n]
           m == meshes.made + 1
       IN /\ ents' = NewEntity(n, IF kind = "mesh" THEN m ELSE 0)
          /\ meshes' = CASE kind = "empty" -> meshes
                         [] kind = "mesh" -> [live |-> meshes.live \union {m}, made |-> m]
                         [] kind = "bad" -> [meshes EXCEPT !.made = m]
          /\ load' = IF kind = "bad" THEN EndLoad
                     ELSE [load EXCEPT !.list = Append(@, Ref(Len(ents'), Len(ents')))]
    /\ UNCHANGED <<file, scene>>

\* meAssetInitializeRuntime: the meshes of the entities with a handle go to the
\* renderer, which may refuse one; then the load fails, and the list is destroyed.
InitializeRuntime ==
    /\ load.stage = "import" /\ Imported = Len(load.nodes)
    /\ \/ scene' = [list |-> load.list, nodes |-> load.nodes, state |-> "loaded"]
       \/ /\ \E i \in DOMAIN load.list :
                load.list[i].handle # 0 /\ ents[load.list[i].handle].mesh # 0
          /\ UNCHANGED scene
    /\ load' = EndLoad
    /\ UNCHANGED <<file, ents, meshes>>

-----------------------------------------------------------------------------
(* The current scene.                                                      *)

\* The pool's bad data, to which a reference to nothing resolves.
BadEntity == [mesh |-> 0, flags |-> {"Invalid", "DISABLED"}]

\* ScopedAssetLockR of an entity: the pool's when it has a handle; or that of the file,
\* which is loaded and waited for, or None.
Resolve(ref) ==
    IF ref.handle # 0 THEN [mesh |-> ents[ref.handle].mesh, flags |-> ents[ref.handle].flags]
    ELSE IF ref.id = 0 THEN BadEntity
    ELSE IF ref.id \in Readable
    THEN [mesh |-> IF ref.id \in Broken THEN None ELSE 0, flags |-> {}]
    ELSE None

\* meEntitySetFlag, by the app or by an inspector.
SetFlag(i, flag, on) ==
    /\ scene.list[i].handle # 0
    /\ LET h == scene.list[i].handle IN
       ents' = [ents EXCEPT ![h].flags = IF on THEN @ \union {flag} ELSE @ \ {flag}]
    /\ UNCHANGED <<file, load, scene, meshes>>

\* The asset editor adds a reference to the scene's list.
AddReference(id) ==
    /\ scene.state # "none" /\ load.stage = "none" /\ Len(scene.list) < MaxListed
    /\ scene' = [scene EXCEPT !.list = Append(@, Ref(id, 0)), !.state = "changed"]
    /\ UNCHANGED <<file, load, ents, meshes>>

\* What an entity of the list is: a node's number, a file's id, or nothing that loads.
Shows(ref) ==
    IF ref.handle # 0 THEN ents[ref.handle].node
    ELSE IF ref.id \in Readable THEN ref.id ELSE None
Shown == [i \in DOMAIN scene.list |-> Shows(scene.list[i])]

\* meAssetSerializerFn writes ids, those of the entities of the run too; a write that
\* fails leaves the file as it was.
Save ==
    /\ scene.state # "none" /\ load.stage = "none"
    /\ \/ file' = [file EXCEPT !.ids = [i \in DOMAIN scene.list |-> scene.list[i].id],
                               !.shown = [nodes |-> scene.nodes, what |-> Shown]]
       \/ UNCHANGED file
    /\ scene' = [scene EXCEPT !.state = "changed"]
    /\ UNCHANGED <<load, ents, meshes>>

\* meSceneRaycast; ray has the distance at which it meets each entity's box, or Far.
\* The mesh is used without a look whether its lock has one.
Far == 3
Raycast(ray) ==
    LET best[i \in 0 .. Len(scene.list)] ==
            IF i = 0 THEN [entry |-> 0, t |-> Far, failed |-> FALSE]
            ELSE LET b == best[i - 1]
                     ent == Resolve(scene.list[i])
                 IN IF b.failed \/ ent = None \/ ent.flags \intersect {"HIDDEN", "DISABLED"} # {}
                    THEN b
                    ELSE IF ent.mesh = None THEN [b EXCEPT !.failed = TRUE]
                    ELSE IF ray[i] < b.t THEN [b EXCEPT !.entry = i, !.t = ray[i]]
                    ELSE b
    IN best[Len(scene.list)]

\* meSceneRaycastHit::operator bool looks at the handle of the reference that was hit.
IsHit(result) == result.entry # 0 /\ scene.list[result.entry].handle # 0

Next ==
    \/ Reload \/ ImportNode \/ InitializeRuntime \/ Save
    \/ \E i \in DOMAIN scene.list, flag \in {"HIDDEN", "DISABLED"}, on \in BOOLEAN :
          SetFlag(i, flag, on)
    \/ \E id \in Templates \union {0} : AddReference(id)

Spec == Init /\ [][Next]_vars

-----------------------------------------------------------------------------
(* Properties.                                                             *)

TypeOK ==
    /\ load.stage \in {"none", "import"} /\ load.count <= MaxLoads
    /\ \A i \in DOMAIN scene.list : scene.list[i].handle \in 0 .. Len(ents)
    /\ meshes.live \subseteq 1 .. meshes.made

\* Each mesh of an import has one entity, also when the import ends in the middle.
MeshesHaveOneEntity ==
    /\ \A m \in meshes.live : Cardinality({e \in DOMAIN ents : ents[e].mesh = m}) = 1
    /\ \A e \in DOMAIN ents : ents[e].mesh \in meshes.live \union {0}

\* No entity is in the current scene twice, and those of its nodes are its own.
NodesAreListedInOrder ==
    LET made == SelectSeq(scene.list, LAMBDA r : r.handle # 0) IN
    /\ [i \in DOMAIN made |-> ents[made[i].handle].node] = [i \in DOMAIN scene.nodes |-> i]
    /\ \A i \in DOMAIN made : ents[made[i].handle].mesh # 0 <=> scene.nodes[i] = "mesh"
    /\ \A i, j \in DOMAIN made : made[i].handle = made[j].handle => i = j

Count(s, x) == Cardinality({i \in DOMAIN s : s[i] = x})

\* A scene whose save succeeded shows after a load what it did, though the file then
\* lists entities of runs that are gone: as often as it is saved, whatever saves failed
\* since, if the nodes are the same.
ReloadShowsTheSame ==
    scene.state = "loaded" /\ file.shown # None /\ file.shown.nodes = scene.nodes =>
        \A x \in Templates \union DOMAIN scene.nodes :
            Count(Shown, x) = Count(file.shown.what, x)

Seen == {i \in DOMAIN scene.list :
            LET e == Resolve(scene.list[i]) IN
            e # None /\ e.flags \intersect {"HIDDEN", "DISABLED"} = {}}
Rays == [DOMAIN scene.list -> 1 .. Far]

\* Where the mesh of each entity that is seen loads, a ray picks the nearest of them, the
\* first of those equally near, and an entity whose file does not load changes nothing;
\* one from a file takes the pick and is no hit.
RayPicksTheNearest ==
    (\A i \in Seen : scene.list[i].handle # 0 \/ scene.list[i].id \notin Broken) =>
        \A ray \in Rays :
            LET r == Raycast(ray)
                met == {i \in Seen : ray[i] < Far}
            IN /\ ~r.failed
               /\ IF met = {} THEN r.entry = 0 /\ ~IsHit(r)
                  ELSE /\ r.entry \in met /\ r.t = ray[r.entry]
                       /\ \A i \in met : \/ ray[r.entry] < ray[i]
                                         \/ ray[r.entry] = ray[i] /\ r.entry <= i
                       /\ IsHit(r) <=> scene.list[r.entry].id \notin Templates

\* A mesh is used only through a lock that has one, as ScopedAssetLockR::operator->
\* asserts (ME_ASSERT(Get())), wherever the ray goes.
RayUsesLoadedMeshes == \A ray \in Rays : ~Raycast(ray).failed
=============================================================================
