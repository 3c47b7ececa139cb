----------------------------- MODULE GpuResources -----------------------------
(***************************************************************************)
(* Who owns what on the GPU: the buffers, textures and programs that meshes, *)
(* textures and shaders hold handles of (render/me_mesh.cpp, me_texture.cpp, *)
(* me_material.cpp, me_shader.cpp), the import that makes them               *)
(* (asset/me_asset_import_gltf.cpp), and the backend that creates, draws and *)
(* destroys them (render/bgfx_backend/bgfx_backend.cpp).                     *)
(*                                                                           *)
(* bgfx is external. It gives the first free handle, 65535 when it has none, *)
(* and counts the creations of a uniform by its name. Vertex buffers, index  *)
(* buffers, textures and programs are numbered together here, uniforms are   *)
(* the texture samplers ("tex") and the default uniforms of a shader         *)
(* ("time"). Object 0 of every pool is its bad data.                         *)
(***************************************************************************)
EXTENDS Naturals, FiniteSets

LOCAL INSTANCE SequencesExt

CONSTANTS Meshes,     \* mesh slots 1 .. n
          Textures,   \* texture slots 1 .. n, of which 1 is plainWhite1x1
          Materials,  \* material slots 1 .. n
          Streams,    \* the buffers of a mesh in upload order, "pos" and "idx" last
          MaxHandles, \* what bgfx has of handles
          None        \* U32_INVALID_ID, U64_INVALID_ID, and no reference

VARIABLES gpu,   \* live handles, uniform counts, and what went wrong
          mesh, tex, mat,   \* the pools; None where the slot is free
          shader \* the pool's two shaders, 0 bad data and 1 the lit one

vars == <<gpu, mesh, tex, mat, shader>>

White == 1
BadHandle == 65535
StreamSet == {Streams[i] : i \in DOMAIN Streams}

-----------------------------------------------------------------------------
(* The backend: creation and destruction. *)

FreeHandles(g) == (1 .. MaxHandles) \ g.live

\* The handle the next creation gives.
NextHandle(g) == IF FreeHandles(g) = {} THEN BadHandle
                 ELSE CHOOSE h \in FreeHandles(g) : \A k \in FreeHandles(g) : h <= k

\* CreateVertexBuffer, UploadTextureToGPU and CreateShaderProgram: a failure
\* is a handle like any other.
Creates(g) == IF FreeHandles(g) = {} THEN [g EXCEPT !.full = TRUE]
              ELSE [g EXCEPT !.live = @ \union {NextHandle(g)}]

\* CreateShaderUniform
CreatesUniform(g, name) == [g EXCEPT !.uni[name] = @ + 1]

\* bgfx::destroy of a handle that is not live fails its assertion.
Destroys(g, h) == [g EXCEPT !.live = @ \ {h}, !.broken = @ \/ h \notin g.live]
DestroysUniform(g, name) ==
    IF g.uni[name] = 0 THEN [g EXCEPT !.broken = TRUE] ELSE [g EXCEPT !.uni[name] = @ - 1]

-----------------------------------------------------------------------------
(* Uploads. a is the GPU and an object; an object is uploaded once. *)

\* The mutant uploads what is already there.
UploadsAgain(a, s) ==
    IF ~a.obj.buf[s].cpu THEN a
    ELSE [gpu |-> Creates(a.gpu), obj |-> [a.obj EXCEPT !.buf[s].h = NextHandle(a.gpu)]]
Uploads(a, s) ==
    IF ~a.obj.buf[s].cpu \/ a.obj.buf[s].h # None THEN a
    ELSE [gpu |-> Creates(a.gpu), obj |-> [a.obj EXCEPT !.buf[s].h = NextHandle(a.gpu)]]

\* The mesh loader's InitializeRuntime for the buffers, and meMeshPool::Load
\* for a mesh that has none.
UploadsMesh(g, m) == FoldLeft(Uploads, [gpu |-> g, obj |-> m], Streams)

\* The texture loader's InitializeRuntime, then the sampler the material
\* loader adds.
UploadsTexture(g, t) ==
    LET a == Uploads([gpu |-> g, obj |-> t], "pix")
    IN IF a.obj.samp # None \/ a.obj.buf["pix"].h = None THEN a
       ELSE [gpu |-> CreatesUniform(a.gpu, "tex"), obj |-> [a.obj EXCEPT !.samp = "tex"]]

\* meShaderCreate of the lit shader: made once, then found in the cache.
LitShader(a) ==
    IF a.shader[1].prog # 0 THEN a
    ELSE [gpu |-> CreatesUniform(Creates(a.gpu), "time"),
          shader |-> [a.shader EXCEPT ![1] = [prog |-> NextHandle(a.gpu), uni |-> TRUE]]]

Buffer(cpu) == [cpu |-> cpu, h |-> None]
NewMesh(parts, m) == [buf |-> [s \in StreamSet |-> Buffer(s \in parts)], mat |-> m, loaded |-> FALSE]
NewTexture == [buf |-> [pix |-> Buffer(TRUE)], samp |-> None]
NewMaterial(sh, t) == [shader |-> sh, diffuse |-> t]

\* The renderer's start: the bad data of each pool, and the white texture.
Init ==
    LET g0 == [live |-> {}, uni |-> [tex |-> 0, time |-> 0], leaked |-> {},
               full |-> FALSE, broken |-> FALSE, down |-> FALSE]
        b == UploadsTexture(g0, NewTexture)
        w == UploadsTexture(b.gpu, NewTexture)
        p == NextHandle(w.gpu)
        c == UploadsMesh(CreatesUniform(Creates(w.gpu), "time"), NewMesh(StreamSet, None))
    IN /\ gpu = c.gpu
       /\ shader = [i \in {0, 1} |-> IF i = 0 THEN [prog |-> p, uni |-> TRUE]
                                     ELSE [prog |-> 0, uni |-> FALSE]]
       /\ tex = [i \in {0} \union Textures |->
                     IF i = 0 THEN b.obj ELSE IF i = White THEN w.obj ELSE None]
       /\ mat = [i \in {0} \union Materials |-> IF i = 0 THEN NewMaterial(None, None) ELSE None]
       /\ mesh = [i \in {0} \union Meshes |-> IF i = 0 THEN [c.obj EXCEPT !.loaded = TRUE] ELSE None]

-----------------------------------------------------------------------------
(* Making meshes. *)

\* meMaterialCreateDefault: with the lit shader and the white texture.
CreateDefault(i) ==
    /\ ~gpu.down /\ mat[i] = None
    /\ LET a == LitShader([gpu |-> gpu, shader |-> shader])
       IN gpu' = a.gpu /\ shader' = a.shader
    /\ mat' = [mat EXCEPT ![i] = NewMaterial(1, White)]
    /\ UNCHANGED <<mesh, tex>>

\* A generated mesh in a new slot (GenCubeMesh and the others): loaded at once.
Generate(m, i) ==
    /\ ~gpu.down /\ mesh[m] = None
    /\ i # None => mat[i] # None
    /\ LET a == UploadsMesh(gpu, NewMesh(StreamSet, i))
       IN gpu' = a.gpu /\ mesh' = [mesh EXCEPT ![m] = [a.obj EXCEPT !.loaded = TRUE]]
    /\ UNCHANGED <<tex, mat, shader>>

\* A mesh asset begins to load.
BeginLoad(m) ==
    /\ ~gpu.down /\ mesh[m] = None
    /\ mesh' = [mesh EXCEPT ![m] = NewMesh({}, None)]
    /\ UNCHANGED <<gpu, tex, mat, shader>>

\* meAssetImportGltfMaterial's texture: a new one, or the white one when there
\* is none or its image cannot be read (the new one is destroyed then).
ImportedTexture(t) == IF t = White THEN tex ELSE [tex EXCEPT ![t] = NewTexture]

\* One primitive of the glTF mesh: a material of its own, whose predecessor
\* keeps its slot, and the buffers it has.
ImportPrimitive(m, i, t, parts) ==
    /\ ~gpu.down /\ mesh[m] # None /\ ~mesh[m].loaded
    /\ mat[i] = None
    /\ t # White => tex[t] = None
    /\ tex' = ImportedTexture(t)
    /\ mat' = [mat EXCEPT ![i] = NewMaterial(None, t)]
    /\ mesh' = [mesh EXCEPT ![m].mat = i,
                            ![m].buf = [s \in StreamSet |-> [@[s] EXCEPT !.cpu = @ \/ s \in parts]]]
    /\ UNCHANGED <<gpu, shader>>

\* The pool destroys the object and nothing on the GPU: its handles are lost.
Unloaded(m) ==
    /\ mesh' = [mesh EXCEPT ![m] = None]
    /\ gpu' = [gpu EXCEPT !.leaked = @ \union ({mesh[m].buf[s].h : s \in StreamSet} \ {None})]
    /\ UNCHANGED <<tex, mat, shader>>

ImportFails(m) == ~gpu.down /\ mesh[m] # None /\ ~mesh[m].loaded /\ Unloaded(m)
Unload(m) == ~gpu.down /\ mesh[m] # None /\ mesh[m].loaded /\ Unloaded(m)

\* The material loader's InitializeRuntime: the lit shader where none is
\* named, and the texture where there is one.
InitializeMaterial(g, i) ==
    LET a == IF mat[i].shader = None THEN LitShader([gpu |-> g, shader |-> shader])
             ELSE [gpu |-> g, shader |-> shader]
        b == UploadsTexture(a.gpu, tex[mat[i].diffuse])
    IN /\ gpu' = b.gpu
       /\ shader' = a.shader
       /\ mat' = [mat EXCEPT ![i].shader = 1]
       /\ tex' = [tex EXCEPT ![mat[i].diffuse] = b.obj]

\* The mesh loader's InitializeRuntime, for a mesh that loads and again for
\* every scene that has an entity with a loaded one.
InitializeRuntime(m) ==
    /\ ~gpu.down /\ mesh[m] # None
    /\ LET a == UploadsMesh(gpu, mesh[m])
       IN /\ mesh' = [mesh EXCEPT ![m] = [a.obj EXCEPT !.loaded = TRUE]]
          /\ IF a.obj.mat = None THEN gpu' = a.gpu /\ UNCHANGED <<tex, mat, shader>>
             ELSE InitializeMaterial(a.gpu, a.obj.mat)

-----------------------------------------------------------------------------
(* The end: Teardown destroys what the objects of the pools hold. *)

\* Destroy*GPUResources, which take what they destroy out of the object; the
\* mutant leaves it in.
DestroysBufferOnly(a, s) ==
    IF a.obj.buf[s].h = None THEN a ELSE [a EXCEPT !.gpu = Destroys(a.gpu, a.obj.buf[s].h)]
DestroysBuffer(a, s) ==
    IF a.obj.buf[s].h = None THEN a
    ELSE [gpu |-> Destroys(a.gpu, a.obj.buf[s].h), obj |-> [a.obj EXCEPT !.buf[s].h = None]]

DestroysMesh(g, m) == IF m = None THEN g
                      ELSE FoldLeft(DestroysBuffer, [gpu |-> g, obj |-> m], Streams).gpu

DestroysTexture(a) ==
    LET b == DestroysBuffer(a, "pix")
    IN IF b.obj.samp = None THEN b
       ELSE [gpu |-> DestroysUniform(b.gpu, "tex"), obj |-> [b.obj EXCEPT !.samp = None]]

DestroysShader(g, s) ==
    LET p == IF s.prog = 0 THEN g ELSE Destroys(g, s.prog)
    IN IF s.uni THEN DestroysUniform(p, "time") ELSE p

\* The bad texture is destroyed by name, and met again among the instances.
Teardown ==
    /\ ~gpu.down
    /\ LET Slots(S) == SetToSeq(S)
           MeshGone(g, i) == DestroysMesh(g, mesh[i])
           g1 == FoldLeft(MeshGone, gpu, Slots({0} \union Meshes))
           bad == DestroysTexture([gpu |-> g1, obj |-> tex[0]])
           again == DestroysTexture(bad)
           TexGone(g, i) == IF tex[i] = None THEN g
                            ELSE DestroysTexture([gpu |-> g, obj |-> tex[i]]).gpu
           g2 == FoldLeft(TexGone, again.gpu, Slots(Textures))
       IN gpu' = [DestroysShader(DestroysShader(g2, shader[0]), shader[1]) EXCEPT !.down = TRUE]
    /\ UNCHANGED <<mesh, tex, mat, shader>>

Next == \/ \E i \in Materials : CreateDefault(i)
        \/ \E m \in Meshes, i \in {None} \union Materials : Generate(m, i)
        \/ \E m \in Meshes : BeginLoad(m)
        \/ \E m \in Meshes, i \in Materials, t \in Textures, parts \in SUBSET StreamSet :
              ImportPrimitive(m, i, t, parts)
        \/ \E m \in Meshes : ImportFails(m) \/ Unload(m) \/ InitializeRuntime(m)
        \/ Teardown

Spec == Init /\ [][Next]_vars

-----------------------------------------------------------------------------
(* Properties. *)

\* The pools hold objects with buffers, samplers and references of theirs.
TypeOK ==
    /\ gpu.live \subseteq 1 .. MaxHandles
    /\ \A m \in DOMAIN mesh : mesh[m] # None =>
          /\ DOMAIN mesh[m].buf = StreamSet
          /\ mesh[m].mat \in {None} \union Materials
    /\ \A i \in DOMAIN mat : mat[i] # None => mat[i].diffuse \in {None} \union Textures
    /\ \A i \in DOMAIN tex : tex[i] # None => tex[i].samp \in {None, "tex"}

Owners ==
    {<<"mesh", m, s>> : m \in {n \in DOMAIN mesh : mesh[n] # None}, s \in StreamSet}
      \union {<<"tex", t, "pix">> : t \in {n \in DOMAIN tex : tex[n] # None}}
      \union {<<"prog", i, "prog">> : i \in {n \in {0, 1} : shader[n].prog # 0}}
HandleOf(o) == CASE o[1] = "mesh" -> mesh[o[2]].buf[o[3]].h
                 [] o[1] = "tex" -> tex[o[2]].buf["pix"].h
                 [] OTHER -> shader[o[2]].prog
Holding == {o \in Owners : HandleOf(o) # None}

\* Until bgfx runs out of handles, no two objects hold one handle, and every
\* handle that is live and was not lost with an unloaded mesh is held by one,
\* however often the objects are initialised.
HandlesHaveOneOwner ==
    (~gpu.full /\ ~gpu.down) =>
        /\ Cardinality({HandleOf(o) : o \in Holding}) = Cardinality(Holding)
        /\ gpu.live = {HandleOf(o) : o \in Holding} \union gpu.leaked
        /\ gpu.uni["tex"] = Cardinality({t \in DOMAIN tex : tex[t] # None /\ tex[t].samp # None})

\* Until bgfx runs out of handles, Teardown destroys each handle once and
\* leaves only those that were lost.
TeardownDestroysOnce ==
    ~gpu.full => /\ ~gpu.broken
                 /\ gpu.down => (gpu.live = gpu.leaked /\ gpu.uni = [tex |-> 0, time |-> 0])

\* What RenderScene submits for an entity with this mesh.
Submits(m) ==
    LET material == mat[IF mesh[m].mat = None THEN 0 ELSE mesh[m].mat]
        texture == tex[IF material.diffuse = None THEN 0 ELSE material.diffuse]
        program == shader[IF material.shader = None THEN 0 ELSE material.shader].prog
    IN IF mesh[m].buf["pos"].h = None THEN {}
       ELSE {program} \union ({mesh[m].buf[s].h : s \in StreamSet} \ {None})
              \union (IF texture.samp = None THEN {} ELSE {texture.buf["pix"].h})

\* Whatever a frame draws with is live: no mesh that is loaded leads to a
\* buffer, a program or a texture that is gone or was never made.
DrawsWithLiveHandles ==
    (~gpu.full /\ ~gpu.down) =>
        \A m \in DOMAIN mesh : mesh[m] # None =>
            (mesh[m].loaded => Submits(m) \subseteq gpu.live)
=============================================================================
