-------------------------------- MODULE Editor --------------------------------
(***************************************************************************)
(* The asset editor (editor/me_asset_editor.cpp) and the way of a change to *)
(* the disk (core/me_command.cpp): assets opened and changed in the editor, *)
(* saved by Save All through the command queue and a write on the asset     *)
(* compiler thread.                                                         *)
(*                                                                          *)
(* A reference [id, h] names an instance h, a template (h = 0) or, when     *)
(* nothing was loaded at the time it was made, only the id (h = -1). ImGui, *)
(* the asset system behind its requests and the disk are external.          *)
(***************************************************************************)
EXTENDS Integers, Sequences, SequencesExt, FiniteSets

CONSTANTS Ids,       \* template assets
          Insts,     \* instances of entities, by number from 1
          InstId,    \* InstId[i]: the template of instance i
          MaxOpen,   \* length of openAssets
          MaxQueue,  \* bound: commands waiting
          MaxLen,    \* bound: elements of a template's container field
          None

VARIABLES mem,    \* the loaded templates and their contents
          disk,   \* the contents saved, writes under way and writes that failed
          ed,     \* AssetEditorContext
          queue   \* the save commands in externalCommandQueue

vars == <<mem, disk, ed, queue>>

Unloaded(id) == [id |-> id, h |-> -1]
Template(id) == [id |-> id, h |-> 0]
Instance(i) == [id |-> InstId[i], h |-> i]

Init == /\ mem = [loaded |-> {}, val |-> [id \in Ids |-> <<>>]]
        /\ disk = [val |-> [id \in Ids |-> <<>>], writes |-> {}, failed |-> {}]
        /\ ed = [root |-> None, open |-> <<>>, dirty |-> {}]
        /\ queue = <<>>

-----------------------------------------------------------------------------
(* The asset editor. *)

\* AssetEditorAddOpenAsset: an asset that is open, or one too many, is not added.
AddOpen(open, ref) ==
    IF (\E n \in 1 .. Len(open) : open[n].id = ref.id) \/ Len(open) >= MaxOpen
    THEN open ELSE Append(open, ref)

\* AssetEditorGetLoadedAsset and the references fields hold.
Reference(id) == IF id \in mem.loaded THEN Template(id) ELSE Unloaded(id)

\* meAssetEditorOpen, for an asset chosen in a menu or the selected entity.
OpenAsset == \E ref \in {Reference(id) : id \in Ids}
                        \union {Instance(i) : i \in Insts} :
    /\ ed' = [ed EXCEPT !.root = ref, !.open = AddOpen(<<>>, ref)]
    /\ UNCHANGED <<mem, disk, queue>>

\* The "+" beside a field that refers to an asset.
OpenField(id) ==
    /\ ed.open # <<>>
    /\ ed' = [ed EXCEPT !.open = AddOpen(@, Reference(id))]
    /\ UNCHANGED <<mem, disk, queue>>

LoadDone(id) ==
    /\ id \notin mem.loaded
    /\ mem' = [mem EXCEPT !.loaded = @ \union {id}, !.val[id] = disk.val[id]]
    /\ UNCHANGED <<disk, ed, queue>>

\* Save All sends a command for every dirty asset and forgets that it is dirty.
SaveAll ==
    /\ ed.dirty # {}
    /\ Len(queue) + Cardinality(ed.dirty) <= MaxQueue
    /\ queue' = queue \o SetToSeq(ed.dirty)
    /\ ed' = [ed EXCEPT !.dirty = {}]
    /\ UNCHANGED <<mem, disk>>

\* The open assets of a tick: a template that was loaded since replaces its id.
Refreshed == [n \in 1 .. Len(ed.open) |->
                 IF ed.open[n].h = -1 THEN Reference(ed.open[n].id) ELSE ed.open[n]]

\* Mutant: an asset that was opened before it was loaded is not marked.
MarkedLoaded(ref) ==
    ed.dirty \union (IF ref.h = -1 THEN {} ELSE {ref})

\* An asset that changed is dirty, as the root's own copy too when it is the root.
Marked(ref) == ed.dirty \union {ref} \union (IF ref.id = ed.root.id THEN {ed.root} ELSE {})

\* DrawPrimitiveValue on a container: an element is edited while the table is
\* drawn, one is removed after it, and "Add" pushes the element type's default.
Edited(v) == {v} \union {[v EXCEPT ![k] = x] : k \in DOMAIN v, x \in {0, 1}}
Removed(v) == {v} \union {RemoveAt(v, k) : k \in DOMAIN v}
Added(v) == {v} \union (IF Len(v) < MaxLen THEN {Append(v, 0)} ELSE {})

\* What one frame can make of the field, "Reset to Default" included.
FieldEdits(v) ==
    (UNION {UNION {Added(w) : w \in Removed(x)} : x \in Edited(v)} \union {<<>>}) \ {v}

\* meAssetEditorTick where the user changes an open asset: DrawAssetNode locks
\* it, which waits for a template that is not loaded, and writes through the lock.
Change(n) ==
    /\ n \in 1 .. Len(ed.open)
    /\ LET ref == Refreshed[n] IN
        /\ IF ref.h \in {-1, 0}
           THEN /\ \E v \in FieldEdits(mem.val[ref.id]) :
                     mem' = [loaded |-> mem.loaded \union {ref.id},
                             val |-> [mem.val EXCEPT ![ref.id] = v]]
                /\ disk' = [disk EXCEPT !.failed = @ \ {ref.id}]
           ELSE UNCHANGED <<mem, disk>>
        /\ ed' = [ed EXCEPT !.open = Refreshed, !.dirty = Marked(ref)]
    /\ UNCHANGED queue

-----------------------------------------------------------------------------
(* The commands, flushed by the main thread, and the writes they request. *)

\* HandleSaveAsset: an instance is saved as its template, one that is not
\* loaded is not saved at all.
HandleSaveAsset ==
    /\ queue # <<>>
    /\ queue' = Tail(queue)
    /\ disk' = [disk EXCEPT !.writes = @ \union ({Head(queue).id} \intersect mem.loaded)]
    /\ UNCHANGED <<mem, ed>>

\* The write serialises what the template holds when it runs.
WriteDone(id) ==
    /\ id \in disk.writes
    /\ disk' = [val |-> [disk.val EXCEPT ![id] = mem.val[id]],
                writes |-> disk.writes \ {id}, failed |-> disk.failed \ {id}]
    /\ UNCHANGED <<mem, ed, queue>>

WriteFails(id) ==
    /\ id \in disk.writes
    /\ disk' = [disk EXCEPT !.writes = @ \ {id}, !.failed = @ \union {id}]
    /\ UNCHANGED <<mem, ed, queue>>

Next == \/ OpenAsset \/ SaveAll \/ HandleSaveAsset
        \/ \E id \in Ids : OpenField(id) \/ LoadDone(id) \/ WriteDone(id) \/ WriteFails(id)
        \/ \E n \in 1 .. MaxOpen : Change(n)

-----------------------------------------------------------------------------
TypeOK == /\ Len(ed.open) <= MaxOpen /\ Len(queue) <= MaxQueue
          /\ mem.loaded \subseteq Ids /\ disk.writes \subseteq Ids

\* A template whose contents differ from the file's is dirty, on its way to be
\* saved, or had a write fail: no change is forgotten on the way to the disk.
UnsavedIsKnown ==
    \A id \in mem.loaded : mem.val[id] # disk.val[id] =>
        \/ \E ref \in ed.dirty \union ToSet(queue) : ref.id = id
        \/ id \in disk.writes \union disk.failed

\* No asset is open twice.
OpenOnce == \A n, k \in 1 .. Len(ed.open) : ed.open[n].id = ed.open[k].id => n = k
=============================================================================
