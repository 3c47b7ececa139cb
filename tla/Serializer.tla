----------------------------- MODULE Serializer -----------------------------
(***************************************************************************)
(* core/me_serialize and core/me_chunker: an object of a reflected type is  *)
(* walked field by field, and one walk measures, writes or reads, in binary *)
(* or as JSON text.  The type here has a header, a number, a string, an     *)
(* array, a vector and a fixed array of two asset references.               *)
(*                                                                         *)
(* A binary file is the sequence of the walk's values, a number before each *)
(* string and array; a text file says which fields it has, and a person may *)
(* edit it.  A child asset starts as a deep copy of its parent, so the walk *)
(* also says whose memory each field has.                                   *)
(***************************************************************************)
EXTENDS Naturals, Sequences, SequencesExt, FiniteSets

CONSTANTS
    Nums,           \* values of a number, 0 among them
    Names, Arrays, Vectors, \* what the string, the array and the vector hold
    Assets,         \* what can be referenced
    Me, Parent,     \* the object's own asset id, and the asset it may inherit from
    ParentObject,   \* the body of the parent's template
    Versions,       \* versions of the type
    MaxRemoved,     \* bound of the instance on the fields a person removes
    None

VARIABLES
    version,  \* typeDesc.version of the running program
    saved,    \* the object last given to SerializeBlocking
    file,     \* what it gave
    out       \* the last DeserializeBlocking: outcome, object, the memory it has

vars == <<version, saved, file, out>>

HeaderFields == <<"magic", "ver", "type", "id", "parent", "deps">>
Fields       == HeaderFields \o <<"n", "name", "xs", "pos", "refs">>
Header       == ToSet(HeaderFields)

\* ChunkPrimitiveWithTypeDescriptor and the serializers of the types: a primitive is one
\* value, a string or an array is preceded by its size, a vector and a fixed array have
\* theirs.
Kind == [f \in ToSet(Fields) |-> CASE f \in {"deps", "xs"} -> "array"
                                   [] f = "name"           -> "string"
                                   [] f \in {"pos", "refs"} -> "fixed"
                                   [] OTHER                -> "value"]

Owning == {"deps", "name", "xs"}   \* fields with memory outside the object

\* setToDefaultsFn.
Defaults == [magic |-> "", ver |-> 0, type |-> None, id |-> None, parent |-> None,
             deps |-> <<>>, n |-> 0, name |-> <<>>, xs |-> <<>>, pos |-> <<0, 0>>,
             refs |-> <<None, None>>]

-----------------------------------------------------------------------------
(* The writing walk.                                                       *)

\* PrepareSerializedHeaderInAssetData.
Prepared(o) == [o EXCEPT !.magic = "MEAS", !.ver = version, !.type = "T"]

\* DoString and ChunkDynArray in binary; BeginFixedArray writes no number.
Counted(v) == <<Len(v)>> \o v
Values(f, v) == CASE Kind[f] \in {"array", "string"} -> Counted(v)
                  [] Kind[f] = "fixed" -> v
                  [] OTHER             -> <<v>>

\* SerializeChunkerPass: the header is prepared, and every field goes out in order.
Stream(o) == LET p == Prepared(o)
             IN FlattenSeq([i \in DOMAIN Fields |-> Values(Fields[i], p[Fields[i]])])

\* AddAssetDependency for each reference the walk meets, which is after the header.
Collected(deps, o) ==
    FoldLeft(LAMBDA ds, r : IF r = None \/ Contains(ds, r) THEN ds ELSE Append(ds, r),
             deps, o.refs)

-----------------------------------------------------------------------------
(* The reading walk: its pass, where it is, and the field it reads.         *)

\* DoBinaryVoid: past the end it goes on measuring, and leaves what it should read.
ReadValue(w, old) ==
    IF w.pass = "Read" /\ w.cur < Len(file.data)
    THEN [pass |-> "Read", cur |-> w.cur + 1, v |-> file.data[w.cur + 1]]
    ELSE [pass |-> "Measure", cur |-> w.cur + 1, v |-> old]

ReadItems(w, old) ==
    FoldLeft(LAMBDA acc, x : LET r == ReadValue(acc, x)
                             IN  [r EXCEPT !.v = Append(acc.v, r.v)],
             [w EXCEPT !.v = <<>>], old)

Blank(n) == [i \in 1 .. n |-> 0]

\* ChunkDynArray creates the array with the size it read, its elements defaults; when
\* the size is missing it walks the array there is.
ReadArray(w, old) == LET count == ReadValue(w, Len(old))
                     IN ReadItems(count, IF count.pass = "Read" THEN Blank(count.v) ELSE old)

\* DoString: no characters to read when there are none.
ReadString(w, old) == LET len == ReadValue(w, Len(old))
                      IN IF len.pass = "Read" /\ len.v = 0 THEN [len EXCEPT !.v = <<>>]
                         ELSE ReadItems(len, IF len.pass = "Read" THEN Blank(len.v) ELSE old)

ReadBinary(w, f, old) ==
    CASE Kind[f] = "value"  -> ReadValue(w, old)
      [] Kind[f] = "array"  -> ReadArray(w, old)
      [] Kind[f] = "string" -> ReadString(w, old)
      [] Kind[f] = "fixed"  -> ReadItems(w, old)

\* In text the walk stands on the field's node; a fixed array with another number of
\* elements, be it a vector or not, ends it.
ReadNode(w, f, old) ==
    IF Kind[f] = "fixed" /\ Len(file.doc[f]) # Len(old)
    THEN [w EXCEPT !.pass = "Ended"] ELSE [w EXCEPT !.v = file.doc[f]]

\* DoTextField: the presence of a field.  A header is there or not as a whole.
Present(f) == \/ file.mode = "binary"
              \/ f \in DOMAIN file.doc
              \/ f \in Header /\ DOMAIN file.doc \intersect Header # {}

-----------------------------------------------------------------------------
(* The memory of a field: none, the parent's, copied from it, or read.       *)

Bare == [f \in Owning |-> "none"]

\* meTypeDescriptorDestroy, ~String, DynArrayDestroy: what was not its own is misfreed.
Dropped(m, f) ==
    IF f \notin Owning \/ m.own[f] = "none" THEN m
    ELSE [own  |-> [m.own EXCEPT ![f] = "none"],
          live |-> m.live \ {<<f, m.own[f]>>},
          bad  |-> m.bad \/ <<f, m.own[f]>> \notin m.live]

Given(m, f, how, v) ==
    IF f \notin Owning \/ (Kind[f] = "string" /\ v = <<>>) THEN m
    ELSE [m EXCEPT !.own[f] = how, !.live = @ \union {<<f, how>>}]

\* Mutant: the copy keeps the pointers the memcpy brought.
DeepCopyShares(o) == [own |-> [f \in Owning |-> "parents"], live |-> {}, bad |-> FALSE]

\* meTypeDescriptorDeepCopy: the object is copied byte by byte, pointers and all, then
\* each field with memory of its own gets new memory over them.
DeepCopy(o) == FoldLeft(LAMBDA m, f : Given(m, f, "copied", o[f]),
                        [own |-> Bare, live |-> {}, bad |-> FALSE], Fields)

\* ResetFieldBeforeDeserialize, when the object was copied from the parent.
ResetField(w, f) ==
    [w EXCEPT !.mem = Dropped(@, f), !.obj = [@ EXCEPT ![f] = Defaults[f]]]

\* ChunkWithTypeDescriptor of one field.
ReadField(w, f) ==
    IF ~Present(f) \/ w.pass = "Ended" THEN w
    ELSE LET start == IF w.copied THEN ResetField(w, f) ELSE w
             old   == start.obj[f]
             at    == [pass |-> w.pass, cur |-> w.cur, v |-> old]
             r     == IF file.mode = "binary" THEN ReadBinary(at, f, old) ELSE ReadNode(at, f, old)
         IN IF file.mode = "text" /\ f \notin DOMAIN file.doc THEN start
            ELSE [start EXCEPT !.pass = r.pass, !.cur = r.cur, !.obj = [@ EXCEPT ![f] = r.v],
                    !.mem = IF r.pass = "Read" THEN Given(Dropped(@, f), f, "read", r.v) ELSE @]

Read(base, mem, copied, fields) ==
    FoldLeft(ReadField,
             [pass |-> "Read", cur |-> 0, obj |-> base, mem |-> mem, copied |-> copied], fields)

NoMemory == [own |-> Bare, live |-> {}, bad |-> FALSE]

\* SerializedBufferStartsWithBinaryHeader; in text the parser has to take the document.
CanHaveHeader == IF file.mode = "binary" THEN file.data # <<>> /\ file.data[1] = "MEAS"
                 ELSE file.parses

\* TryReadSerializedHeaderField, into a header of its own.
ReadHeader == Read(Defaults, NoMemory, FALSE, HeaderFields)
HasHeader  == CanHaveHeader /\ Present("magic") /\ ReadHeader.pass = "Read"

-----------------------------------------------------------------------------

Objects == {[Defaults EXCEPT !.id = Me, !.parent = p, !.n = n, !.name = c, !.xs = a,
                             !.pos = v, !.refs = <<r, s>>] :
               p \in {None, Parent}, n \in Nums, c \in Names, a \in Arrays, v \in Vectors,
               r \in Assets \union {None}, s \in Assets \union {None}}

NoFile == [mode |-> "none"]
NotLoaded == [result |-> "none", obj |-> Defaults, mem |-> NoMemory]

Init ==
    /\ version \in Versions
    /\ saved = Defaults /\ file = NoFile /\ out = NotLoaded

\* DoTextFinalize: the document of all fields.
Document(o) == [mode |-> "text", doc |-> Prepared(o), parses |-> TRUE, whole |-> TRUE]

\* SerializeChunkedBlocking: a pass that measures and collects the dependencies, one
\* that measures with them, one that writes into a buffer of that size.
Save(o, mode) ==
    LET first  == [Prepared(o) EXCEPT !.deps = Collected(<<>>, o)]
        second == [first EXCEPT !.deps = Collected(@, o)]
        fits   == Len(Stream(second)) <= Len(Stream(first))
    IN  /\ saved' = first
        /\ file' = IF ~fits THEN [mode |-> "failed"]
                   ELSE IF mode = "binary"
                   THEN [mode |-> "binary", data |-> Stream(second), whole |-> TRUE]
                   ELSE Document(second)
        /\ out' = NotLoaded
        /\ UNCHANGED version

\* A file that was not written to its end.
Truncate(k) ==
    /\ file.mode = "binary" /\ file.whole /\ k < Len(file.data)
    /\ file' = [file EXCEPT !.data = SubSeq(@, 1, k), !.whole = FALSE]
    /\ out' = NotLoaded
    /\ UNCHANGED <<version, saved>>

Edited(f) ==
    /\ file.mode = "text" /\ file.whole /\ file' = f
    /\ out' = NotLoaded
    /\ UNCHANGED <<version, saved>>

\* A person edits the text: removes a field or the header, shortens an array, or leaves
\* it so that it does not parse.
RemoveField(f) ==
    /\ file.mode = "text" /\ f \in DOMAIN file.doc
    /\ Cardinality(ToSet(Fields) \ DOMAIN file.doc) < MaxRemoved
    /\ Edited([file EXCEPT !.doc = [g \in DOMAIN @ \ {f} |-> @[g]]])

RemoveHeader ==
    /\ file.mode = "text"
    /\ Edited([file EXCEPT !.doc = [g \in DOMAIN @ \ Header |-> @[g]]])

RemoveElement(f) ==
    /\ file.mode = "text" /\ f \in DOMAIN file.doc
    /\ Edited([file EXCEPT !.doc = [@ EXCEPT ![f] = Tail(@)], !.whole = FALSE])

BreakText ==
    /\ file.mode = "text"
    /\ Edited([file EXCEPT !.parses = FALSE, !.whole = FALSE])

\* The program is built again with another version of the type.
Rebuild(v) ==
    /\ v # version
    /\ version' = v
    /\ out' = NotLoaded
    /\ UNCHANGED <<saved, file>>

\* ValidateSerializedHeader.
HeaderCheck(h) ==
    CASE h.magic # "MEAS"  -> "FAILURE"
      [] h.type # "T"      -> "FAILURE"
      [] h.ver # version   -> "VERSION_MISMATCH"
      [] OTHER             -> "SUCCESS"

\* DeepCopyParentAssetIfNeeded: an asset of no id has no type, so its parent's differs.
ParentUsable(h, parentLoads) == parentLoads /\ h.id # None
Inherited == [ParentObject EXCEPT !.id = Parent]

Loaded(h, parentLoads) ==
    LET child == h.parent # None
        body  == IF child THEN Read(Inherited, DeepCopy(Inherited), TRUE, Fields)
                 ELSE Read(Defaults, NoMemory, FALSE, Fields)
    IN  CASE HeaderCheck(h) # "SUCCESS" -> [NotLoaded EXCEPT !.result = HeaderCheck(h)]
          [] child /\ ~ParentUsable(h, parentLoads) -> [NotLoaded EXCEPT !.result = "FAILURE"]
          [] body.pass # "Read" -> [NotLoaded EXCEPT !.result = "FAILURE"]
          [] OTHER -> [result |-> "SUCCESS", obj |-> body.obj, mem |-> body.mem]

\* DeserializeChunkedBlocking; parentLoads is the outcome of loading the parent.
Load(parentLoads) ==
    /\ file.mode \in {"binary", "text"} /\ out = NotLoaded
    /\ out' = IF HasHeader THEN Loaded(ReadHeader.obj, parentLoads)
              ELSE [NotLoaded EXCEPT !.result = "FAILURE"]
    /\ UNCHANGED <<version, saved, file>>

Next ==
    \/ \E o \in Objects, mode \in {"binary", "text"} : file = NoFile /\ Save(o, mode)
    \/ \E k \in 0 .. 30 : Truncate(k)
    \/ \E f \in ToSet(Fields) : RemoveField(f)
    \/ RemoveHeader
    \/ \E f \in {"pos", "refs"} : RemoveElement(f)
    \/ BreakText
    \/ \E v \in Versions : Rebuild(v)
    \/ \E parentLoads \in BOOLEAN : Load(parentLoads)

Spec == Init /\ [][Next]_vars

-----------------------------------------------------------------------------

TypeOK ==
    /\ version \in Versions
    /\ file.mode \in {"none", "binary", "text", "failed"}
    /\ out.result \in {"none", "FAILURE", "VERSION_MISMATCH", "SUCCESS"}

Has(f)  == file.mode = "binary" \/ f \in DOMAIN file.doc

\* The passes agree, and the references are in the header once each.
SavesFit == file.mode # "failed" /\ IsInjective(saved.deps)
                                 /\ ToSet(saved.deps) = ToSet(saved.refs) \ {None}

\* A load that succeeds gives each field the file has as it was saved, and each field a
\* person removed as the parent has it, or the default; a file cut short, broken or of
\* another version does not load, and a whole one does as soon as its parent does.
LoadGivesWhatWasSaved ==
    /\ out.result = "SUCCESS" =>
         /\ file.whole
         /\ saved.ver = version
         /\ \A f \in ToSet(Fields) :
               out.obj[f] = IF Has(f) THEN saved[f]
                            ELSE IF f \notin Header /\ Has("parent") /\ saved.parent # None
                            THEN ParentObject[f] ELSE Defaults[f]
    /\ (/\ out.result # "none" /\ file.whole
        /\ saved.ver = version /\ saved.parent = None
        /\ \A f \in {"magic", "ver", "type"} : Has(f)) => out.result = "SUCCESS"

\* What was loaded owns the memory of its fields, the inherited ones too; nothing of the
\* parent's was freed on the way, and nothing allocated was lost.
LoadOwnsItsMemory ==
    /\ ~out.mem.bad
    /\ out.mem.live = {<<f, out.mem.own[f]>> : f \in {g \in Owning : out.mem.own[g] # "none"}}
    /\ out.result = "SUCCESS" =>
          \A f \in Owning : out.obj[f] # <<>> => out.mem.own[f] \in {"copied", "read"}
=============================================================================
