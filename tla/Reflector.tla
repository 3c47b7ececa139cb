----------------------------- MODULE Reflector -----------------------------
(***************************************************************************)
(* reflector/me_reflector.cpp: the build tool that visits the tagged structs *)
(* of the program and writes a type descriptor for each: its fields at      *)
(* their offsets, padding between them, and references to the descriptors   *)
(* of the fields' types.  What clang knows of a type, and its layout, is    *)
(* given; the visit, the store and the generator are modelled.             *)
(*                                                                         *)
(* A program has structs, in the order in which their tags are visited:     *)
(*   tagged, ver    the tag MEREFLECT(Version=ver)                          *)
(*   bases, fields  and a field: name, type, excluded, bits (a bit field)   *)
(* A type is a name and template arguments.                                *)
(***************************************************************************)
EXTENDS Integers, Sequences, SequencesExt, FiniteSets

CONSTANTS
    Programs,   \* the programs of the instance: functions of struct names
    Order,      \* the structs, each after those it contains
    Builtin     \* size of the types whose descriptors are written by hand

VARIABLES
    prog,
    visited,    \* how many structs the visit has seen
    refl,       \* meReflectedType per struct
    written,    \* structs whose descriptor was generated: members, references
    failed      \* an assertion of the generator has failed

vars == <<prog, visited, refl, written, failed>>

Structs == ToSet(Order)

-----------------------------------------------------------------------------
(* What clang answers.                                                     *)

RoundUp(n, a) == ((n + a - 1) \div a) * a

\* Places the members one after the other at their alignment; a bit field here takes
\* the room of its type.
Placed(cur, members, lay) ==
    FoldLeft(LAMBDA acc, f :
        LET size == IF f.type.name \in DOMAIN Builtin THEN Builtin[f.type.name]
                    ELSE lay[f.type.name].size
            al   == IF f.type.name \in DOMAIN Builtin THEN size ELSE lay[f.type.name].align
            off  == RoundUp(acc.cur, al)
        IN  [cur |-> off + size, align |-> IF al > acc.align THEN al ELSE acc.align,
             offs |-> Append(acc.offs, [name |-> f.name, off |-> off, size |-> size])],
        cur, members)

LayoutOf(s, lay) ==
    LET start == [cur |-> 0, align |-> 1, offs |-> <<>>]
        bases == Placed(start, [i \in DOMAIN prog[s].bases |->
                     [name |-> "", type |-> [name |-> prog[s].bases[i]]]], lay)
        all   == Placed([bases EXCEPT !.offs = <<>>], prog[s].fields, lay)
        size  == RoundUp(all.cur, all.align)
    IN  [size |-> IF size = 0 THEN 1 ELSE size, align |-> all.align, offs |-> all.offs]

Layout ==
    FoldLeft(LAMBDA lay, s : [x \in DOMAIN lay \union {s} |->
                                 IF x = s THEN LayoutOf(s, lay) ELSE lay[x]], <<>>, Order)

-----------------------------------------------------------------------------
(* The visit: StoreReflectedTypeInfo.                                      *)

Unknown == [known |-> FALSE, excluded |-> FALSE, ver |-> 0, children |-> <<>>]

\* A struct is stored once: a tag that is seen after the struct was needed for a field
\* adds nothing.
StoreStruct(r, s, ver) ==
    IF r[s].known THEN r ELSE [r EXCEPT ![s].known = TRUE, ![s].ver = ver]

IsBuiltin(t) == t.name \in DOMAIN Builtin

\* The field's type is stored before it, and excluded with it; a field of a name that
\* is already there is left out; a bit field is kept without name, size or offset.
\* The offset is that in the struct that declares the field.
StoreField(r, target, owner, f, lay) ==
    LET stored == IF IsBuiltin(f.type) THEN r ELSE
                  LET q == StoreStruct(r, f.type.name, 0)
                  IN  [q EXCEPT ![f.type.name].excluded = @ \/ f.excluded]
        at     == CHOOSE o \in ToSet(lay[owner].offs) : o.name = f.name
        tagged == IsBuiltin(f.type) \/ prog[f.type.name].tagged
        child  == [name     |-> IF f.bits THEN "" ELSE f.name,
                   off      |-> IF f.bits THEN 0 ELSE at.off,
                   size     |-> IF f.bits THEN 0 ELSE at.size,
                   excluded |-> f.excluded /\ ~f.bits,
                   refs     |-> IF tagged THEN {f.type.name} \union ToSet(f.type.args) ELSE {}]
    IN  IF \E c \in ToSet(r[target].children) : c.name = f.name
        THEN stored
        ELSE [stored EXCEPT ![target].children = Append(@, child)]

StoreFields(r, target, owner, lay) ==
    FoldLeft(LAMBDA q, f : StoreField(q, target, owner, f, lay), r, prog[owner].fields)

\* OnFindInterestingDecl: the fields of the direct bases come first.
StoreDecl(s) ==
    LET lay   == Layout
        bases == FoldLeft(LAMBDA q, b : StoreFields(q, s, b, lay),
                          StoreStruct(refl, s, prog[s].ver), prog[s].bases)
    IN  StoreFields(bases, s, s, lay)

Init ==
    /\ prog \in Programs
    /\ visited = 0
    /\ refl = [s \in Structs |-> Unknown]
    /\ written = [s \in {} |-> {}] /\ failed = FALSE

\* visitTranslationUnit.
Visit ==
    /\ visited < Len(Order)
    /\ visited' = visited + 1
    /\ LET s == Order[visited + 1]
       IN  refl' = IF prog[s].tagged THEN StoreDecl(s) ELSE refl
    /\ UNCHANGED <<prog, written, failed>>

-----------------------------------------------------------------------------
(* The generator: ProcessReflectedFile, for one struct.                    *)

\* The members so far, where the next may start, and whether the assertions held.
AddChild(acc, c) ==
    LET gap == c.off - acc.cur
    IN  IF ~acc.ok \/ c.off < acc.cur \/ (gap > 0 /\ acc.members = <<>>)
        THEN [acc EXCEPT !.ok = FALSE]
        ELSE [acc EXCEPT
                 !.cur = c.off + c.size,
                 !.members = @ \o (IF gap = 0 THEN <<>>
                                   ELSE <<[name |-> "padding", off |-> acc.cur, size |-> gap]>>)
                               \o <<[name |-> c.name, off |-> c.off, size |-> c.size]>>,
                 !.refs = @ \union (IF c.excluded THEN {} ELSE c.refs)]

Emitted(s) ==
    LET children == refl[s].children
        acc == FoldLeft(AddChild, [cur |-> 0, members |-> <<>>, refs |-> {}, ok |-> TRUE],
                        children)
        al  == Layout[s].align
        pad == (al - (acc.cur % al)) % al
    IN  IF children = <<>> THEN acc
        ELSE [acc EXCEPT
                 !.ok = @ /\ acc.cur + pad = Layout[s].size,
                 !.members = @ \o (IF pad = 0 THEN <<>> ELSE
                     <<[name |-> "padding", off |-> acc.cur, size |-> pad]>>)]

\* Only structs that were stored and not excluded get a descriptor.
Generate(s) ==
    /\ visited = Len(Order) /\ ~failed
    /\ refl[s].known /\ ~refl[s].excluded /\ s \notin DOMAIN written
    /\ LET e == Emitted(s)
       IN  IF e.ok
           THEN /\ written' = [x \in DOMAIN written \union {s} |->
                                  IF x = s THEN [members |-> e.members, refs |-> e.refs,
                                                 ver |-> refl[s].ver]
                                  ELSE written[x]]
                /\ UNCHANGED failed
           ELSE failed' = TRUE /\ UNCHANGED written
    /\ UNCHANGED <<prog, visited, refl>>

Next == Visit \/ \E s \in Structs : Generate(s)

Spec == Init /\ [][Next]_vars

-----------------------------------------------------------------------------

TypeOK ==
    /\ prog \in Programs /\ visited \in 0 .. Len(Order)
    /\ DOMAIN refl = Structs /\ DOMAIN written \subseteq Structs
    /\ failed \in BOOLEAN

\* The fields a descriptor of s should have.
BaseFields(s) == FlattenSeq([i \in DOMAIN prog[s].bases |-> prog[prog[s].bases[i]].fields])
AllFields(s)  == BaseFields(s) \o prog[s].fields

\* What the reflector copes with: no bit fields, one base without bases, no hidden names.
Supported(s) ==
    /\ \A f \in ToSet(AllFields(s)) : ~f.bits
    /\ Len(prog[s].bases) <= 1
    /\ \A b \in ToSet(prog[s].bases) : prog[b].bases = <<>> /\ prog[b].fields # <<>>
    /\ IsInjective([i \in DOMAIN AllFields(s) |-> AllFields(s)[i].name])

NameExcluded(t) == \E s \in Structs : \E f \in ToSet(prog[s].fields) :
                      f.type.name = t /\ f.excluded

\* A generated descriptor has no gap and no overlap from the first byte of the struct
\* to the last.  If the struct is of a kind the reflector copes with, every field of it
\* and of its base is there in order, and the version is that of its tag.
MembersTile ==
    \A s \in DOMAIN written : written[s].members # <<>> =>
        LET m == written[s].members
        IN  /\ m[1].off = 0
            /\ \A i \in 1 .. Len(m) - 1 : m[i].off + m[i].size = m[i + 1].off
            /\ Last(m).off + Last(m).size = Layout[s].size
            /\ Supported(s) =>
                  /\ SelectSeq([i \in DOMAIN m |-> m[i].name], LAMBDA n : n # "padding")
                        = [i \in DOMAIN AllFields(s) |-> AllFields(s)[i].name]
                  /\ written[s].ver = prog[s].ver

\* No assertion of the generator fails for such structs.
SupportedStructsPass ==
    (\A s \in Structs : prog[s].tagged => Supported(s)) => ~failed

\* Once all is written, each reference is to a descriptor that exists, unless a field
\* that is excluded took its type's descriptor away, or a template argument has no tag.
ReferencesDefined ==
    (/\ visited = Len(Order) /\ ~failed
     /\ \A s \in Structs : refl[s].known /\ ~refl[s].excluded => s \in DOMAIN written) =>
        \A s \in DOMAIN written : \A t \in written[s].refs :
            \/ t \in DOMAIN Builtin \/ t \in DOMAIN written
            \/ NameExcluded(t) \/ ~prog[t].tagged
=============================================================================
