---------------------------- MODULE Descriptors ----------------------------
(***************************************************************************)
(* The names under which the reflector keeps what it saw and the program    *)
(* finds it (reflector/me_reflector.cpp): a type is kept under its header    *)
(* and its name without template arguments, a header's descriptors go to     *)
(* files named for the header without its directory, and a descriptor is     *)
(* named for the type without its scope, in capitals.  Two headers or two    *)
(* types can so come to share a name.                                       *)
(*                                                                         *)
(* A program is a sequence of types, in the order in which they are met:    *)
(*   file, scope, name   where the type is, its namespace, its own name      *)
(*   kind                "tagged", "plain" (no tag), "special" (the          *)
(*                       specialization of a template), or "builtin"         *)
(*   fields              of which type (its place), and whether excluded     *)
(* and the order in which the map of headers gives them.  Hashes of different *)
(* names are taken to differ.  Layout is in Reflector; files cut short, and    *)
(* builds that stop, are in Build.  Compiler and linker are external.       *)
(***************************************************************************)
EXTENDS Integers, Sequences, SequencesExt, FiniteSets

CONSTANTS
    Programs,
    Stem,     \* of each header: its file name without directory and extension
    Capitals, \* of each name: as it is in the descriptor's name
    Ours,     \* headers of the project, in no directory of a library
    ByHand,   \* names of the descriptors that reflection_types.cpp has
    MaxRuns   \* bound: runs of the reflector on the same sources

VARIABLES
    prog,
    run,   \* the run: its number, types visited, headers to do, files changed
    store, \* meReflectedType per key
    out,   \* per stem: what the generated header declares and the source defines
    told   \* how the build of the program ended

vars == <<prog, run, store, out, told>>

-----------------------------------------------------------------------------
(* The visit.                                                              *)

\* GetReflectedTypeHashes, of the name without what follows "<".
Key(i) == <<prog.types[i].file, prog.types[i].scope, prog.types[i].name>>

Extend(f, k, v) == [x \in DOMAIN f \union {k} |-> IF x = k THEN v ELSE f[x]]

\* GetReflectedType: what comes to a key first is what stays.
StoreType(s, i, k) ==
    IF k \in DOMAIN s THEN s
    ELSE Extend(s, k, [kind |-> prog.types[i].kind, name |-> prog.types[i].name,
                       plain |-> prog.types[i].scope = "" /\ prog.types[i].kind # "special",
                       excluded |-> FALSE, children |-> <<>>])

\* A field's type is stored, under the header of the field if it is builtin, and takes
\* the field's exclusion if it is not; only builtin and tagged types are included in what
\* is generated.
StoreChild(s, owner, f) ==
    LET builtin == prog.types[f.of].kind = "builtin"
        k       == IF builtin THEN [Key(f.of) EXCEPT ![1] = prog.types[owner].file] ELSE Key(f.of)
        typed   == StoreType(s, f.of, k)
        marked  == [typed EXCEPT ![k].excluded = @ \/ (f.excluded /\ ~builtin)]
    IN  [marked EXCEPT ![Key(owner)].children = Append(@,
            [of |-> k, excluded |-> f.excluded,
             included |-> builtin \/ prog.types[f.of].kind = "tagged"])]

NoRun == [n |-> 0, seen |-> 0, todo |-> <<>>, changed |-> 0]

Init ==
    /\ prog \in Programs
    /\ run = NoRun /\ store = <<>> /\ out = <<>> /\ told = "nothing"

Start ==
    /\ run.n < MaxRuns /\ (run.n > 0 => told # "nothing")
    /\ run' = [NoRun EXCEPT !.n = run.n + 1]
    /\ store' = <<>> /\ told' = "nothing"
    /\ UNCHANGED <<prog, out>>

\* visitTranslationUnit: of the tags, those in headers we care about.
Visit ==
    /\ run.n > 0 /\ run.seen < Len(prog.types)
    /\ LET i == run.seen + 1
           t == prog.types[i]
       IN  store' = IF t.kind = "tagged" /\ t.file \in Ours
                    THEN FoldLeft(LAMBDA s, f : StoreChild(s, i, f), StoreType(store, i, Key(i)), t.fields)
                    ELSE store
    /\ run' = [run EXCEPT !.seen = @ + 1,
                          !.todo = IF run.seen + 1 < Len(prog.types) THEN <<>>
                                   ELSE SelectSeq(prog.order, LAMBDA h :
                                           \E k \in DOMAIN store' : k[1] = h)]
    /\ UNCHANGED <<prog, out, told>>

-----------------------------------------------------------------------------
(* The generator.                                                          *)

TD(k) == Capitals[store[k].name]

\* The types of a header that get a descriptor: IsExcluded, IsStructural.
Described(h) == {k \in DOMAIN store : k[1] = h /\ ~store[k].excluded /\ store[k].kind # "builtin"}

Included(k) == {c \in ToSet(store[k].children) : ~c.excluded /\ c.included}

\* GenerateForwardDecls: the descriptors, and those of fields whose types have fields.
Declares(h) ==
    {TD(k) : k \in Described(h)} \union
    {TD(c.of) : c \in {d \in UNION {ToSet(store[k].children) : k \in Described(h)} :
                          d.included /\ store[d.of].children # <<>>}}

\* The descriptor of a type, and those it refers to; of is the type it is for.
Descriptor(k) ==
    [td |-> TD(k), of |-> k, plain |-> store[k].plain,
     refs |-> {[td |-> TD(c.of), of |-> c.of] : c \in Included(k)}]

\* Mutant: a file is written whatever is there.
WriteHeaderAnyway ==
    /\ run.todo # <<>>
    /\ LET h == Head(run.todo)
       IN  out' = Extend(out, Stem[h], [decls |-> Declares(h),
                                        defs |-> {Descriptor(k) : k \in Described(h)}])
    /\ run' = [run EXCEPT !.todo = Tail(@), !.changed = @ + 2]
    /\ UNCHANGED <<prog, store, told>>

\* ProcessReflectedFile: every header that was met, in files named for its stem; what is
\* there already is not written.
WriteHeader ==
    /\ run.todo # <<>>
    /\ LET h   == Head(run.todo)
           new == [decls |-> Declares(h), defs |-> {Descriptor(k) : k \in Described(h)}]
           old == IF Stem[h] \in DOMAIN out THEN out[Stem[h]]
                  ELSE [decls |-> "none", defs |-> "none"]
       IN  /\ out' = Extend(out, Stem[h], new)
           /\ run' = [run EXCEPT !.todo = Tail(@),
                                 !.changed = @ + Cardinality({p \in {"decls", "defs"} :
                                                  Stem[h] \notin DOMAIN out \/ old[p] # new[p]})]
    /\ UNCHANGED <<prog, store, told>>

-----------------------------------------------------------------------------
(* The program that is built with it.                                      *)

Defs     == UNION {out[s].defs : s \in DOMAIN out}
Declared == ByHand \union UNION {out[s].decls : s \in DOMAIN out}

\* A descriptor names its type without scope and arguments, and those it refers to are
\* declared: each header includes what was generated for its stem, and Reflector.h all.
Compiles == \A d \in Defs : d.plain /\ \A r \in d.refs : r.td \in Declared

\* Each is defined once, and each that is referred to is defined.
Links ==
    /\ \A d, e \in Defs : d.td = e.td => d = e
    /\ \A d \in Defs : d.td \notin ByHand
    /\ \A d \in Defs : \A r \in d.refs : r.td \in ByHand \union {e.td : e \in Defs}

BuildProgram ==
    /\ run.n > 0 /\ run.seen = Len(prog.types) /\ run.todo = <<>> /\ told = "nothing"
    /\ told' = IF ~Compiles THEN "uncompiled" ELSE IF ~Links THEN "unlinked" ELSE "runs"
    /\ UNCHANGED <<prog, run, store, out>>

\* The types that meTypeDescriptorRegister is called for before main.
Registered == IF told = "runs" THEN {d.of : d \in Defs} ELSE {}

Next == Start \/ Visit \/ WriteHeader \/ BuildProgram

-----------------------------------------------------------------------------

TypeOK ==
    /\ prog \in Programs /\ run.n \in 0 .. MaxRuns /\ run.seen \in 0 .. Len(prog.types)
    /\ run.changed \in 0 .. 2 * Len(prog.order)
    /\ told \in {"nothing", "uncompiled", "unlinked", "runs"}

\* Headers whose files another header, processed later, has taken.
Met(h) == \E k \in DOMAIN store : k[1] = h
Taken(h) ==
    \E i, j \in DOMAIN prog.order :
        /\ i < j /\ prog.order[i] = h /\ Met(h) /\ Met(prog.order[j])
        /\ Stem[h] = Stem[prog.order[j]]

ToDescribe == UNION {Described(h) : h \in ToSet(prog.order)}

\* In a program that was built each type that is to have a descriptor has it, registered
\* for that type, and a field leads to that of its own type.  What is missing, without a
\* word, is what another header of the same file name has taken.
TypesAreDescribed ==
    told = "runs" =>
        /\ Registered = {k \in ToDescribe : ~Taken(k[1])}
        /\ \A d \in Defs : \A r \in d.refs : r.td \notin ByHand =>
              \E e \in Defs : e.td = r.td /\ (e.of = r.of \/ Taken(r.of[1]))

\* A build fails only for a type with a scope or with arguments, for two types with one
\* descriptor's name, or for a field whose type's descriptor was taken or excluded.
BuildFailsForAName ==
    told \in {"uncompiled", "unlinked"} =>
        \/ \E k \in ToDescribe : ~store[k].plain \/ TD(k) \in ByHand
        \/ \E k, l \in ToDescribe : k # l /\ TD(k) = TD(l)
        \/ \E k \in ToDescribe : \E c \in Included(k) :
              Taken(c.of[1]) \/ store[c.of].excluded

\* The same sources change no file when the reflector runs again, so that nothing is
\* compiled again; two headers of one file name change theirs each time.
SameSourcesChangeNothing ==
    run.n > 1 /\ (\A h \in ToSet(prog.order) : ~Taken(h)) => run.changed = 0

\* me_reflector.cpp:21-22: a run on the same sources leaves every file, and so its time.
FilesKeepTheirTime == run.n > 1 => run.changed = 0
=============================================================================
