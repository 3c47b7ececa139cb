------------------------------ MODULE CompileRun ------------------------------
(***************************************************************************)
(* reflector/me_reflector.cpp: what a tag MEREFLECT(op, key=value, ...)     *)
(* says, the list of the declarations that have one, and the functions      *)
(* tagged CompileRun, which the tool compiles and calls for each of them,    *)
(* with those of core/me_compile_run_smoke_test.h.  The interpreter is       *)
(* external: it refuses functions that do not compile or have one name.      *)
(*                                                                         *)
(* A program is a sequence of declarations:                                 *)
(*   kind   "struct" or "function"                                          *)
(*   op, written   its tag, with the list of values; op None for no tag       *)
(*   bases, fields   of a struct: the declarations it derives from, and      *)
(*                   which of its fields have a tag of their own            *)
(*   name, spelled, builds   of a function: the last two say whether its     *)
(*                   text is in the file, and compiles                      *)
(***************************************************************************)
EXTENDS Integers, Sequences, FiniteSets

LOCAL INSTANCE SequencesExt

CONSTANTS Programs, \* the programs of the instance
          BaseAsset,\* the name of meBaseAsset, the base of the types of assets
          None

VARIABLES prog, \* the program, and how many of its declarations the visit has seen
          ctx,  \* annotatedDecls, compileRunDecls and the values read of each tag
          run,  \* the entry functions: stage, declaration and function called next
          told, \* what each entry function was called with
          done  \* what the tool did: None, "failed" or "generated"

vars == <<prog, ctx, run, told, done>>

-----------------------------------------------------------------------------
(* The text of a tag, as a sequence of words and signs.                     *)

\* How a person writes a tag: numbers bare and texts in quotation marks, here '.
Written(w) == IF w.quoted THEN <<",", " ", w.key, " ", "=", " ", "'">> \o w.value \o <<"'">>
              ELSE <<",", w.key, "=">> \o w.value
TagText(decl) ==
    <<decl.op>> \o FlattenSeq([i \in DOMAIN decl.written |-> Written(decl.written[i])]) \o <<")">>

After(s, n) == SubSeq(s, n + 1, Len(s))

\* EatCharsOffset, and the same up to a sign.
Run(s, set)   == CHOOSE n \in 0 .. Len(s) : /\ \A i \in 1 .. n : s[i] \in set
                                            /\ n < Len(s) => s[n + 1] \notin set
RunTo(s, set) == CHOOSE n \in 0 .. Len(s) : /\ \A i \in 1 .. n : s[i] \notin set
                                            /\ n < Len(s) => s[n + 1] \in set

\* ParseReflectionMacroContent: up to the first parenthesis, a quoted one too.
Content(text) == SubSeq(text, 1, RunTo(text, {")"}))

\* ParseReflectionMacroOp
Op(content) == LET s == After(content, Run(content, {" "})) IN
               IF s = <<>> THEN None ELSE s[1]

\* FindInString without case: anywhere, so also at the end of a longer word.
HasKey(word, key) == word = key \/ (word = "Deserializer" /\ key = "Serializer")

\* Mutant: a quoted value ends at the first comma, as the others do.
StringParamToComma(key, content) ==
    LET at == {i \in DOMAIN content : HasKey(content[i], key)} IN
    IF at = {} THEN <<>> ELSE
    LET s == After(content, CHOOSE i \in at : \A j \in at : i <= j)
        t == After(s, Run(s, {" ", "="}))
        u == After(t, Run(t, {"'"}))
    IN SubSeq(u, 1, RunTo(u, {"'", ",", ")"}))

\* GetStringParam of StoreReflectedTypeInfo.
GetStringParam(key, content) ==
    LET at == {i \in DOMAIN content : HasKey(content[i], key)} IN
    IF at = {} THEN <<>> ELSE
    LET s == After(content, CHOOSE i \in at : \A j \in at : i <= j)
        t == After(s, Run(s, {" ", "="}))
        u == After(t, Run(t, {"'"}))
    IN SubSeq(u, 1, IF t = u THEN RunTo(u, {",", ")"}) ELSE RunTo(u, {"'"}))

Keys == {"Tooltip", "Version", "Serializer", "Deserializer"}

\* What StoreReflectedTypeInfo keeps of the tag.
Params(text) == [k \in Keys |-> GetStringParam(k, Content(text))]

-----------------------------------------------------------------------------
(* The visit.                                                              *)

Init ==
    /\ prog \in {[decls |-> p, seen |-> 0] : p \in Programs}
    /\ ctx = [annotated |-> <<>>, functions |-> <<>>, params |-> <<>>]
    /\ run = [stage |-> "visit", decl |-> 0, entry |-> 0]
    /\ told = <<>>
    /\ done = None

Annotated(i, field, op) == [of |-> i, field |-> field, op |-> op]

\* StoreAnnotatedDecl of the tags on the fields of a struct.
FieldTags(d) ==
    LET n == Len(prog.decls[d].fields)
        tags == SelectSeq([f \in 1 .. n |-> f], LAMBDA f : prog.decls[d].fields[f])
    IN [t \in DOMAIN tags |-> Annotated(d, tags[t], "exclude")]

\* OnFindInterestingDecl, and then the recursion of visitTranslationUnit into the
\* struct.  A tagged struct is given the fields of its bases and its own, each with
\* its tag, and the recursion meets its own fields' tags again.
Stored(d) ==
    LET decl == prog.decls[d]
        op == Op(Content(TagText(decl)))
        own == FieldTags(d)
        ofBases == FlattenSeq([b \in DOMAIN decl.bases |-> FieldTags(decl.bases[b])])
    IN IF decl.op = None THEN own
       ELSE <<Annotated(d, 0, op)>>
            \o (IF op = "CompileRun" \/ decl.kind # "struct" THEN <<>> ELSE ofBases \o own)
            \o own

\* StoreCompileRunDecl: only a free function whose source is one piece of a file;
\* of any other the tool says so and goes on.
StoreCompileRunDecl(d) ==
    LET decl == prog.decls[d] IN
    IF decl.op = None \/ Op(Content(TagText(decl))) # "CompileRun" THEN <<>>
    ELSE IF decl.kind # "function" \/ ~decl.spelled THEN <<>>
    ELSE <<d>>

VisitDecl ==
    /\ done = None /\ prog.seen < Len(prog.decls)
    /\ LET d == prog.seen + 1
           decl == prog.decls[d]
       IN ctx' = [annotated |-> ctx.annotated \o Stored(d),
                  functions |-> ctx.functions \o StoreCompileRunDecl(d),
                  params |-> Append(ctx.params, IF decl.op = None THEN None
                                                ELSE Params(TagText(decl)))]
    /\ prog' = [prog EXCEPT !.seen = @ + 1]
    /\ UNCHANGED <<run, told, done>>

-----------------------------------------------------------------------------
(* The functions: RunCompileRunDecls.                                       *)

Functions == {prog.decls[d] : d \in ToSet(ctx.functions)}

\* CreateCompileRunInterpreter: the sources in one module, an entry for each.
Interpreted ==
    /\ \A f \in Functions : f.builds
    /\ \A i, j \in DOMAIN ctx.functions :
          prog.decls[ctx.functions[i]].name = prog.decls[ctx.functions[j]].name => i = j

\* Nothing tagged CompileRun: straight to the generator; a module that is refused: the
\* tool ends, before anything is written.
StartRun ==
    /\ done = None /\ run.stage = "visit" /\ prog.seen = Len(prog.decls)
    /\ IF ctx.functions = <<>>
       THEN /\ done' = "generated" /\ UNCHANGED <<run, told>>
       ELSE IF ~Interpreted
       THEN /\ done' = "failed" /\ UNCHANGED <<run, told>>
       ELSE /\ run' = [stage |-> "call", decl |-> 1, entry |-> 1]
            /\ told' = [e \in DOMAIN ctx.functions |->
                           [visits |-> 0, assets |-> 0, last |-> <<>>, finals |-> 0]]
            /\ UNCHANGED done
    /\ UNCHANGED <<prog, ctx>>

\* meCompileRunSmokeTest2 counts the structs that derive from meBaseAsset directly.
IsAssetType(a) ==
    /\ a.op = "type" /\ a.field = 0 /\ prog.decls[a.of].kind = "struct"
    /\ \E b \in ToSet(prog.decls[a.of].bases) : prog.decls[b].name = BaseAsset

\* RunCompileRunStageForDecl, one entry function after the other.
CallEntry ==
    /\ run.stage = "call" /\ run.decl <= Len(ctx.annotated)
    /\ LET a == ctx.annotated[run.decl]
           last == run.entry = Len(ctx.functions)
       IN /\ told' = [told EXCEPT ![run.entry] =
                         [@ EXCEPT !.visits = @ + 1, !.last = a,
                                   !.assets = @ + (IF IsAssetType(a) THEN 1 ELSE 0)]]
          /\ run' = [run EXCEPT !.decl = IF last THEN @ + 1 ELSE @,
                                !.entry = IF last THEN 1 ELSE @ + 1]
    /\ UNCHANGED <<prog, ctx, done>>

\* The same with the null cursor; after the last function the headers are written.
Finalize ==
    /\ run.stage = "call" /\ run.decl > Len(ctx.annotated) /\ done = None
    /\ told' = [told EXCEPT ![run.entry].finals = @ + 1]
    /\ IF run.entry = Len(ctx.functions)
       THEN done' = "generated" /\ UNCHANGED run
       ELSE run' = [run EXCEPT !.entry = @ + 1] /\ UNCHANGED done
    /\ UNCHANGED <<prog, ctx>>

Next == VisitDecl \/ StartRun \/ CallEntry \/ Finalize

-----------------------------------------------------------------------------
(* Properties.                                                             *)

TypeOK ==
    /\ prog.seen = Len(ctx.params)
    /\ run.stage \in {"visit", "call"} /\ done \in {None, "failed", "generated"}
    /\ told = <<>> \/ DOMAIN told = DOMAIN ctx.functions

Times(d, field) ==
    Len(SelectSeq(ctx.annotated, LAMBDA a : a.of = d /\ a.field = field))

\* Once the program is read, a tagged struct or function is in the list once.  A tagged
\* field is in it once for the recursion, and once for each struct that is reflected
\* with it: its own and those that derive from it.
EachDeclListedOnce ==
    prog.seen = Len(prog.decls) =>
        \A d \in DOMAIN prog.decls :
            /\ Times(d, 0) = IF prog.decls[d].op = None THEN 0 ELSE 1
            /\ \A f \in DOMAIN prog.decls[d].fields :
                  prog.decls[d].fields[f] =>
                      Times(d, f) = 1 + Cardinality({x \in DOMAIN prog.decls :
                          /\ prog.decls[x].kind = "struct"
                          /\ prog.decls[x].op \notin {None, "CompileRun"}
                          /\ x = d \/ d \in ToSet(prog.decls[x].bases)})

\* When the headers are written each function tagged CompileRun has seen every tagged
\* declaration, the other functions included, and then the end once; so the smoke test
\* has counted each type of asset once, whatever fields were met again.
FunctionsSawEverything ==
    done = "generated" =>
        \A e \in DOMAIN told :
            /\ told[e].visits = Len(ctx.annotated) /\ told[e].finals = 1
            /\ told[e].last = ctx.annotated[Len(ctx.annotated)]
            /\ told[e].assets = Len(SelectSeq(prog.decls, LAMBDA x :
                   /\ x.kind = "struct" /\ x.op = "type"
                   /\ \E b \in ToSet(x.bases) : prog.decls[b].name = BaseAsset))

\* The headers are written in the end unless a function that the tool has the text of
\* is refused by the interpreter.
RefusedOnlyForFunctions ==
    done = "failed" => \/ \E f \in Functions : ~f.builds
                       \/ Len(ctx.functions) # Cardinality({f.name : f \in Functions})

\* A tag reads back as it was written, in any order of the keys, unless a quoted value
\* holds a parenthesis or a key, or Deserializer comes before Serializer or without it.
ParamsReadBack ==
    \A d \in DOMAIN ctx.params :
        LET written == prog.decls[d].written
            at(k) == {i \in DOMAIN written : written[i].key = k}
            plain == /\ \A i \in DOMAIN written :
                           ToSet(written[i].value) \intersect (Keys \union {")"}) = {}
                     /\ \A i \in at("Deserializer") : \E j \in at("Serializer") : j < i
        IN (ctx.params[d] # None /\ plain) =>
               \A k \in Keys : ctx.params[d][k] =
                   IF at(k) = {} THEN <<>> ELSE written[CHOOSE i \in at(k) : TRUE].value
=============================================================================
