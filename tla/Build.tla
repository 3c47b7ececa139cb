------------------------------- MODULE Build -------------------------------
(***************************************************************************)
(* src/me_build.cpp with tools/ninja_generate.h, and the run of the         *)
(* reflector (main and WriteGeneratedFile of me_reflector.cpp) inside it:   *)
(* ninja runs the reflector if a header changed, its manifest says which    *)
(* files it made, the engine is compiled with those, then the app, of which *)
(* a copy is what the driver loads.  A build can fail or be interrupted at  *)
(* any point, and headers can be edited while it runs.                     *)
(*                                                                         *)
(* Ninja is given: it runs an edge if an output is missing or not in its    *)
(* log, or if an input is not as it was when the edge last ran with         *)
(* success; it removes what an interrupted edge was writing.               *)
(***************************************************************************)
EXTENDS Integers, FiniteSets

CONSTANTS
    Headers,      \* headers with reflected types
    MaxVersion,   \* bound of the instance on the edits of a header, and of the app
    None

VARIABLES
    src,   \* version of each header and of the app, and the headers that are removed
    gen,   \* per header: the version its generated file is of, 0 if none, or Part
    log,   \* stamp, manifest, and what ninja's log says of the reflection
    bin,   \* what the engine, testbed.dll and the copy that is loaded were made of
    me     \* the build in progress

vars == <<src, gen, log, bin, me>>

\* A generated file that was cut short.
Part == MaxVersion + 1

Existing   == Headers \ src.gone
Snapshot(S) == [h \in S |-> src.h[h]]
AppContent == [app |-> src.app, h |-> Snapshot(Existing)]

Idle   == [at |-> "idle"]
NoLog  == [stamp |-> FALSE, manifest |-> None, inputs |-> None, outs |-> {}]
NoBin  == [engine |-> None, dll |-> None, copy |-> None, behind |-> FALSE]
Made   == IF log.manifest = None THEN {} ELSE log.manifest   \* lines(manifest)

Init ==
    /\ src = [h |-> [h \in Headers |-> 1], app |-> 1, gone |-> {}]
    /\ gen = [h \in Headers |-> 0]
    /\ log = NoLog /\ bin = NoBin /\ me = Idle

Edited == me' = IF me.at \in {"idle", "done"} THEN Idle ELSE [me EXCEPT !.edited = TRUE]

\* A header gets new contents, or comes back with them: a version is never seen twice.
EditHeader(h) ==
    /\ src.h[h] < MaxVersion
    /\ src' = [src EXCEPT !.h[h] = @ + 1, !.gone = @ \ {h}]
    /\ Edited
    /\ UNCHANGED <<gen, log, bin>>

RemoveHeader(h) ==
    /\ src' = [src EXCEPT !.gone = @ \union {h}]
    /\ h \in Existing /\ Edited
    /\ UNCHANGED <<gen, log, bin>>

EditApp ==
    /\ src.app < MaxVersion
    /\ src' = [src EXCEPT !.app = @ + 1]
    /\ Edited
    /\ UNCHANGED <<gen, log, bin>>

-----------------------------------------------------------------------------

\* The files are collected and the graph of the reflection is written; the option
\* "reflect" removes the stamp.
Start(reflect) ==
    /\ me.at \in {"idle", "done"}
    /\ log' = [log EXCEPT !.stamp = @ /\ ~reflect]
    /\ me' = [at |-> "first", files |-> Existing, outs |-> Made, edited |-> FALSE,
              seen |-> <<>>, todo |-> {}, bad |-> FALSE]
    /\ UNCHANGED <<src, gen, bin>>

ReflectDirty ==
    \/ ~log.stamp \/ log.manifest = None \/ log.inputs = None
    \/ ~(me.outs \subseteq log.outs)
    \/ \E h \in me.outs : gen[h] = 0
    \/ log.inputs # Snapshot(me.files)

Fail == me' = Idle

\* The reflector parses the headers that Reflector.h names; an error in one ends it.
RunReflector ==
    /\ me.at \in {"first", "main"} /\ ReflectDirty
    /\ \/ Fail
       \/ /\ me.files \subseteq Existing
          /\ me' = [me EXCEPT !.at = IF @ = "first" THEN "write1" ELSE "write2",
                              !.seen = Snapshot(me.files), !.todo = me.files,
                              !.bad = FALSE]
    /\ UNCHANGED <<src, gen, log, bin>>

\* WriteGeneratedFile leaves a file that is the same; a write that fails has cut the
\* file, and the reflector goes on with the others.
WriteGenerated(h) ==
    /\ me.at \in {"write1", "write2"} /\ h \in me.todo
    /\ LET v == me.seen[h]
       IN  \/ /\ gen' = [gen EXCEPT ![h] = v]
              /\ me' = [me EXCEPT !.todo = @ \ {h}]
           \/ /\ gen[h] # v
              /\ gen' = [gen EXCEPT ![h] = Part]
              /\ me' = [me EXCEPT !.todo = @ \ {h}, !.bad = TRUE]
    /\ UNCHANGED <<src, log, bin>>

\* Mutant: the manifest and the stamp are written whatever became of the files.
StampAnyway ==
    /\ me.at \in {"write1", "write2"} /\ me.todo = {}
    /\ log' = [stamp |-> TRUE, manifest |-> me.files, inputs |-> me.seen, outs |-> me.outs]
    /\ me' = [me EXCEPT !.at = IF @ = "write1" THEN "second" ELSE "compile"]
    /\ UNCHANGED <<src, gen, bin>>

\* The manifest is written if all went well, then the stamp.
EndReflector ==
    /\ me.at \in {"write1", "write2"} /\ me.todo = {}
    /\ IF me.bad
       THEN Fail /\ UNCHANGED log
       ELSE /\ log' = [stamp |-> TRUE, manifest |-> me.files,
                       inputs |-> me.seen, outs |-> me.outs]
            /\ me' = [me EXCEPT !.at = IF @ = "write1" THEN "second" ELSE "compile"]
    /\ UNCHANGED <<src, gen, bin>>

ReflectClean ==
    /\ me.at \in {"first", "main"} /\ ~ReflectDirty
    /\ me' = [me EXCEPT !.at = IF @ = "first" THEN "second" ELSE "compile"]
    /\ UNCHANGED <<src, gen, log, bin>>

\* The graph of the build has the outputs that the reflection may just have changed.
SecondGraph ==
    /\ me.at = "second"
    /\ me' = [me EXCEPT !.at = "main", !.outs = Made]
    /\ UNCHANGED <<src, gen, log, bin>>

\* The engine with the generated sources, then the app, and the driver beside it: each may
\* fail to compile.  Ninja has then linked what came before; the app it linked is not copied,
\* and no later build sees a change in it.
Compile ==
    /\ me.at = "compile"
    /\ LET engine == [h \in me.outs |-> gen[h]]
       IN  \/ Fail /\ UNCHANGED bin
           \/ Fail /\ bin' = [bin EXCEPT !.engine = engine]
           \/ /\ bin' = [bin EXCEPT !.engine = engine, !.dll = AppContent,
                                    !.behind = @ \/ bin.dll # AppContent]
              /\ Fail
           \/ /\ bin' = [bin EXCEPT !.engine = engine, !.dll = AppContent]
              /\ me' = [me EXCEPT !.at = IF bin.dll = AppContent THEN "done" ELSE "copies"]
    /\ UNCHANGED <<src, gen, log>>

\* The copies of earlier hot reloads are removed, which fails for one that is loaded,
\* and the first one is made again.
Copies ==
    /\ me.at = "copies"
    /\ \/ /\ bin' = [bin EXCEPT !.copy = bin.dll, !.behind = FALSE]
          /\ me' = [me EXCEPT !.at = "done"]
       \/ /\ \E c \in {None, bin.copy} :
                bin' = [bin EXCEPT !.copy = c, !.behind = TRUE]
          /\ Fail
    /\ UNCHANGED <<src, gen, log>>

\* "app-only", for a hot reload: no reflection, and the copy is the caller's business.
AppOnly ==
    /\ me.at \in {"idle", "done"} /\ bin.engine # None
    /\ \/ /\ bin' = [bin EXCEPT !.dll = AppContent, !.behind = @ \/ bin.dll # AppContent]
       \/ UNCHANGED bin
    /\ me' = Idle
    /\ UNCHANGED <<src, gen, log>>

\* "clean" removes build, then the generated files, and ends at the first failure.
Clean ==
    /\ me.at \in {"idle", "done"}
    /\ \/ /\ log' = NoLog /\ bin' = NoBin
          /\ gen' = [h \in Headers |-> 0]
       \/ /\ \E l \in {NoLog, [log EXCEPT !.stamp = FALSE]}, b \in {bin, NoBin} : log' = l /\ bin' = b
          /\ UNCHANGED gen
    /\ me' = Idle
    /\ UNCHANGED src

\* Ninja removes those of the interrupted edge's outputs that it has touched.
Interrupt ==
    /\ me.at \notin {"idle", "done"}
    /\ IF me.at \in {"write1", "write2"}
       THEN \E h \in me.todo \union {None} :
               gen' = [x \in Headers |->
                         IF x \in me.outs /\ (x = h \/ gen[x] = Part) THEN 0
                         ELSE IF x = h THEN Part ELSE gen[x]]
       ELSE UNCHANGED gen
    /\ bin' = [bin EXCEPT !.behind = @ \/ me.at = "copies"]
    /\ me' = Idle
    /\ UNCHANGED <<src, log>>

Next ==
    \/ \E h \in Headers : EditHeader(h) \/ RemoveHeader(h)
    \/ EditApp
    \/ \E reflect \in BOOLEAN : Start(reflect)
    \/ \E h \in Headers : WriteGenerated(h)
    \/ RunReflector \/ EndReflector \/ ReflectClean \/ SecondGraph
    \/ Compile \/ Copies \/ AppOnly \/ Clean \/ Interrupt

Spec == Init /\ [][Next]_vars

-----------------------------------------------------------------------------

TypeOK ==
    /\ src.app \in 1 .. MaxVersion
    /\ \A h \in Headers : src.h[h] \in 1 .. MaxVersion /\ gen[h] \in 0 .. Part
    /\ Made \subseteq Headers /\ log.stamp \in BOOLEAN

\* A build that succeeds, and during which nothing was edited, whatever earlier builds
\* failed or were cut short, has an engine with the current types of exactly the
\* headers there are and an app of the current sources; the copy that the driver loads
\* is that app, unless a build before it linked that app and left the copy as it was: a
\* hot reload's, one whose driver failed, or one that could not copy.
BuildUpToDate ==
    (me.at = "done" /\ ~me.edited) =>
        /\ bin.engine = Snapshot(Existing)
        /\ bin.dll = AppContent
        /\ bin.behind \/ bin.copy = bin.dll

\* README.md:71-72 has the driver load a copy of the app as it was compiled last: after a
\* build that succeeds, and during which nothing was edited, the copy is that app.
CopyIsCurrent == (me.at = "done" /\ ~me.edited) => bin.copy = bin.dll
=============================================================================
