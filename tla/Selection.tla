------------------------------- MODULE Selection -------------------------------
(***************************************************************************)
(* Picking entities in the editor: the pick command (core/me_command.cpp),  *)
(* the highlight of the selected entity's material, and the inspectors      *)
(* (editor/me_editor.cpp). What the ray hits is external.                   *)
(***************************************************************************)
EXTENDS Integers, Sequences

CONSTANTS Insts,     \* instances of entities, by number from 1
          InstId,    \* InstId[i]: the template of instance i
          Materials,
          MaxQueue,  \* bound: commands waiting
          None

VARIABLES queue,  \* the pick commands in externalCommandQueue
          sel,    \* the selected entity, the materials entities show, those lit
          insp    \* the inspector windows

vars == <<queue, sel, insp>>

Instance(i) == [id |-> InstId[i], h |-> i]

Init == /\ queue = <<>>
        /\ \E look \in [Insts -> Materials] :
              sel = [who |-> None, look |-> look, lit |-> {}, touched |-> FALSE]
        /\ insp = <<>>

Pick(hit) ==
    /\ Len(queue) < MaxQueue
    /\ queue' = Append(queue, hit)
    /\ UNCHANGED <<sel, insp>>

\* meEditorOnEntitySelect lights or dims the material the entity shows.
Lit(lit, i, on) == IF i = None THEN lit
                   ELSE IF on THEN lit \union {sel.look[i]} ELSE lit \ {sel.look[i]}

\* Mutant: the entity that is left is dimmed after the new one is lit.
ChosenLast(hit) ==
    IF sel.who = hit THEN sel
    ELSE [sel EXCEPT !.who = hit, !.lit = Lit(Lit(@, hit, TRUE), sel.who, FALSE)]

Chosen(hit) ==
    IF sel.who = hit THEN sel
    ELSE [sel EXCEPT !.who = hit, !.lit = Lit(Lit(@, sel.who, FALSE), hit, TRUE)]

\* FindInspectorForAsset, by the template's id.
Inspected(hit) ==
    LET there == {n \in 1 .. Len(insp) : insp[n].asset.id = InstId[hit]}
        window == [active |-> TRUE, asset |-> Instance(hit)] IN
    IF there = {} THEN Append(insp, window)
    ELSE [insp EXCEPT ![CHOOSE n \in there : \A m \in there : n <= m] = window]

HandlePickEntity ==
    /\ queue # <<>>
    /\ queue' = Tail(queue)
    /\ LET hit == Head(queue) IN
        /\ sel' = Chosen(hit)
        /\ insp' = IF hit = None THEN insp ELSE Inspected(hit)

\* An inspector changes what an entity shows; a dim material is not lit by it.
Remodel(i, m) ==
    /\ m # sel.look[i]
    /\ \E n \in 1 .. Len(insp) : insp[n].active /\ insp[n].asset = Instance(i)
    /\ sel' = [sel EXCEPT !.look[i] = m, !.touched = @ \/ i = sel.who]
    /\ UNCHANGED <<queue, insp>>

CloseInspector(n) ==
    /\ n \in 1 .. Len(insp) /\ insp[n].active
    /\ insp' = [insp EXCEPT ![n].active = FALSE]
    /\ UNCHANGED <<queue, sel>>

Next == \/ HandlePickEntity
        \/ \E hit \in Insts \union {None} : Pick(hit)
        \/ \E i \in Insts, m \in Materials : Remodel(i, m)
        \/ \E n \in 1 .. Len(insp) : CloseInspector(n)

-----------------------------------------------------------------------------
TypeOK == /\ Len(queue) <= MaxQueue
          /\ sel.who \in Insts \union {None} /\ sel.lit \subseteq Materials

\* The one material that is lit is the selected entity's, also when two entities
\* share a material, as long as no selected entity was given another one.
LitIsSelected ==
    ~sel.touched => sel.lit = IF sel.who = None THEN {} ELSE {sel.look[sel.who]}

\* One inspector window per asset id, and the selected entity has one.
OneInspectorPerAsset ==
    /\ \A n, k \in 1 .. Len(insp) : insp[n].asset.id = insp[k].asset.id => n = k
    /\ sel.who # None => \E n \in 1 .. Len(insp) : insp[n].asset = Instance(sel.who)
=============================================================================
