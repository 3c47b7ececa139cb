--------------------------- MODULE AssetIndexProofs ---------------------------
(***************************************************************************)
(* The index of assets agrees with itself and with the files, for every    *)
(* set of ids and of names, however many dependencies are recorded and     *)
(* however often the program starts, whichever files a start skips and     *)
(* whichever writes fail.                                                  *)
(***************************************************************************)
EXTENDS AssetIndex, TLAPS

(* Two maps are each other's inverse.                                      *)
Inverses(p, q) ==
    /\ \A i \in DOMAIN p : p[i] \in DOMAIN q /\ q[p[i]] = i
    /\ \A n \in DOMAIN q : q[n] \in DOMAIN p /\ p[q[n]] = n

DepsIn(deps, id) == IF id \in DOMAIN deps THEN deps[id] ELSE <<>>

(* What the maps and the disk hold.  A file found in a subdirectory has a  *)
(* place at the top where it is looked for, empty or not.                  *)
Shape ==
    /\ \A f \in DOMAIN disk :
          f = <<f[1], f[2]>> /\ <<"top", f[2]>> \in DOMAIN disk /\ TypeKnown(f[2])
    /\ \A f \in Listed(disk) : disk[f].id \in Ids /\ disk[f].deps \in Seq(Ids)
    /\ Listed(disk) \subseteq DOMAIN seen /\ DOMAIN seen \subseteq DOMAIN disk
    /\ \A f \in DOMAIN seen : seen[f] \in Stages
    /\ writes \subseteq DOMAIN index.toPath
    /\ index = [toPath |-> index.toPath, toId |-> index.toId, deps |-> index.deps]
    /\ DOMAIN index.toPath \subseteq Ids /\ DOMAIN index.deps \subseteq Ids
    /\ \A i \in DOMAIN index.toPath : TypeKnown(index.toPath[i])
    /\ \A i \in DOMAIN index.deps : index.deps[i] \in Seq(Ids)
    /\ twice \in BOOLEAN /\ starts \in 1 .. MaxStarts

(* The index knows the file f at the top.                                  *)
Indexed(f) ==
    /\ disk[f].id \in DOMAIN index.toPath
    /\ index.toPath[disk[f].id] = f[2]
    /\ seen[f] = "read" =>
          ToSet(disk[f].deps) \subseteq ToSet(DepsIn(index.deps, disk[f].id))

Agreement ==
    ~twice => /\ Inverses(index.toPath, index.toId)
              /\ \A f \in Listed(disk) :
                    f[1] = "top" /\ seen[f] \in {"read", "written"} => Indexed(f)

Inv == Shape /\ Agreement

-----------------------------------------------------------------------------
(* An entry that contradicts neither map keeps them inverse.               *)
LEMMA InversesAfterPut ==
    ASSUME NEW p, NEW q, NEW i, NEW n, Inverses(p, q),
           i \in DOMAIN p => p[i] = n, n \in DOMAIN q => q[n] = i
    PROVE  Inverses(Put(p, i, n), Put(q, n, i))
<1> DEFINE p2 == Put(p, i, n)
           q2 == Put(q, n, i)
<1>1. /\ DOMAIN p2 = DOMAIN p \cup {i} /\ p2[i] = n
      /\ \A j \in DOMAIN p : p2[j] = p[j]
  BY DEF Put
<1>2. /\ DOMAIN q2 = DOMAIN q \cup {n} /\ q2[n] = i
      /\ \A m \in DOMAIN q : q2[m] = q[m]
  BY DEF Put
<1> HIDE DEF p2, q2
<1>3. Inverses(p2, q2)
  BY <1>1, <1>2 DEF Inverses
<1>4. QED
  BY <1>1, <1>3 DEF p2, q2

LEMMA ConcatHolds ==
    ASSUME NEW S, NEW s \in Seq(S), NEW t \in Seq(S)
    PROVE  /\ s \o t \in Seq(S)
           /\ ToSet(s) \subseteq ToSet(s \o t)
           /\ ToSet(t) \subseteq ToSet(s \o t)
<1>1. s \o t \in Seq(S) /\ Len(s \o t) = Len(s) + Len(t)
  OBVIOUS
<1>2. ASSUME NEW i \in 1 .. Len(s)
      PROVE  i \in DOMAIN (s \o t) /\ (s \o t)[i] = s[i]
  BY <1>1
<1>3. ASSUME NEW i \in 1 .. Len(t)
      PROVE  Len(s) + i \in DOMAIN (s \o t) /\ (s \o t)[Len(s) + i] = t[i]
  BY <1>1
<1>4. ToSet(s) \subseteq ToSet(s \o t)
  BY <1>2 DEF ToSet
<1>5. ToSet(t) \subseteq ToSet(s \o t)
  <2>1. SUFFICES ASSUME NEW i \in DOMAIN t
                 PROVE  t[i] \in ToSet(s \o t)
    BY DEF ToSet
  <2> DEFINE u == s \o t
  <2>2. Len(s) + i \in DOMAIN u /\ u[Len(s) + i] = t[i]
    BY <1>3
  <2> HIDE DEF u
  <2>3. t[i] \in ToSet(u)
    BY <2>2 DEF ToSet
  <2>4. QED
    BY <2>3 DEF u
<1>6. QED
  BY <1>1, <1>4, <1>5

(* Recording adds dependencies and takes none away.                        *)
DepsAfter(deps, o, d) == IF d = <<>> THEN deps ELSE Put(deps, o, DepsIn(deps, o) \o d)

LEMMA RecordedIs ==
    ASSUME NEW p, NEW q, NEW deps, NEW o, NEW d
    PROVE  Recorded([toPath |-> p, toId |-> q, deps |-> deps], o, d)
               = [toPath |-> p, toId |-> q, deps |-> DepsAfter(deps, o, d)]
<1> DEFINE x   == [toPath |-> p, toId |-> q, deps |-> deps]
           new == Put(deps, o, DepsIn(deps, o) \o d)
<1>1. CASE d = <<>>
  BY <1>1 DEF Recorded, DepsAfter
<1>2. CASE d # <<>>
  <2>1. x.deps = deps
    OBVIOUS
  <2>2. Recorded(x, o, d) = [x EXCEPT !.deps = new]
    BY <1>2, <2>1 DEF Recorded, DepsIn
  <2>3. DepsAfter(deps, o, d) = new
    BY <1>2 DEF DepsAfter
  <2> HIDE DEF new
  <2>4. [x EXCEPT !.deps = new] = [toPath |-> p, toId |-> q, deps |-> new]
    OBVIOUS
  <2>5. QED
    BY Zenon, <2>2, <2>3, <2>4
<1>3. QED
  BY <1>1, <1>2

LEMMA RecordedAdds ==
    ASSUME NEW deps, NEW o \in Ids, NEW d \in Seq(Ids),
           DOMAIN deps \subseteq Ids, \A i \in DOMAIN deps : deps[i] \in Seq(Ids)
    PROVE  LET deps2 == DepsAfter(deps, o, d)
           IN  /\ DOMAIN deps2 \subseteq Ids
               /\ \A i \in DOMAIN deps2 : deps2[i] \in Seq(Ids)
               /\ ToSet(d) \subseteq ToSet(DepsIn(deps2, o))
               /\ \A i : ToSet(DepsIn(deps, i)) \subseteq ToSet(DepsIn(deps2, i))
<1> DEFINE old == DepsIn(deps, o)
           new == Put(deps, o, old \o d)
<1>1. old \in Seq(Ids)
  BY DEF DepsIn
<1>2. CASE d = <<>>
  <2>1. DepsAfter(deps, o, d) = deps
    BY <1>2 DEF DepsAfter
  <2>2. ToSet(d) = {}
    BY <1>2 DEF ToSet
  <2>3. QED
    BY <2>1, <2>2
<1>3. CASE d # <<>>
  <2>1. DepsAfter(deps, o, d) = new
    BY <1>3 DEF DepsAfter
  <2>2. /\ DOMAIN new = DOMAIN deps \cup {o} /\ new[o] = old \o d
        /\ \A i \in DOMAIN deps : i # o => new[i] = deps[i]
    BY DEF Put
  <2> HIDE DEF new
  <2>3. old \o d \in Seq(Ids) /\ ToSet(old) \subseteq ToSet(old \o d) /\ ToSet(d) \subseteq ToSet(old \o d)
    BY <1>1, ConcatHolds
  <2>4. \A i \in DOMAIN new : new[i] \in Seq(Ids)
    BY <2>2, <2>3
  <2>5. DepsIn(new, o) = old \o d
    BY <2>2 DEF DepsIn
  <2>6. ASSUME NEW i PROVE ToSet(DepsIn(deps, i)) \subseteq ToSet(DepsIn(new, i))
    <3>1. CASE i = o
      BY <2>3, <2>5, <3>1
    <3>2. CASE i # o
      BY <2>2, <3>2 DEF DepsIn
    <3>3. QED
      BY <3>1, <3>2
  <2>7. QED
    BY <2>1, <2>2, <2>3, <2>4, <2>5, <2>6
<1>4. QED
  BY <1>2, <1>3

-----------------------------------------------------------------------------
LEMMA InitInv ==
    ASSUME Init, MaxStarts \in Nat \ {0}
    PROVE  Inv
<1>1. /\ \A f \in DOMAIN disk :
            f = <<f[1], f[2]>> /\ <<"top", f[2]>> \in DOMAIN disk /\ TypeKnown(f[2])
      /\ \A f \in Listed(disk) : disk[f].id \in Ids /\ disk[f].deps \in Seq(Ids)
  <2> DEFINE N == {n \in Names : TypeKnown(n) /\ n.base # "dot"}
             D == {<<>>} \union {<<i>> : i \in Ids}
  <2>1. disk \in [Dirs \X N -> {None} \union [id : Ids, deps : D]]
    BY DEF Init, Files
  <2>2. D \subseteq Seq(Ids)
    <3>1. <<>> \in Seq(Ids) /\ \A i \in Ids : <<i>> \in Seq(Ids)
      OBVIOUS
    <3>2. QED
      BY <3>1
  <2>3. \A n \in N : TypeKnown(n)
    OBVIOUS
  <2> HIDE DEF N, D
  <2>4. QED
    BY <2>1, <2>2, <2>3 DEF Dirs, Listed
<1>2. DOMAIN <<>> = {}
  OBVIOUS
<1>3. Shape
  <2>1. index.toPath = <<>> /\ index.toId = <<>> /\ index.deps = <<>>
    BY DEF Init, EmptyIndex
  <2>2. index = [toPath |-> index.toPath, toId |-> index.toId, deps |-> index.deps]
    BY DEF Init, EmptyIndex
  <2>3. /\ DOMAIN index.toPath = {} /\ DOMAIN index.deps = {}
        /\ DOMAIN seen = Listed(disk) /\ DOMAIN seen \subseteq DOMAIN disk
        /\ \A f \in DOMAIN seen : seen[f] = "todo" /\ seen[f] \in Stages
        /\ writes = {}
    BY <1>2, <2>1 DEF Init, Listed, Stages
  <2>4. /\ DOMAIN index.toPath \subseteq Ids /\ DOMAIN index.deps \subseteq Ids
        /\ \A i \in DOMAIN index.toPath : TypeKnown(index.toPath[i])
        /\ \A i \in DOMAIN index.deps : index.deps[i] \in Seq(Ids)
        /\ writes \subseteq DOMAIN index.toPath
        /\ Listed(disk) \subseteq DOMAIN seen /\ DOMAIN seen \subseteq DOMAIN disk
        /\ \A f \in DOMAIN seen : seen[f] \in Stages
    BY <2>3
  <2>5. twice \in BOOLEAN
    BY Zenon DEF Init
  <2>6. starts \in 1 .. MaxStarts
    BY DEF Init
  <2>7. QED
    BY Zenon, <1>1, <2>2, <2>3, <2>4, <2>5, <2>6 DEF Shape
<1>4. Agreement
  BY <1>2 DEF Init, Agreement, Inverses, EmptyIndex
<1>5. QED
  BY <1>3, <1>4 DEF Inv

(* A path and an id enter both maps: while nothing has a second name, no   *)
(* file that was known is lost.                                            *)
LEMMA RegisterInv ==
    ASSUME Inv, NEW n, NEW i \in Ids, TypeKnown(n)
    PROVE  LET x == Registered(index, n, i)
           IN  /\ x = [toPath |-> Put(index.toPath, i, n), toId |-> Put(index.toId, n, i),
                       deps |-> index.deps]
               /\ DOMAIN x.toPath = DOMAIN index.toPath \cup {i}
               /\ \A j \in DOMAIN x.toPath : TypeKnown(x.toPath[j])
               /\ ~twice /\ ~SecondName(n, i) =>
                     /\ Inverses(x.toPath, x.toId)
                     /\ i \in DOMAIN x.toPath /\ x.toPath[i] = n
                     /\ \A j \in DOMAIN index.toPath : x.toPath[j] = index.toPath[j]
<1> DEFINE p == index.toPath
           q == index.toId
           x == Registered(index, n, i)
<1>1. x = [toPath |-> Put(p, i, n), toId |-> Put(q, n, i), deps |-> index.deps]
  BY DEF Registered
<1>2. DOMAIN Put(p, i, n) = DOMAIN p \cup {i}
  BY DEF Put
<1>3. \A j \in DOMAIN Put(p, i, n) : TypeKnown(Put(p, i, n)[j])
  BY DEF Put, Inv, Shape
<1>4. ASSUME ~twice, ~SecondName(n, i)
      PROVE  /\ Inverses(Put(p, i, n), Put(q, n, i))
             /\ i \in DOMAIN Put(p, i, n) /\ Put(p, i, n)[i] = n
             /\ \A j \in DOMAIN p : Put(p, i, n)[j] = p[j]
  <2>1. Inverses(p, q)
    BY <1>4 DEF Inv, Agreement
  <2>2. i \in DOMAIN p => p[i] = n
    BY <1>4 DEF SecondName
  <2>3. n \in DOMAIN q => q[n] = i
    BY <1>4 DEF SecondName
  <2> HIDE DEF p, q, x
  <2>4. Inverses(Put(p, i, n), Put(q, n, i))
    BY Zenon, <2>1, <2>2, <2>3, InversesAfterPut
  <2>5. i \in DOMAIN Put(p, i, n) /\ Put(p, i, n)[i] = n
    BY DEF Put
  <2>6. \A j \in DOMAIN p : Put(p, i, n)[j] = p[j]
    BY <2>2 DEF Put
  <2>7. QED
    BY Zenon, <2>4, <2>5, <2>6
<1>5. x.toPath = Put(p, i, n) /\ x.toId = Put(q, n, i)
  BY <1>1
<1> HIDE DEF x, p, q
<1>6. QED
  BY <1>1, <1>2, <1>3, <1>4, <1>5 DEF x, p, q

(* A step that only adds to the index keeps what is known, if it touches    *)
(* neither the disk nor how far a file got.                                *)
LEMMA GrowthKeeps ==
    ASSUME Inv, UNCHANGED <<disk, seen>>, ~twice,
           DOMAIN index.toPath \subseteq DOMAIN index'.toPath,
           \A j \in DOMAIN index.toPath : index'.toPath[j] = index.toPath[j],
           \A i : ToSet(DepsIn(index.deps, i)) \subseteq ToSet(DepsIn(index'.deps, i))
    PROVE  \A g \in Listed(disk') :
              g[1] = "top" /\ seen'[g] \in {"read", "written"} => Indexed(g)'
<1>1. SUFFICES ASSUME NEW g \in Listed(disk'), g[1] = "top", seen'[g] \in {"read", "written"}
               PROVE  Indexed(g)'
  OBVIOUS
<1>2. Indexed(g)
  BY <1>1 DEF Inv, Agreement, Listed
<1>3. QED
  BY <1>2 DEF Indexed

(* Which files there are, and the names of what was looked at, with one     *)
(* file further on than before.                                            *)
LEMMA StageSet ==
    ASSUME Inv, NEW f \in DOMAIN seen, NEW v \in Stages, seen' = Put(seen, f, v)
    PROVE  /\ DOMAIN seen' = DOMAIN seen /\ seen'[f] = v
           /\ \A g \in DOMAIN seen : g # f => seen'[g] = seen[g]
           /\ \A g \in DOMAIN seen' : seen'[g] \in Stages
<1>1. /\ DOMAIN seen' = DOMAIN seen /\ seen'[f] = v
      /\ \A g \in DOMAIN seen : g # f => seen'[g] = seen[g]
  BY DEF Put
<1>2. QED
  BY <1>1 DEF Inv, Shape

LEMMA SkipInv ==
    ASSUME Inv, NEW f \in DOMAIN seen, Skip(f)
    PROVE  Inv'
<1>1. /\ seen' = Put(seen, f, "skipped") /\ "skipped" \in Stages
      /\ UNCHANGED <<disk, index, twice, writes, starts>>
  BY DEF Skip, Stages
<1>2. /\ DOMAIN seen' = DOMAIN seen /\ seen'[f] = "skipped"
      /\ \A g \in DOMAIN seen : g # f => seen'[g] = seen[g]
      /\ \A g \in DOMAIN seen' : seen'[g] \in Stages
  BY <1>1, StageSet
<1>3. Shape'
  BY <1>1, <1>2 DEF Inv, Shape, Listed
<1>4. ASSUME ~twice'
      PROVE  /\ Inverses(index'.toPath, index'.toId)
             /\ \A g \in Listed(disk') :
                   g[1] = "top" /\ seen'[g] \in {"read", "written"} => Indexed(g)'
  <2>1. Inverses(index'.toPath, index'.toId)
    BY <1>1, <1>4 DEF Inv, Agreement
  <2>2. ASSUME NEW g \in Listed(disk'), g[1] = "top", seen'[g] \in {"read", "written"}
        PROVE  Indexed(g)'
    <3>1. g # f /\ g \in Listed(disk) /\ seen'[g] = seen[g]
      BY <1>1, <1>2, <2>2 DEF Inv, Shape, Listed
    <3>2. Indexed(g)
      BY <1>1, <1>4, <2>2, <3>1 DEF Inv, Agreement
    <3>3. QED
      BY <1>1, <3>1, <3>2 DEF Indexed
  <2>3. QED
    BY <2>1, <2>2
<1>5. QED
  BY <1>3, <1>4 DEF Inv, Agreement

LEMMA OnFoundInv ==
    ASSUME Inv, NEW f \in DOMAIN seen, OnFound(f)
    PROVE  Inv'
<1> DEFINE n    == f[2]
           read == disk[<<"top", n>>]
<1>1. /\ seen' = Put(seen, f, "read") /\ UNCHANGED <<disk, writes, starts>>
      /\ read # None /\ "read" \in Stages
  BY DEF OnFound, Stages
<1>2. /\ DOMAIN seen' = DOMAIN seen
      /\ \A g \in DOMAIN seen : g # f => seen'[g] = seen[g]
      /\ \A g \in DOMAIN seen' : seen'[g] \in Stages
  BY <1>1, StageSet
<1>3. /\ f = <<f[1], n>> /\ <<"top", n>> \in DOMAIN disk /\ TypeKnown(n)
      /\ read.id \in Ids /\ read.deps \in Seq(Ids)
  <2>1. f \in DOMAIN disk
    BY DEF Inv, Shape
  <2>2. <<"top", n>> \in DOMAIN disk
    BY <2>1 DEF Inv, Shape
  <2>3. <<"top", n>> \in Listed(disk)
    BY <1>1, <2>2 DEF Listed
  <2>4. QED
    BY <2>1, <2>2, <2>3 DEF Inv, Shape
<1> DEFINE x == Registered(index, n, read.id)
           p == x.toPath
           q == x.toId
<1>4. /\ index' = Recorded(x, read.id, read.deps)
      /\ twice' = (twice \/ SecondName(n, read.id))
  BY DEF OnFound
<1> HIDE DEF read
<1>5. /\ x = [toPath |-> p, toId |-> q, deps |-> index.deps]
      /\ DOMAIN p = DOMAIN index.toPath \cup {read.id}
      /\ \A j \in DOMAIN p : TypeKnown(p[j])
      /\ ~twice /\ ~SecondName(n, read.id) =>
            /\ Inverses(p, q)
            /\ read.id \in DOMAIN p /\ p[read.id] = n
            /\ \A j \in DOMAIN index.toPath : p[j] = index.toPath[j]
  BY <1>3, RegisterInv
<1> HIDE DEF x, p, q
<1> DEFINE d     == index.deps
           deps2 == DepsAfter(d, read.id, read.deps)
<1>6. /\ Recorded(x, read.id, read.deps) = [toPath |-> p, toId |-> q, deps |-> deps2]
      /\ DOMAIN deps2 \subseteq Ids
      /\ \A i \in DOMAIN deps2 : deps2[i] \in Seq(Ids)
      /\ ToSet(read.deps) \subseteq ToSet(DepsIn(deps2, read.id))
      /\ \A i : ToSet(DepsIn(d, i)) \subseteq ToSet(DepsIn(deps2, i))
  <2>1. /\ DOMAIN d \subseteq Ids /\ \A i \in DOMAIN d : d[i] \in Seq(Ids)
        /\ x = [toPath |-> p, toId |-> q, deps |-> d]
    BY <1>5 DEF Inv, Shape
  <2> HIDE DEF d
  <2>2. Recorded(x, read.id, read.deps) = [toPath |-> p, toId |-> q, deps |-> deps2]
    <3>1. Recorded([toPath |-> p, toId |-> q, deps |-> d], read.id, read.deps)
              = [toPath |-> p, toId |-> q, deps |-> deps2]
      BY RecordedIs
    <3>2. QED
      BY <2>1, <3>1
  <2>3. QED
    BY Zenon, <1>3, <2>1, <2>2, RecordedAdds
<1> HIDE DEF deps2
<1>7. /\ index' = [toPath |-> index'.toPath, toId |-> index'.toId, deps |-> index'.deps]
      /\ index'.toPath = p /\ index'.toId = q /\ index'.deps = deps2
  BY <1>4, <1>6
<1>8. Shape'
  <2>1. DOMAIN index'.toPath \subseteq Ids /\ writes' \subseteq DOMAIN index'.toPath
    BY <1>1, <1>3, <1>5, <1>7 DEF Inv, Shape
  <2>2. twice' \in BOOLEAN
    BY <1>4 DEF Inv, Shape, SecondName
  <2>3. QED
    BY <1>1, <1>2, <1>5, <1>6, <1>7, <2>1, <2>2 DEF Inv, Shape, Listed
<1>9. ASSUME ~twice'
      PROVE  /\ Inverses(index'.toPath, index'.toId)
             /\ \A g \in Listed(disk') :
                   g[1] = "top" /\ seen'[g] \in {"read", "written"} => Indexed(g)'
  <2>1. ~twice /\ ~SecondName(n, read.id)
    BY <1>4, <1>9
  <2>2. Inverses(index'.toPath, index'.toId)
    BY <1>5, <1>7, <2>1
  <2>3. ASSUME NEW g \in Listed(disk'), g[1] = "top", seen'[g] \in {"read", "written"}
        PROVE  Indexed(g)'
    <3>1. g \in Listed(disk) /\ g \in DOMAIN seen
      BY <1>1, <2>3 DEF Inv, Shape, Listed
    <3>2. CASE g = f
      <4>1. disk'[g] = read
        BY <1>1, <1>3, <2>3, <3>2 DEF read
      <4>2. QED
        BY <1>5, <1>6, <1>7, <2>1, <3>2, <4>1 DEF Indexed
    <3>3. CASE g # f
      <4>1. Indexed(g) /\ seen'[g] = seen[g]
        BY <1>2, <2>1, <2>3, <3>1, <3>3 DEF Inv, Agreement
      <4>2. QED
        BY <1>1, <1>5, <1>6, <1>7, <2>1, <4>1 DEF Indexed
    <3>4. QED
      BY <3>2, <3>3
  <2>4. QED
    BY <2>2, <2>3
<1>10. QED
  BY <1>8, <1>9 DEF Inv, Agreement

(* The path that a save or a new asset registers has the good extension.   *)
LEMMA GoodExtension ==
    ASSUME NEW n
    PROVE  /\ TypeKnown(EnsureExtension(n))
           /\ TypeKnown(n) => EnsureExtension(n) = n
  BY DEF EnsureExtension, TypeKnown

(* A path registered while the program runs, for an asset whose write is    *)
(* queued with it.                                                         *)
LEMMA QueueInv ==
    ASSUME Inv, NEW n, NEW id \in Ids, TypeKnown(n), UNCHANGED <<disk, seen, starts>>,
           index' = Registered(index, n, id), twice' = (twice \/ SecondName(n, id)),
           writes' = writes \cup {id}
    PROVE  Inv'
<1> DEFINE x == Registered(index, n, id)
           p == x.toPath
           q == x.toId
<1>1. /\ x = [toPath |-> p, toId |-> q, deps |-> index.deps]
      /\ DOMAIN p = DOMAIN index.toPath \cup {id}
      /\ \A j \in DOMAIN p : TypeKnown(p[j])
      /\ ~twice /\ ~SecondName(n, id) =>
            /\ Inverses(p, q)
            /\ id \in DOMAIN p /\ p[id] = n
            /\ \A j \in DOMAIN index.toPath : p[j] = index.toPath[j]
  BY RegisterInv
<1>2. index' = x
  OBVIOUS
<1> HIDE DEF x, p, q
<1>3. /\ index' = [toPath |-> index'.toPath, toId |-> index'.toId, deps |-> index'.deps]
      /\ index'.toPath = p /\ index'.toId = q /\ index'.deps = index.deps
  BY <1>1, <1>2
<1>4. Shape'
  <2>1. DOMAIN index'.toPath \subseteq Ids /\ writes' \subseteq DOMAIN index'.toPath
    BY <1>1, <1>3 DEF Inv, Shape
  <2>2. twice' \in BOOLEAN
    BY DEF Inv, Shape, SecondName
  <2>3. QED
    BY <1>1, <1>3, <2>1, <2>2 DEF Inv, Shape, Listed
<1>5. ASSUME ~twice'
      PROVE  /\ Inverses(index'.toPath, index'.toId)
             /\ \A g \in Listed(disk') :
                   g[1] = "top" /\ seen'[g] \in {"read", "written"} => Indexed(g)'
  <2>1. ~twice /\ ~SecondName(n, id)
    BY <1>5
  <2>2. QED
    BY <1>1, <1>3, <2>1, GrowthKeeps
<1>6. QED
  BY <1>4, <1>5 DEF Inv, Agreement

LEMMA NewAssetInv ==
    ASSUME Inv, NEW name, NEW id \in Ids, NewAsset(name, id)
    PROVE  Inv'
<1> DEFINE n == EnsureExtension(name)
<1>1. TypeKnown(n)
  BY GoodExtension
<1>2. /\ index' = Registered(index, n, id) /\ twice' = (twice \/ SecondName(n, id))
      /\ writes' = writes \cup {id} /\ UNCHANGED <<disk, seen, starts>>
  BY DEF NewAsset
<1> HIDE DEF n
<1>3. QED
  BY <1>1, <1>2, QueueInv

LEMMA SaveAssetInv ==
    ASSUME Inv, NEW id \in Ids, SaveAsset(id)
    PROVE  Inv'
<1> DEFINE n == EnsureExtension(FilesystemPath(id))
<1>1. TypeKnown(n)
  BY GoodExtension
<1>2. /\ index' = Registered(index, n, id) /\ twice' = (twice \/ SecondName(n, id))
      /\ writes' = writes \cup {id} /\ UNCHANGED <<disk, seen, starts>>
  BY DEF SaveAsset
<1> HIDE DEF n
<1>3. QED
  BY <1>1, <1>2, QueueInv

(* A write changes what the asset's own file holds, and no other file.     *)
LEMMA WriteAssetInv ==
    ASSUME Inv, NEW id \in Ids, NEW deps \in Seq(Ids), WriteAsset(id, deps)
    PROVE  Inv'
<1> DEFINE n == FilesystemPath(id)
           w == [id |-> id, deps |-> deps]
           f == <<"top", n>>
<1>1. id \in DOMAIN index.toPath /\ n = index.toPath[id] /\ TypeKnown(n)
  BY DEF WriteAsset, Inv, Shape, FilesystemPath
<1>2. /\ UNCHANGED <<index, twice, starts>> /\ writes' = writes \ {id}
      /\ disk' = Put(disk, f, w) /\ seen' = Put(seen, f, "written") /\ "written" \in Stages
  BY DEF WriteAsset, Stages
<1>3. /\ DOMAIN disk' = DOMAIN disk \cup {f} /\ disk'[f] = w
      /\ \A g \in DOMAIN disk : g # f => disk'[g] = disk[g]
      /\ w.id = id /\ w.deps = deps /\ f[1] = "top" /\ f[2] = n
  BY <1>2 DEF Put
<1>4. /\ DOMAIN seen' = DOMAIN seen \cup {f} /\ seen'[f] = "written"
      /\ \A g \in DOMAIN seen : g # f => seen'[g] = seen[g]
  BY <1>2 DEF Put
<1>5. f = <<f[1], f[2]>> /\ <<"top", f[2]>> = f
  OBVIOUS
<1> HIDE DEF n, f, w
<1>6. \A g \in Listed(disk') : g = f \/ (g # f /\ g \in Listed(disk) /\ disk'[g] = disk[g])
  BY <1>3 DEF Listed
<1>7. Shape'
  <2>1. \A g \in DOMAIN disk' :
            g = <<g[1], g[2]>> /\ <<"top", g[2]>> \in DOMAIN disk' /\ TypeKnown(g[2])
    BY <1>1, <1>3, <1>5 DEF Inv, Shape
  <2>2. \A g \in Listed(disk') : disk'[g].id \in Ids /\ disk'[g].deps \in Seq(Ids)
    BY <1>3, <1>6 DEF Inv, Shape
  <2>3. /\ Listed(disk') \subseteq DOMAIN seen' /\ DOMAIN seen' \subseteq DOMAIN disk'
        /\ \A g \in DOMAIN seen' : seen'[g] \in Stages
    BY <1>2, <1>3, <1>4, <1>6 DEF Inv, Shape
  <2>4. QED
    BY <1>2, <2>1, <2>2, <2>3 DEF Inv, Shape
<1>8. ASSUME ~twice'
      PROVE  /\ Inverses(index'.toPath, index'.toId)
             /\ \A g \in Listed(disk') :
                   g[1] = "top" /\ seen'[g] \in {"read", "written"} => Indexed(g)'
  <2>1. Inverses(index'.toPath, index'.toId)
    BY <1>2, <1>8 DEF Inv, Agreement
  <2>2. ASSUME NEW g \in Listed(disk'), g[1] = "top", seen'[g] \in {"read", "written"}
        PROVE  Indexed(g)'
    <3>1. CASE g = f
      BY <1>1, <1>2, <1>3, <1>4, <3>1 DEF Indexed
    <3>2. CASE g # f
      <4>1. g \in Listed(disk) /\ disk'[g] = disk[g] /\ seen'[g] = seen[g]
        BY <1>4, <1>6, <2>2, <3>2 DEF Inv, Shape
      <4>2. Indexed(g)
        BY <1>2, <1>8, <2>2, <4>1 DEF Inv, Agreement
      <4>3. QED
        BY <1>2, <4>1, <4>2 DEF Indexed
    <3>3. QED
      BY <3>1, <3>2
  <2>3. QED
    BY <2>1, <2>2
<1>9. QED
  BY <1>7, <1>8 DEF Inv, Agreement

LEMMA WriteFailsInv ==
    ASSUME Inv, NEW id, WriteFails(id)
    PROVE  Inv'
<1>1. UNCHANGED <<disk, seen, index, twice, starts>> /\ writes' \subseteq writes
  BY DEF WriteFails
<1>2. QED
  BY <1>1 DEF Inv, Shape, Agreement, Indexed, Listed

LEMMA RecordDependencyInv ==
    ASSUME Inv, NEW owner \in Ids, NEW dep \in Ids, RecordDependency(owner, dep)
    PROVE  Inv'
<1> DEFINE p     == index.toPath
           q     == index.toId
           d     == index.deps
           deps2 == DepsAfter(d, owner, <<dep>>)
<1>1. /\ UNCHANGED <<disk, seen, twice, writes, starts>>
      /\ index' = Recorded(index, owner, <<dep>>)
  BY DEF RecordDependency
<1>2. /\ DOMAIN d \subseteq Ids /\ \A i \in DOMAIN d : d[i] \in Seq(Ids)
      /\ index = [toPath |-> p, toId |-> q, deps |-> d]
      /\ <<dep>> \in Seq(Ids)
  BY DEF Inv, Shape
<1> HIDE DEF p, q, d
<1>3. /\ DOMAIN deps2 \subseteq Ids
      /\ \A i \in DOMAIN deps2 : deps2[i] \in Seq(Ids)
      /\ \A i : ToSet(DepsIn(d, i)) \subseteq ToSet(DepsIn(deps2, i))
  BY <1>2, RecordedAdds
<1>4. index' = [toPath |-> p, toId |-> q, deps |-> deps2]
  <2>1. Recorded([toPath |-> p, toId |-> q, deps |-> d], owner, <<dep>>)
            = [toPath |-> p, toId |-> q, deps |-> deps2]
    BY RecordedIs
  <2>2. QED
    BY <1>1, <1>2, <2>1
<1> HIDE DEF deps2
<1>5. /\ index' = [toPath |-> index'.toPath, toId |-> index'.toId, deps |-> index'.deps]
      /\ index'.toPath = index.toPath /\ index'.toId = index.toId /\ index'.deps = deps2
  BY <1>4 DEF p, q
<1>6. Shape'
  BY <1>1, <1>3, <1>5 DEF Inv, Shape, Listed
<1>7. ASSUME ~twice'
      PROVE  /\ Inverses(index'.toPath, index'.toId)
             /\ \A g \in Listed(disk') :
                   g[1] = "top" /\ seen'[g] \in {"read", "written"} => Indexed(g)'
  <2>1. Inverses(index'.toPath, index'.toId)
    BY <1>1, <1>5, <1>7 DEF Inv, Agreement
  <2>2. \A i : ToSet(DepsIn(index.deps, i)) \subseteq ToSet(DepsIn(index'.deps, i))
    BY <1>3, <1>5 DEF d
  <2>3. QED
    BY <1>1, <1>5, <1>7, <2>1, <2>2, GrowthKeeps
<1>8. QED
  BY <1>6, <1>7 DEF Inv, Agreement

(* A restart forgets the index, and has every file before it.              *)
LEMMA RestartInv ==
    ASSUME Inv, MaxStarts \in Nat \ {0}, Restart
    PROVE  Inv'
<1>1. /\ disk' = disk /\ seen' = [f \in Listed(disk) |-> "todo"] /\ index' = EmptyIndex
      /\ writes' = {}
      /\ starts' = starts + 1 /\ starts < MaxStarts
  BY DEF Restart
<1>2. twice' \in BOOLEAN
  BY Zenon DEF Restart
<1>3. /\ index' = [toPath |-> index'.toPath, toId |-> index'.toId, deps |-> index'.deps]
      /\ DOMAIN index'.toPath = {} /\ DOMAIN index'.toId = {} /\ DOMAIN index'.deps = {}
  <2>1. /\ index'.toPath = <<>> /\ index'.toId = <<>> /\ index'.deps = <<>>
        /\ index' = [toPath |-> index'.toPath, toId |-> index'.toId, deps |-> index'.deps]
    BY <1>1 DEF EmptyIndex
  <2>2. DOMAIN <<>> = {}
    OBVIOUS
  <2>3. QED
    BY <2>1, <2>2
<1>4. Shape'
  <2>1. /\ DOMAIN index'.toPath \subseteq Ids /\ DOMAIN index'.deps \subseteq Ids
        /\ \A i \in DOMAIN index'.toPath : TypeKnown(index'.toPath[i])
        /\ \A i \in DOMAIN index'.deps : index'.deps[i] \in Seq(Ids)
        /\ writes' \subseteq DOMAIN index'.toPath
    BY <1>1, <1>3
  <2>2. /\ Listed(disk') \subseteq DOMAIN seen' /\ DOMAIN seen' \subseteq DOMAIN disk'
        /\ \A f \in DOMAIN seen' : seen'[f] \in Stages
        /\ starts' \in 1 .. MaxStarts
    BY <1>1 DEF Inv, Shape, Listed, Stages
  <2>3. /\ \A f \in DOMAIN disk' :
              f = <<f[1], f[2]>> /\ <<"top", f[2]>> \in DOMAIN disk' /\ TypeKnown(f[2])
        /\ \A f \in Listed(disk') : disk'[f].id \in Ids /\ disk'[f].deps \in Seq(Ids)
    BY <1>1 DEF Inv, Shape, Listed
  <2>4. QED
    BY Zenon, <1>2, <1>3, <2>1, <2>2, <2>3 DEF Shape
<1>5. Agreement'
  <2>1. Inverses(index'.toPath, index'.toId)
    BY <1>3 DEF Inverses
  <2>2. \A f \in Listed(disk') : seen'[f] = "todo"
    BY <1>1
  <2>3. QED
    BY <2>1, <2>2 DEF Agreement
<1>6. QED
  BY <1>4, <1>5 DEF Inv

LEMMA InvStep ==
    ASSUME Inv, MaxStarts \in Nat \ {0}, [Next]_vars
    PROVE  Inv'
<1>1. ASSUME NEW f \in DOMAIN seen, OnFound(f) \/ Skip(f) PROVE Inv'
  BY <1>1, OnFoundInv, SkipInv
<1>2. ASSUME NEW n \in Names, NEW i \in Ids, NewAsset(n, i) PROVE Inv'
  BY <1>2, NewAssetInv
<1>3. ASSUME NEW i \in Ids, SaveAsset(i) \/ WriteFails(i) PROVE Inv'
  BY <1>3, SaveAssetInv, WriteFailsInv
<1>4. ASSUME NEW i \in Ids, NEW deps \in {<<>>} \union {<<d>> : d \in Ids}, WriteAsset(i, deps)
      PROVE  Inv'
  <2>1. <<>> \in Seq(Ids) /\ \A d \in Ids : <<d>> \in Seq(Ids)
    OBVIOUS
  <2>2. deps \in Seq(Ids)
    BY <2>1
  <2>3. QED
    BY <1>4, <2>2, WriteAssetInv
<1>5. ASSUME NEW i \in Ids, NEW d \in Ids, RecordDependency(i, d) PROVE Inv'
  BY <1>5, RecordDependencyInv
<1>6. CASE Restart
  BY <1>6, RestartInv
<1>7. CASE UNCHANGED vars
  BY <1>7 DEF vars, Inv, Shape, Agreement, Indexed, Listed
<1>8. QED
  BY <1>1, <1>2, <1>3, <1>4, <1>5, <1>6, <1>7 DEF Next

(* The invariant says it of the maps, the index of its two look-ups.       *)
LEMMA InvAgrees == Inv => IndexAgrees
<1> SUFFICES ASSUME Inv PROVE IndexAgrees
  OBVIOUS
<1>1. \A i \in DOMAIN index.toPath : EnsureExtension(index.toPath[i]) = index.toPath[i]
  BY GoodExtension DEF Inv, Shape
<1>2. ASSUME ~twice
      PROVE  /\ \A i \in DOMAIN index.toPath : MAIDFromPath(FilesystemPath(i)) = i
             /\ \A n \in DOMAIN index.toId : FilesystemPath(MAIDFromPath(n)) = n
  BY <1>2 DEF Inv, Agreement, Inverses, MAIDFromPath, FilesystemPath
<1>3. ASSUME ~twice, NEW f \in Listed(disk), f[1] = "top", seen[f] \in {"read", "written"}
      PROVE  /\ FilesystemPath(disk[f].id) = f[2]
             /\ seen[f] = "read" =>
                   ToSet(disk[f].deps) \subseteq ToSet(Dependencies(disk[f].id))
  <2>1. Indexed(f)
    BY <1>3 DEF Inv, Agreement
  <2>2. QED
    BY <2>1 DEF Indexed, FilesystemPath, Dependencies, DepsIn
<1>4. QED
  BY <1>1, <1>2, <1>3 DEF IndexAgrees

-----------------------------------------------------------------------------
(* The inductive invariant holds for every set of names and of ids.        *)
THEOREM IndexInvariant ==
    ASSUME MaxStarts \in Nat \ {0}
    PROVE  Spec => []Inv
  BY InitInv, InvStep, PTL DEF Spec

(* The maps name known ids and paths of a known type, the start looks only  *)
(* at files that are there, and a write is queued only for a known path.   *)
THEOREM IndexTypeOK ==
    ASSUME MaxStarts \in Nat \ {0}
    PROVE  Spec => []TypeOK
<1>1. Inv => TypeOK
  BY DEF Inv, Shape, TypeOK
<1>2. QED
  BY <1>1, IndexInvariant, PTL

(* A save moves no asset; and unless an id has two names or a name two ids, *)
(* the two maps are inverse and every asset file at the top that the start  *)
(* read, in whatever order, or that was written since is known under its    *)
(* id, with the dependencies its header had at the start.                  *)
THEOREM IndexAgreesWithFiles ==
    ASSUME MaxStarts \in Nat \ {0}
    PROVE  Spec => []IndexAgrees
  BY InvAgrees, IndexInvariant, PTL
=============================================================================
