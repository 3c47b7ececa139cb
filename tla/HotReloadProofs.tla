---------------------------- MODULE HotReloadProofs ----------------------------
(***************************************************************************)
(* Hot reload's safety for every number of presses of F5 and of edits.     *)
(* The invariants that hold however builds overlap rest on the slots       *)
(* alone: at most one holds a library, and the counts say which.  The two  *)
(* that need presses to come one at a time rest on what the one build or   *)
(* command on its way then finds: data as the press left it, and, once     *)
(* copied, the file that holds what was built.                             *)
(***************************************************************************)
EXTENDS HotReload, FiniteSetTheorems, TLAPS

Done == {b \in Builds : build[b] = "done"}

(* The counters: libraries are numbered by presses, and each build sends   *)
(* at most one command.                                                    *)
CountersBounded ==
    /\ dllCounter <= presses + 1
    /\ data.newCounter <= presses + 1
    /\ presses > 0 => data.newCounter > 0
    /\ cmds > 0 => presses > 0
    /\ \A b \in Builds : b > presses => build[b] = "none"
    /\ \A b \in Builds : build[b] \in {"copy", "send"} => path[b] \in Libs
    /\ cmds <= Cardinality(Done)

(* What is loaded is what the active slot holds, once.                     *)
LoadedOnce ==
    \A n \in Libs : refs[n] = IF slots[activeSlot].lib = n THEN 1 ELSE 0

(* Presses that come one at a time: one build or one command is on its     *)
(* way, for the slot and the library the press chose; and the code that    *)
(* was built last is where the next step looks for it.                     *)
OneOnItsWay ==
    ~overlapped =>
        /\ cmds <= 1
        /\ \A b \in InFlight : cmds = 0 /\ \A c \in InFlight : c = b
        /\ cmds > 0 \/ InFlight # {} => data = NewData

BuiltIsOnItsWay ==
    ~overlapped =>
        /\ \A b \in Builds :
              /\ build[b] = "running" => running = built
              /\ build[b] = "copy" => path[b] = data.newCounter
              /\ build[b] = "send" => files[data.newCounter] = built
        /\ cmds > 0 => files[data.newCounter] = built

Inv ==
    /\ TypeOK
    /\ CountersBounded
    /\ LoadedOnce
    /\ CounterMatchesLibrary
    /\ InactiveSlotEmpty
    /\ OneOnItsWay
    /\ BuiltIsOnItsWay
    /\ RegisteredUnlessOverlapped
    /\ UpToDateUnlessOverlapped

-----------------------------------------------------------------------------
LEMMA DoneFinite ==
    /\ IsFiniteSet(Done) /\ Cardinality(Done) \in 0 .. MAX_PRESSES
    /\ IsFiniteSet(Done') /\ Cardinality(Done') \in 0 .. MAX_PRESSES
<1>1. IsFiniteSet(Builds) /\ Cardinality(Builds) = MAX_PRESSES
  BY HotReloadAssumption, FS_Interval DEF Builds
<1>2. Done \in SUBSET Builds /\ Done' \in SUBSET Builds
  BY DEF Done, Builds
<1>3. \A T \in SUBSET Builds :
         IsFiniteSet(T) /\ Cardinality(T) \in Nat /\ Cardinality(T) <= MAX_PRESSES
  BY <1>1, FS_Subset, FS_CardinalityType
<1> QED
  BY <1>2, <1>3, HotReloadAssumption

(* A build that is done stays so, and one more may be.                     *)
LEMMA DoneGrows ==
    /\ Done \subseteq Done' => Cardinality(Done) <= Cardinality(Done')
    /\ \A b : Done' = Done \cup {b} /\ b \notin Done => Cardinality(Done') = Cardinality(Done) + 1
  BY DoneFinite, FS_Subset, FS_AddElement

(* The count of a library is the number of slots that hold it.             *)
LEMMA ModulesOfActiveSlot ==
    ASSUME TypeOK, LoadedOnce, InactiveSlotEmpty
    PROVE  ModulesAccountedFor
<1> SUFFICES ASSUME NEW n \in Libs
             PROVE  refs[n] = Cardinality({s \in Slots : slots[s].lib = n})
  BY DEF ModulesAccountedFor
<1>1. /\ activeSlot \in {0, 1}
      /\ slots[1 - activeSlot].lib # n
  BY HotReloadAssumption DEF TypeOK, InactiveSlotEmpty, EmptySlot, Slots, Libs
<1>2. {s \in Slots : slots[s].lib = n} = IF slots[activeSlot].lib = n THEN {activeSlot} ELSE {}
  BY <1>1 DEF Slots
<1> QED
  BY <1>2, FS_EmptySet, FS_Singleton DEF LoadedOnce

LEMMA InitInv == Init => Inv
<1> SUFFICES ASSUME Init PROVE Inv
  OBVIOUS
<1> USE HotReloadAssumption DEF Init
<1>1. TypeOK
  <2>1. 0 \in Slots /\ 1 \in Libs /\ 0 \in Versions /\ 0 \in 0 .. MAX_PRESSES
    BY DEF Slots, Libs, Versions
  <2>2. slots \in [Slots -> [lib : Libs \cup {None}, callbacks : Libs \cup {None}]]
    BY <2>1 DEF EmptySlot
  <2>3. data \in [newCounter : Libs \cup {0}, newSlot : Slots]
    BY <2>1
  <2>4. refs \in [Libs -> Nat] /\ files \in [Libs -> Versions \cup {None}]
    BY <2>1
  <2> QED
    BY <2>1, <2>2, <2>3, <2>4 DEF TypeOK
<1>2. CountersBounded
  BY DoneFinite DEF CountersBounded
<1>3. LoadedOnce /\ CounterMatchesLibrary /\ InactiveSlotEmpty /\ RegisteredUnlessOverlapped
  BY DEF LoadedOnce, CounterMatchesLibrary, InactiveSlotEmpty, RegisteredUnlessOverlapped,
         Slots, Libs, EmptySlot
<1>4. InFlight = {}
  BY DEF InFlight
<1>5. OneOnItsWay /\ BuiltIsOnItsWay /\ UpToDateUnlessOverlapped
  BY <1>4 DEF OneOnItsWay, BuiltIsOnItsWay, UpToDateUnlessOverlapped
<1> QED
  BY <1>1, <1>2, <1>3, <1>5 DEF Inv

-----------------------------------------------------------------------------
(* What a swap of TypeOK data does: the new slot holds the new library     *)
(* alone, and the other is empty, whichever slot was active.               *)
LEMMA SwapSlots ==
    ASSUME TypeOK, InactiveSlotEmpty, LoadedOnce, Swap, data.newCounter \in Libs
    PROVE  /\ slots' \in [Slots -> [lib : Libs \cup {None}, callbacks : Libs \cup {None}]]
           /\ activeSlot' = data.newSlot
           /\ slots'[data.newSlot].lib = data.newCounter
           /\ slots'[1 - data.newSlot] = EmptySlot
           /\ data.newSlot # activeSlot /\ refs[data.newCounter] = 0 =>
                 slots'[data.newSlot].callbacks = data.newCounter
           /\ refs' = [m \in Libs |-> IF m = data.newCounter THEN 1 ELSE 0]
<1> DEFINE n == data.newCounter
           new == data.newSlot
           old == slots[activeSlot].lib
<1>1. /\ refs' = Released(Loaded(n), old)
      /\ slots' = [[Registered(n) EXCEPT ![activeSlot] = EmptySlot] EXCEPT ![new].lib = n]
      /\ activeSlot' = new
  BY DEF Swap
<1>2. /\ n \in Libs
      /\ new \in {0, 1} /\ activeSlot \in {0, 1}
      /\ old \in Libs \cup {None}
      /\ None \notin Libs
      /\ refs \in [Libs -> Nat]
      /\ slots \in [{0, 1} -> [lib : Libs \cup {None}, callbacks : Libs \cup {None}]]
      /\ slots[1 - activeSlot] = EmptySlot
  BY HotReloadAssumption DEF TypeOK, InactiveSlotEmpty, Slots, Libs
<1> HIDE DEF n, new, old
<1>3. Registered(n) \in [{0, 1} -> [lib : Libs \cup {None}, callbacks : Libs \cup {None}]]
  BY <1>2 DEF Registered, new
<1>4. /\ \A s \in {0, 1} : Registered(n)[s].lib = slots[s].lib
      /\ \A s \in {0, 1} : s # new => Registered(n)[s] = slots[s]
      /\ refs[n] = 0 => Registered(n)[new].callbacks = n
  BY <1>2 DEF Registered, new
<1>5. EmptySlot \in [lib : Libs \cup {None}, callbacks : Libs \cup {None}]
  BY DEF EmptySlot
<1>6. slots' \in [{0, 1} -> [lib : Libs \cup {None}, callbacks : Libs \cup {None}]]
  BY <1>1, <1>2, <1>3, <1>5
<1>7. /\ slots'[new].lib = n
      /\ new # activeSlot => slots'[new].callbacks = Registered(n)[new].callbacks
      /\ slots'[1 - new] = EmptySlot
  BY <1>1, <1>2, <1>3, <1>4, <1>5
<1>8. refs' = [m \in Libs |-> IF m = n THEN 1 ELSE 0]
  <2>1. \A m \in Libs : refs[m] = IF old = m THEN 1 ELSE 0
    BY DEF LoadedOnce, old
  <2>2. Loaded(n) = [refs EXCEPT ![n] = refs[n] + 1]
    BY DEF Loaded
  <2>3. /\ Loaded(n) \in [Libs -> Nat]
        /\ \A m \in Libs : Loaded(n)[m] = IF m = n THEN refs[m] + 1 ELSE refs[m]
    BY <1>2, <2>2
  <2>4. CASE old = None
    <3>1. refs' = Loaded(n)
      BY <1>1, <2>4 DEF Released
    <3>2. \A m \in Libs : refs[m] = 0
      BY <1>2, <2>1, <2>4
    <3> QED
      BY <2>3, <3>1, <3>2
  <2>5. CASE old # None
    <3>1. refs' = [Loaded(n) EXCEPT ![old] = Loaded(n)[old] - 1]
      BY <1>1, <2>5 DEF Released
    <3>2. /\ refs' = [m \in Libs |-> refs'[m]]
          /\ \A m \in Libs : refs'[m] = IF m = old THEN Loaded(n)[old] - 1 ELSE Loaded(n)[m]
      BY <1>2, <2>3, <2>5, <3>1
    <3>3. \A m \in Libs : refs'[m] = IF m = n THEN 1 ELSE 0
      BY <1>2, <2>1, <2>3, <2>5, <3>2
    <3> QED
      BY <3>2, <3>3
  <2> QED
    BY <2>4, <2>5
<1> QED
  BY <1>1, <1>4, <1>6, <1>7, <1>8 DEF n, new, Slots

LEMMA FlushCommandInv ==
    ASSUME Inv, FlushCommand
    PROVE  Inv'
<1>1. /\ cmds > 0 /\ cmds' = cmds - 1
      /\ UNCHANGED <<data, files, built, build, path, mainPc, presses, src, overlapped>>
      /\ cmds \in 0 .. MAX_PRESSES
  BY DEF FlushCommand, Inv, TypeOK
<1>2. data.newCounter \in Libs /\ data.newSlot \in {0, 1}
  BY <1>1, HotReloadAssumption DEF Inv, TypeOK, CountersBounded, Libs, Slots
<1>3. /\ InFlight' = InFlight
      /\ Done' = Done
  BY <1>1 DEF InFlight, Done
<1>4. ~overlapped => /\ cmds' = 0
                     /\ InFlight = {}
                     /\ data = NewData
                     /\ files[data.newCounter] = built
  BY <1>1 DEF Inv, OneOnItsWay, BuiltIsOnItsWay
<1>5. CASE SwapFails
  <2>1. overlapped
    BY <1>4, <1>5, HotReloadAssumption DEF SwapFails, Inv, TypeOK, Versions
  <2>2. UNCHANGED app
    BY <1>5 DEF SwapFails
  <2>3. TypeOK' /\ LoadedOnce' /\ CounterMatchesLibrary' /\ InactiveSlotEmpty'
    <3>1. cmds' \in 0 .. MAX_PRESSES
      BY <1>1, HotReloadAssumption
    <3>2. TypeOK'
      BY <1>1, <2>2, <3>1 DEF Inv, TypeOK, app
    <3>3. LoadedOnce' /\ CounterMatchesLibrary' /\ InactiveSlotEmpty'
      BY <2>2 DEF Inv, LoadedOnce, CounterMatchesLibrary, InactiveSlotEmpty, app
    <3> QED
      BY <3>2, <3>3
  <2>4. CountersBounded'
    BY <1>1, <1>3, <2>2, DoneFinite DEF Inv, CountersBounded, app
  <2>5. OneOnItsWay' /\ BuiltIsOnItsWay' /\ RegisteredUnlessOverlapped' /\ UpToDateUnlessOverlapped'
    BY <1>1, <2>1 DEF OneOnItsWay, BuiltIsOnItsWay, RegisteredUnlessOverlapped, UpToDateUnlessOverlapped
  <2> QED
    BY <2>3, <2>4, <2>5 DEF Inv
<1>6. CASE Swap
  <2>1. /\ slots' \in [Slots -> [lib : Libs \cup {None}, callbacks : Libs \cup {None}]]
        /\ activeSlot' = data.newSlot
        /\ slots'[data.newSlot].lib = data.newCounter
        /\ slots'[1 - data.newSlot] = EmptySlot
        /\ data.newSlot # activeSlot /\ refs[data.newCounter] = 0 =>
              slots'[data.newSlot].callbacks = data.newCounter
        /\ refs' = [m \in Libs |-> IF m = data.newCounter THEN 1 ELSE 0]
    BY <1>2, <1>6, SwapSlots DEF Inv
  <2>2. /\ dllCounter' = data.newCounter
        /\ running' = files[data.newCounter]
        /\ files[data.newCounter] # None
    BY <1>6 DEF Swap
  <2>3. TypeOK'
    <3>1. running' \in Versions
      BY <1>2, <2>2 DEF Inv, TypeOK
    <3>2. refs' \in [Libs -> Nat]
      BY <2>1
    <3>3. cmds' \in 0 .. MAX_PRESSES
      BY <1>1, HotReloadAssumption
    <3>4. activeSlot' \in Slots /\ dllCounter' \in Libs
      BY <1>2, <2>1, <2>2 DEF Slots
    <3> QED
      BY <1>1, <2>1, <3>1, <3>2, <3>3, <3>4 DEF Inv, TypeOK
  <2>4. CountersBounded'
    BY <1>1, <1>3, <2>2, DoneFinite DEF Inv, CountersBounded
  <2>5. LoadedOnce' /\ CounterMatchesLibrary' /\ InactiveSlotEmpty'
    BY <1>1, <2>1, <2>2 DEF LoadedOnce, CounterMatchesLibrary, InactiveSlotEmpty
  <2>6. OneOnItsWay'
    BY <1>1, <1>3, <1>4 DEF OneOnItsWay
  <2>7. BuiltIsOnItsWay'
    BY <1>1, <1>4 DEF BuiltIsOnItsWay, InFlight
  <2>8. RegisteredUnlessOverlapped'
    <3> SUFFICES ASSUME ~overlapped
                 PROVE  slots'[data.newSlot].callbacks = data.newCounter
      BY <1>1, <2>1 DEF RegisteredUnlessOverlapped
    <3>1. data.newCounter = dllCounter + 1 /\ data.newSlot = 1 - activeSlot
      BY <1>4 DEF NewData
    <3>2. refs[data.newCounter] = 0
      <4>1. slots[activeSlot].lib # data.newCounter
        BY <1>2, <3>1, HotReloadAssumption DEF Inv, TypeOK, CounterMatchesLibrary, Libs
      <4> QED
        BY <1>2, <4>1 DEF Inv, LoadedOnce
    <3>3. data.newSlot # activeSlot
      BY <3>1 DEF Inv, TypeOK, Slots
    <3> QED
      BY <2>1, <3>2, <3>3
  <2>9. UpToDateUnlessOverlapped'
    BY <1>1, <1>4, <2>2 DEF UpToDateUnlessOverlapped
  <2> QED
    BY <2>3, <2>4, <2>5, <2>6, <2>7, <2>8, <2>9 DEF Inv
<1> QED
  BY <1>5, <1>6 DEF FlushCommand

LEMMA IdleInv ==
    ASSUME Inv, FlushEnd \/ NoKey \/ Edit \/ UNCHANGED vars
    PROVE  Inv'
<1>1. /\ UNCHANGED <<app, data, files, built, build, path, cmds, presses, overlapped>>
      /\ mainPc' \in {"flush", "keys"}
      /\ src' \in Versions
  BY HotReloadAssumption DEF Inv, TypeOK, FlushEnd, NoKey, Edit, vars, app, Versions
<1>2. TypeOK'
  BY <1>1 DEF Inv, TypeOK, app
<1>3. CountersBounded' /\ LoadedOnce' /\ CounterMatchesLibrary' /\ InactiveSlotEmpty'
  BY <1>1 DEF Inv, CountersBounded, Done, LoadedOnce, CounterMatchesLibrary, InactiveSlotEmpty, app
<1>4. OneOnItsWay' /\ BuiltIsOnItsWay' /\ RegisteredUnlessOverlapped' /\ UpToDateUnlessOverlapped'
  BY <1>1 DEF Inv, OneOnItsWay, BuiltIsOnItsWay, NewData, InFlight, RegisteredUnlessOverlapped,
              UpToDateUnlessOverlapped, app
<1> QED
  BY <1>2, <1>3, <1>4 DEF Inv

LEMMA PressF5Inv ==
    ASSUME Inv, PressF5
    PROVE  Inv'
<1>1. /\ presses < MAX_PRESSES /\ presses' = presses + 1
      /\ data' = NewData
      /\ \/ build' = build
         \/ build' = [build EXCEPT ![presses + 1] = "running"]
      /\ overlapped' = (overlapped \/ InFlight # {} \/ cmds > 0)
      /\ mainPc' = "flush"
      /\ UNCHANGED <<app, files, built, path, cmds, src>>
  BY DEF PressF5
<1>2. /\ presses \in Nat /\ presses + 1 \in Builds
      /\ build[presses + 1] = "none"
      /\ \A b \in Builds : build'[b] # build[b] => b = presses + 1 /\ build'[b] = "running"
      /\ build' \in [Builds -> {"none", "running", "exited", "copy", "send", "done"}]
  BY <1>1, HotReloadAssumption DEF Inv, TypeOK, CountersBounded, Builds
<1>3. /\ NewData.newCounter = dllCounter + 1
      /\ NewData.newSlot = 1 - activeSlot
      /\ NewData \in [newCounter : Libs \cup {0}, newSlot : Slots]
      /\ dllCounter + 1 \in Libs
  BY <1>1, HotReloadAssumption DEF Inv, TypeOK, CountersBounded, NewData, Libs, Slots
<1>4. Done' = Done
  BY <1>2 DEF Done
<1>5. TypeOK'
  BY <1>1, <1>2, <1>3, HotReloadAssumption DEF Inv, TypeOK, app
<1>6. CountersBounded'
  <2>1. \A b \in Builds : b > presses + 1 => build'[b] = "none"
    BY <1>1, <1>2 DEF Inv, CountersBounded, Builds
  <2>2. \A b \in Builds : build'[b] \in {"copy", "send"} => path[b] \in Libs
    BY <1>2 DEF Inv, CountersBounded
  <2>3. /\ dllCounter <= presses + 2
        /\ dllCounter + 1 <= presses + 2
        /\ dllCounter + 1 > 0
        /\ presses + 1 > 0
    BY <1>2, HotReloadAssumption DEF Inv, TypeOK, CountersBounded, Libs
  <2> QED
    BY <1>1, <1>2, <1>3, <1>4, <2>1, <2>2, <2>3 DEF Inv, CountersBounded, app
<1>7. LoadedOnce' /\ CounterMatchesLibrary' /\ InactiveSlotEmpty'
  BY <1>1 DEF Inv, LoadedOnce, CounterMatchesLibrary, InactiveSlotEmpty, app
<1>8. ASSUME ~overlapped'
      PROVE  /\ ~overlapped
             /\ cmds = 0
             /\ running = built
             /\ slots[activeSlot].callbacks = slots[activeSlot].lib
             /\ \A b \in InFlight' : b = presses + 1 /\ build'[b] = "running"
  <2>1. ~overlapped /\ InFlight = {} /\ ~(cmds > 0) /\ cmds \in 0 .. MAX_PRESSES
    BY <1>1, <1>8 DEF Inv, TypeOK
  <2>2. cmds = 0
    BY <2>1, HotReloadAssumption
  <2>3. running = built /\ slots[activeSlot].callbacks = slots[activeSlot].lib
    BY <2>1, <2>2 DEF Inv, UpToDateUnlessOverlapped, RegisteredUnlessOverlapped
  <2>4. \A b \in InFlight' : b = presses + 1 /\ build'[b] = "running"
    BY <1>2, <2>1 DEF InFlight
  <2> QED
    BY <2>1, <2>2, <2>3, <2>4
<1>9. OneOnItsWay' /\ BuiltIsOnItsWay' /\ RegisteredUnlessOverlapped' /\ UpToDateUnlessOverlapped'
  <2>1. NewData' = NewData
    BY <1>1 DEF NewData, app
  <2>2. OneOnItsWay'
    BY <1>1, <1>8, <2>1 DEF OneOnItsWay
  <2>3. BuiltIsOnItsWay'
    BY <1>1, <1>8 DEF BuiltIsOnItsWay, InFlight, app
  <2>4. RegisteredUnlessOverlapped' /\ UpToDateUnlessOverlapped'
    BY <1>1, <1>8 DEF RegisteredUnlessOverlapped, UpToDateUnlessOverlapped, app
  <2> QED
    BY <2>2, <2>3, <2>4
<1> QED
  BY <1>5, <1>6, <1>7, <1>9 DEF Inv

(* The steps of a build leave the app alone.                               *)
LEMMA AppUntouched ==
    ASSUME Inv, UNCHANGED app, UNCHANGED overlapped
    PROVE  LoadedOnce' /\ CounterMatchesLibrary' /\ InactiveSlotEmpty' /\ RegisteredUnlessOverlapped'
  BY DEF Inv, LoadedOnce, CounterMatchesLibrary, InactiveSlotEmpty, RegisteredUnlessOverlapped, app

(* A build that has begun belongs to a press, and with presses one at a    *)
(* time it is the only one.                                                *)
LEMMA OnlyBuild ==
    ASSUME Inv, NEW b \in Builds, build[b] \in {"running", "exited", "copy", "send"}
    PROVE  /\ presses > 0
           /\ data.newCounter \in Libs
           /\ ~overlapped => /\ cmds = 0
                             /\ InFlight = {b}
                             /\ data = NewData
<1>1. b \in InFlight
  BY DEF InFlight
<1>2. presses > 0
  BY HotReloadAssumption DEF Inv, TypeOK, CountersBounded, Builds
<1>3. data.newCounter \in Libs
  BY <1>2, HotReloadAssumption DEF Inv, TypeOK, CountersBounded, Libs
<1> QED
  BY <1>1, <1>2, <1>3 DEF Inv, OneOnItsWay

LEMMA BuildExitsInv ==
    ASSUME Inv, NEW b \in Builds, BuildExits(b)
    PROVE  Inv'
<1>1. /\ build[b] = "running"
      /\ \/ src # built /\ built' = src /\ build' = [build EXCEPT ![b] = "exited"]
         \/ built' = built /\ build' = [build EXCEPT ![b] = "done"]
      /\ UNCHANGED <<app, data, files, path, cmds, mainPc, presses, src, overlapped>>
  BY DEF BuildExits
<1>2. TypeOK'
  BY <1>1 DEF Inv, TypeOK, app
<1>3. /\ \A c \in Builds : c # b => build'[c] = build[c]
      /\ build'[b] \in {"exited", "done"}
      /\ built' = built \/ build'[b] = "exited"
      /\ Done \subseteq Done'
      /\ InFlight' \subseteq InFlight
  BY <1>1 DEF Inv, TypeOK, Done, InFlight
<1>4. CountersBounded'
  BY <1>1, <1>3, DoneFinite, DoneGrows DEF Inv, TypeOK, CountersBounded, app
<1>5. LoadedOnce' /\ CounterMatchesLibrary' /\ InactiveSlotEmpty' /\ RegisteredUnlessOverlapped'
  BY <1>1, AppUntouched
<1>6. ~overlapped => /\ cmds = 0
                     /\ InFlight = {b}
                     /\ data = NewData
                     /\ running = built
  BY <1>1, OnlyBuild DEF Inv, BuiltIsOnItsWay
<1>7. OneOnItsWay'
  BY <1>1, <1>3, <1>6 DEF OneOnItsWay, NewData, app
<1>8. BuiltIsOnItsWay'
  BY <1>1, <1>3, <1>6 DEF BuiltIsOnItsWay, InFlight
<1>9. UpToDateUnlessOverlapped'
  BY <1>1, <1>3, <1>6 DEF UpToDateUnlessOverlapped, InFlight, app
<1> QED
  BY <1>2, <1>4, <1>5, <1>7, <1>8, <1>9 DEF Inv

LEMMA ReadPathsInv ==
    ASSUME Inv, NEW b \in Builds, ReadPaths(b)
    PROVE  Inv'
<1>1. /\ build[b] = "exited"
      /\ path' = [path EXCEPT ![b] = data.newCounter]
      /\ build' = [build EXCEPT ![b] = "copy"]
      /\ UNCHANGED <<app, data, files, built, cmds, mainPc, presses, src, overlapped>>
  BY DEF ReadPaths
<1>2. /\ data.newCounter \in Libs
      /\ presses > 0
      /\ ~overlapped => /\ cmds = 0
                        /\ InFlight = {b}
                        /\ data = NewData
  BY <1>1, OnlyBuild
<1>3. TypeOK'
  BY <1>1, <1>2 DEF Inv, TypeOK, app
<1>4. /\ \A c \in Builds : c # b => build'[c] = build[c] /\ path'[c] = path[c]
      /\ build'[b] = "copy" /\ path'[b] = data.newCounter
      /\ Done' = Done
      /\ InFlight' = InFlight
  BY <1>1 DEF Inv, TypeOK, Done, InFlight
<1>5. CountersBounded'
  BY <1>1, <1>2, <1>4 DEF Inv, TypeOK, CountersBounded, app
<1>6. LoadedOnce' /\ CounterMatchesLibrary' /\ InactiveSlotEmpty' /\ RegisteredUnlessOverlapped'
  BY <1>1, AppUntouched
<1>7. OneOnItsWay'
  BY <1>1, <1>2, <1>4 DEF OneOnItsWay, NewData, app
<1>8. BuiltIsOnItsWay'
  BY <1>1, <1>2, <1>4 DEF Inv, BuiltIsOnItsWay, app
<1>9. UpToDateUnlessOverlapped'
  BY <1>1, <1>2, <1>4 DEF UpToDateUnlessOverlapped
<1> QED
  BY <1>3, <1>5, <1>6, <1>7, <1>8, <1>9 DEF Inv

(* Presses that come one at a time never copy onto the loaded library.     *)
LEMMA CopyInv ==
    ASSUME Inv, NEW b \in Builds, Copy(b)
    PROVE  Inv'
<1>1. /\ build[b] = "copy"
      /\ \/ refs[path[b]] > 0 /\ build' = [build EXCEPT ![b] = "done"] /\ files' = files
         \/ /\ files' = [files EXCEPT ![path[b]] = built]
            /\ build' = [build EXCEPT ![b] = "send"]
      /\ UNCHANGED <<app, data, built, path, cmds, mainPc, presses, src, overlapped>>
  BY DEF Copy
<1>2. /\ path[b] \in Libs
      /\ presses > 0
      /\ data.newCounter \in Libs
      /\ ~overlapped => /\ cmds = 0
                        /\ InFlight = {b}
                        /\ data = NewData
                        /\ path[b] = data.newCounter
  BY <1>1, OnlyBuild DEF Inv, CountersBounded, BuiltIsOnItsWay
<1>3. TypeOK'
  BY <1>1, <1>2 DEF Inv, TypeOK, app
<1>4. /\ \A c \in Builds : c # b => build'[c] = build[c]
      /\ build'[b] \in {"send", "done"}
      /\ Done \subseteq Done'
      /\ InFlight' \subseteq InFlight
  BY <1>1 DEF Inv, TypeOK, Done, InFlight
<1>5. CountersBounded'
  BY <1>1, <1>2, <1>4, DoneFinite, DoneGrows DEF Inv, TypeOK, CountersBounded, app
<1>6. LoadedOnce' /\ CounterMatchesLibrary' /\ InactiveSlotEmpty' /\ RegisteredUnlessOverlapped'
  BY <1>1, AppUntouched
<1>7. ASSUME ~overlapped
      PROVE  /\ files' = [files EXCEPT ![data.newCounter] = built]
             /\ build'[b] = "send"
             /\ files'[data.newCounter] = built
  <2>1. slots[activeSlot].lib # data.newCounter
    <3>1. data.newCounter = dllCounter + 1
      BY <1>2, <1>7 DEF NewData
    <3> QED
      BY <1>2, <3>1, HotReloadAssumption DEF Inv, TypeOK, CounterMatchesLibrary, Libs
  <2>2. refs[path[b]] = 0
    BY <1>2, <1>7, <2>1 DEF Inv, LoadedOnce
  <2> QED
    BY <1>1, <1>2, <1>7, <2>2 DEF Inv, TypeOK
<1>8. OneOnItsWay'
  BY <1>1, <1>2, <1>4 DEF OneOnItsWay, NewData, app
<1>9. BuiltIsOnItsWay'
  BY <1>1, <1>2, <1>4, <1>7 DEF BuiltIsOnItsWay, InFlight, app
<1>10. UpToDateUnlessOverlapped'
  <2>1. ~overlapped => b \in InFlight'
    BY <1>7 DEF InFlight
  <2> QED
    BY <1>1, <2>1 DEF UpToDateUnlessOverlapped
<1> QED
  BY <1>3, <1>5, <1>6, <1>8, <1>9, <1>10 DEF Inv

LEMMA SendInv ==
    ASSUME Inv, NEW b \in Builds, Send(b)
    PROVE  Inv'
<1>1. /\ build[b] = "send"
      /\ cmds' = cmds + 1
      /\ build' = [build EXCEPT ![b] = "done"]
      /\ UNCHANGED <<app, data, files, built, path, mainPc, presses, src, overlapped>>
  BY DEF Send
<1>2. /\ presses > 0
      /\ ~overlapped => /\ cmds = 0
                        /\ InFlight = {b}
                        /\ data = NewData
                        /\ files[data.newCounter] = built
  BY <1>1, OnlyBuild DEF Inv, BuiltIsOnItsWay
<1>3. /\ \A c \in Builds : c # b => build'[c] = build[c]
      /\ build'[b] = "done"
      /\ Done' = Done \cup {b} /\ b \notin Done
      /\ InFlight' = InFlight \ {b}
  BY <1>1 DEF Inv, TypeOK, Done, InFlight
<1>4. Cardinality(Done') = Cardinality(Done) + 1
  BY <1>3, DoneGrows
<1>5. cmds \in Nat /\ cmds + 1 <= Cardinality(Done')
  BY <1>4, DoneFinite DEF Inv, TypeOK, CountersBounded
<1>6. TypeOK'
  <2>1. cmds' \in 0 .. MAX_PRESSES
    BY <1>1, <1>5, DoneFinite, HotReloadAssumption
  <2> QED
    BY <1>1, <2>1 DEF Inv, TypeOK, app
<1>7. CountersBounded'
  BY <1>1, <1>2, <1>3, <1>5 DEF Inv, TypeOK, CountersBounded, app
<1>8. LoadedOnce' /\ CounterMatchesLibrary' /\ InactiveSlotEmpty' /\ RegisteredUnlessOverlapped'
  BY <1>1, AppUntouched
<1>9. ~overlapped => InFlight' = {} /\ cmds' = 1
  BY <1>1, <1>2, <1>3
<1>10. OneOnItsWay'
  BY <1>1, <1>2, <1>9 DEF OneOnItsWay, NewData, app
<1>11. BuiltIsOnItsWay'
  BY <1>1, <1>2, <1>9 DEF BuiltIsOnItsWay, InFlight
<1>12. UpToDateUnlessOverlapped'
  BY <1>1, <1>9 DEF UpToDateUnlessOverlapped
<1> QED
  BY <1>6, <1>7, <1>8, <1>10, <1>11, <1>12 DEF Inv

-----------------------------------------------------------------------------
(* The invariant of hot reload, for any number of presses and edits.       *)
THEOREM HotReloadInvariant == Spec => []Inv
<1>1. Inv /\ [Next]_vars => Inv'
  BY FlushCommandInv, IdleInv, PressF5Inv, BuildExitsInv, ReadPathsInv, CopyInv, SendInv DEF Next
<1> QED
  BY <1>1, InitInv, PTL DEF Spec

(* Every reachable state is type correct: no more commands than presses,   *)
(* no library beyond those the presses name.                               *)
THEOREM HotReloadTypeOK == Spec => []TypeOK
  BY HotReloadInvariant, PTL DEF Inv

(* However builds and swaps overlap, each library is loaded as often as a  *)
(* slot holds it.                                                          *)
THEOREM LibrariesAccountedFor == Spec => []ModulesAccountedFor
<1>1. Inv => ModulesAccountedFor
  BY ModulesOfActiveSlot DEF Inv
<1> QED
  BY <1>1, HotReloadInvariant, PTL

(* The counter names the library of the active slot, and nothing is left   *)
(* of the app that was replaced.                                           *)
THEOREM ReplacedAppIsGone == Spec => []SwapLeavesNamedApp
<1>1. Inv => SwapLeavesNamedApp
  BY DEF Inv, SwapLeavesNamedApp
<1> QED
  BY <1>1, HotReloadInvariant, PTL

(* With presses one at a time, the active slot has the callbacks of the    *)
(* library it holds ...                                                    *)
THEOREM AppIsRegistered == Spec => []RegisteredUnlessOverlapped
  BY HotReloadInvariant, PTL DEF Inv

(* ... and once all is quiet that library has the code built last.         *)
THEOREM AppIsUpToDate == Spec => []UpToDateUnlessOverlapped
  BY HotReloadInvariant, PTL DEF Inv
=============================================================================
