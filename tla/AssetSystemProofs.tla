--------------------------- MODULE AssetSystemProofs ---------------------------
(***************************************************************************)
(* The asset system, for every set of assets, parents and dependencies,    *)
(* every number of slots and of attempts, whoever asks for what.           *)
(*                                                                         *)
(* The first part has the types, and that the wait for a parent is vain.   *)
(* The second has what holds until a request has raced (Inv): a load has   *)
(* one owner at every moment, the thread that queues it, its place in the  *)
(* queue or the job that runs, and no other step touches its entry.  It    *)
(* needs no assumption about who shares which asset: what two threads ask  *)
(* for is marked by the one that comes first, and the other either sees    *)
(* the mark or races.  The safety part of the refinement of AssetLifecycle *)
(* follows.                                                                *)
(***************************************************************************)
EXTENDS AssetSystem, FunctionTheorems, FiniteSetTheorems, TLAPS

(* Where a thread is inside a request, and the worker inside the wait for  *)
(* a parent.                                                               *)
Requesting(t) == frame[t].at \in {"read", "mark", "execute"}

AskingParent == Requesting(Worker) /\ frame[Worker].after = "poll"

(* What a thread can have asked for.                                       *)
RequestedByLoads ==
    {Parent[a] : a \in Assets} \cup UNION {{Deps[a][i] : i \in DOMAIN Deps[a]} : a \in Assets}

Requested(t) == IF t = Main THEN Requests ELSE RequestedByLoads

FrameOK ==
    /\ \A t \in Threads :
          /\ frame[t].doomed # Invalid <=> At(t, "destroy")
          /\ frame[t].at \in {"mark", "execute"} => frame[t].todo # <<>>
          /\ frame[t].todo \in Seq(Requested(t))
    /\ Requesting(Worker) => frame[Worker].after \in {"poll", "loaded"}

(* The parent that is waited for has been asked for by then.               *)
ParentAsked ==
    /\ At(Worker, "poll") \/ AskingParent =>
          Parent[cur.asset] # None /\ frame[Worker].target = Parent[cur.asset]
    /\ At(Worker, "copy") => Parent[cur.asset] # None
    /\ AskingParent =>
          frame[Worker].todo \in {<<>>, <<frame[Worker].target>>} /\ frame[Worker].tries = 0
    /\ \/ At(Worker, "poll")
       \/ AskingParent /\ (frame[Worker].todo = <<>> \/ At(Worker, "execute"))
       => entry[frame[Worker].target].stage # "None"

Shape == TypeOK /\ FrameOK /\ ParentAsked /\ ParentWaitIsVain

-----------------------------------------------------------------------------
(* A list without its first element, or with one more at the end.          *)
LEMMA TailOf ==
    ASSUME NEW S, NEW s \in Seq(S), s # <<>>
    PROVE  /\ Head(s) \in S
           /\ Tail(s) \in Seq(S)
           /\ Len(Tail(s)) = Len(s) - 1
           /\ \A i \in DOMAIN Tail(s) : i \in DOMAIN s /\ i + 1 \in DOMAIN s /\ Tail(s)[i] = s[i + 1]
  OBVIOUS

LEMMA AppendedTo ==
    ASSUME NEW S, NEW s \in Seq(S), NEW e \in S
    PROVE  /\ Append(s, e) \in Seq(S)
           /\ DOMAIN Append(s, e) = DOMAIN s \cup {Len(s) + 1}
           /\ Len(s) + 1 \notin DOMAIN s
           /\ \A i \in DOMAIN s : Append(s, e)[i] = s[i]
           /\ Append(s, e)[Len(s) + 1] = e
  OBVIOUS

(* A load asks for the parent and the dependencies of its asset.           *)
LEMMA LoadsAsk ==
    ASSUME NEW a \in Assets
    PROVE  /\ Deps[a] \in Seq(Assets)
           /\ Deps[a] \in Seq(RequestedByLoads)
           /\ Parent[a] \in RequestedByLoads
           /\ Parent[a] # None => Parent[a] \in Assets
<1>1. Deps[a] \in Seq(Assets) /\ Parent[a] \in Assets \cup {None}
  BY AssetSystemAssumption DEF AssetSystemAssumption
<1>2. Parent[a] \in RequestedByLoads
  BY DEF RequestedByLoads
<1>3. \A i \in DOMAIN Deps[a] : Deps[a][i] \in RequestedByLoads
  BY DEF RequestedByLoads
<1>4. Deps[a] \in Seq(RequestedByLoads)
  BY <1>1, <1>3
<1>5. QED
  BY <1>1, <1>2, <1>4

-----------------------------------------------------------------------------
(* What a step of the main thread may do to the worker's load.             *)
LEMMA WorkerUndisturbed ==
    ASSUME Shape,
           frame'[Worker] = frame[Worker], cur' = cur,
           \A a \in Assets :
               \/ entry'[a].stage = entry[a].stage
               \/ entry'[a].stage \notin {"None", "Loaded"}
               \/ entry'[a].stage = "Loaded" /\ entry[a].stage = "None"
    PROVE  ParentAsked' /\ ParentWaitIsVain'
  BY LoadsAsk DEF Shape, ParentAsked, ParentWaitIsVain, AskingParent, Requesting, At, TypeOK, Job

LEMMA Distinct == Main # Worker /\ Invalid \notin Nat /\ 0 \in 0 .. MAX_ATTEMPTS
  BY AssetSystemAssumption DEF AssetSystemAssumption

(* A frame with some of its fields replaced is a frame.                    *)
LEMMA FrameFields ==
    ASSUME NEW f \in Frame, NEW l \in {"idle", "read", "mark", "execute", "poll", "destroy",
               "compile", "parse", "copy", "init", "fail", "loaded", "check", "notify", "write"}
    PROVE  /\ [f EXCEPT !.at = l] \in Frame
           /\ [f EXCEPT !.at = l, !.todo = <<>>] \in Frame
           /\ \A s \in Seq(Assets) : [f EXCEPT !.todo = s] \in Frame
           /\ \A s \in Seq(Assets), b \in BOOLEAN :
                 [f EXCEPT !.at = l, !.todo = s, !.cb = b] \in Frame
           /\ \A s \in Seq(Assets), r \in {"idle", "poll", "loaded"}, a \in Assets \cup {None} :
                 [f EXCEPT !.at = l, !.todo = s, !.after = r, !.target = a] \in Frame
           /\ \A s \in Seq(Assets), r \in {"idle", "poll", "loaded"} :
                 [f EXCEPT !.at = l, !.todo = s, !.after = r] \in Frame
           /\ \A h \in Handles : [f EXCEPT !.at = l, !.doomed = h] \in Frame
<1>1. [f EXCEPT !.at = l] \in Frame
  BY DEF Frame
<1>2. <<>> \in Seq(Assets)
  OBVIOUS
<1>3. \A s \in Seq(Assets) :
         [f EXCEPT !.todo = s] \in Frame /\ [f EXCEPT !.at = l, !.todo = s] \in Frame
  BY DEF Frame
<1>4. \A s \in Seq(Assets), b \in BOOLEAN : [f EXCEPT !.at = l, !.todo = s, !.cb = b] \in Frame
  BY DEF Frame
<1>5. ASSUME NEW s \in Seq(Assets), NEW r \in {"idle", "poll", "loaded"}
      PROVE  /\ [f EXCEPT !.at = l, !.todo = s, !.after = r] \in Frame
             /\ \A a \in Assets \cup {None} :
                   [f EXCEPT !.at = l, !.todo = s, !.after = r, !.target = a] \in Frame
  <2>1. [f EXCEPT !.at = l, !.todo = s, !.after = r] \in Frame
    BY DEF Frame
  <2>2. ASSUME NEW g \in Frame, NEW a \in Assets \cup {None}
        PROVE  [g EXCEPT !.target = a] \in Frame
    BY DEF Frame
  <2>3. \A a : [f EXCEPT !.at = l, !.todo = s, !.after = r, !.target = a]
                 = [[f EXCEPT !.at = l, !.todo = s, !.after = r] EXCEPT !.target = a]
    OBVIOUS
  <2> QED
    BY <2>1, <2>2, <2>3
<1>6. \A h \in Handles : [f EXCEPT !.at = l, !.doomed = h] \in Frame
  BY DEF Frame
<1>7. QED
  BY <1>1, <1>2, <1>3, <1>4, <1>5, <1>6

LEMMA IdleFrame ==
    /\ Idle \in Frame
    /\ Idle.at = "idle" /\ Idle.doomed = Invalid /\ Idle.todo = <<>> /\ Idle.tries = 0
  BY Distinct DEF Idle, Frame, Handles

LEMMA ShapeInit == Init => Shape
<1> SUFFICES ASSUME Init PROVE Shape
  OBVIOUS
<1>1. TypeOK
  <2>1. Absent \in Entry /\ Invalid \in Handles /\ Worker \in Threads
    BY DEF Absent, Entry, Stages, Handles, Threads
  <2>2. entry \in [Assets -> Entry] /\ held \in [Assets -> Handles]
    BY <2>1 DEF Init
  <2>3. <<>> \in Seq(Job)
    OBVIOUS
  <2>4. jobs \in [Threads -> Seq(Job)] /\ frame \in [Threads -> Frame]
    BY <2>3, IdleFrame DEF Init
  <2>5. cur \in Job \cup {None} /\ (cur = None <=> At(Worker, "idle"))
    BY <2>1, IdleFrame DEF Init, At
  <2>6. slots \in SUBSET (1 .. NUM_SLOTS) /\ asserted \in SUBSET Assertion /\ raced \in BOOLEAN
    BY DEF Init
  <2>7. QED
    BY <2>2, <2>4, <2>5, <2>6 DEF TypeOK
<1>2. \A t \in Threads : frame[t] = Idle
  BY DEF Init
<1>3. FrameOK
  <2>1. \A t \in Threads : <<>> \in Seq(Requested(t))
    OBVIOUS
  <2>2. QED
    BY <1>2, <2>1, IdleFrame DEF FrameOK, Threads, At, Requesting
<1>4. ParentAsked /\ ParentWaitIsVain
  BY <1>2, IdleFrame DEF ParentAsked, ParentWaitIsVain, Threads, At, Requesting, AskingParent
<1>5. QED
  BY <1>1, <1>3, <1>4 DEF Shape

LEMMA RequestShape ==
    ASSUME Shape, NEW a \in Assets, NEW cb \in BOOLEAN, Request(a, cb)
    PROVE  Shape'
<1>0. <<a>> \in Seq(Assets)
  OBVIOUS
<1>1. [Idle EXCEPT !.at = "read", !.todo = <<a>>, !.cb = cb] \in Frame
  BY <1>0, IdleFrame, FrameFields
<1>2. TypeOK'
  BY <1>1, Distinct DEF Shape, TypeOK, Request, Threads, At
<1>3. FrameOK'
  BY Distinct DEF Shape, TypeOK, FrameOK, Request, Idle, Threads, At, Requesting, Requested
<1>4. ParentAsked' /\ ParentWaitIsVain'
  BY Distinct, WorkerUndisturbed DEF Shape, TypeOK, Request, Threads
<1>5. QED
  BY <1>2, <1>3, <1>4 DEF Shape

LEMMA ScopedLockShape ==
    ASSUME Shape, NEW a \in Assets, ScopedLock(a)
    PROVE  Shape'
<1>0. <<a>> \in Seq(Assets)
  OBVIOUS
<1>1. [Idle EXCEPT !.at = "read", !.todo = <<a>>, !.after = "poll", !.target = a] \in Frame
  BY <1>0, IdleFrame, FrameFields
<1>2. TypeOK'
  BY <1>1, Distinct DEF Shape, TypeOK, ScopedLock, Threads, At
<1>3. FrameOK'
  BY Distinct DEF Shape, TypeOK, FrameOK, ScopedLock, Idle, Threads, At, Requesting, Requested
<1>4. ParentAsked' /\ ParentWaitIsVain'
  BY Distinct, WorkerUndisturbed DEF Shape, TypeOK, ScopedLock, Threads
<1>5. QED
  BY <1>2, <1>3, <1>4 DEF Shape

LEMMA RequestWriteShape ==
    ASSUME Shape, NEW a \in Assets, RequestWrite(a)
    PROVE  Shape'
<1>1. [op |-> "write", asset |-> a, cb |-> FALSE] \in Job
  BY DEF Job
<1>2. TypeOK'
  BY <1>1, AppendedTo DEF Shape, TypeOK, RequestWrite, Threads, At
<1>3. FrameOK'
  BY DEF Shape, FrameOK, RequestWrite, At, Requesting
<1>4. ParentAsked' /\ ParentWaitIsVain'
  BY WorkerUndisturbed DEF RequestWrite
<1>5. QED
  BY <1>2, <1>3, <1>4 DEF Shape

LEMMA CreateShape ==
    ASSUME Shape, NEW a \in Assets, CreateNewAsset(a)
    PROVE  Shape'
<1>1. PICK h \in 1 .. NUM_SLOTS :
          /\ slots' = slots \cup {h}
          /\ entry' = [entry EXCEPT ![a] = [stage |-> "Loaded", handle |-> h]]
  BY DEF CreateNewAsset
<1>2. [stage |-> "Loaded", handle |-> h] \in Entry
  BY DEF Entry, Stages, Handles
<1>3. TypeOK'
  BY <1>1, <1>2 DEF Shape, TypeOK, CreateNewAsset, At
<1>4. FrameOK'
  BY DEF Shape, FrameOK, CreateNewAsset, At, Requesting
<1>5. ParentAsked' /\ ParentWaitIsVain'
  BY <1>1, WorkerUndisturbed DEF Shape, TypeOK, CreateNewAsset, Absent
<1>6. QED
  BY <1>3, <1>4, <1>5 DEF Shape

LEMMA UnloadShape ==
    ASSUME Shape, NEW a \in Assets, Unload(a)
    PROVE  Shape'
<1>1. /\ Reset \in Entry /\ Invalid \in Handles
      /\ [Idle EXCEPT !.at = "destroy", !.doomed = held[a]] \in Frame
  BY IdleFrame, FrameFields DEF Reset, Entry, Stages, Handles, Shape, TypeOK
<1>2. TypeOK'
  BY <1>1, Distinct DEF Shape, TypeOK, Unload, Threads, At
<1>3. FrameOK'
  BY Distinct DEF Shape, TypeOK, FrameOK, Unload, Idle, Threads, At, Requesting, Requested
<1>4. ParentAsked' /\ ParentWaitIsVain'
  BY Distinct, WorkerUndisturbed DEF Shape, TypeOK, Unload, Reset, Threads
<1>5. QED
  BY <1>2, <1>3, <1>4 DEF Shape

(* A worker that is not about to wait for a parent.                        *)
LEMMA NotAsking ==
    ASSUME frame'[Worker].at \notin {"read", "mark", "execute", "poll", "copy"}
    PROVE  ParentAsked' /\ ParentWaitIsVain'
  BY DEF ParentAsked, ParentWaitIsVain, AskingParent, Requesting, At

(* A step that moves one thread only: what is left to show of its frame.   *)
LEMMA FrameReplaced ==
    ASSUME Shape, NEW t \in Threads, NEW f \in Frame, frame' = [frame EXCEPT ![t] = f],
           f.doomed # Invalid <=> f.at = "destroy",
           f.at \in {"mark", "execute"} => f.todo # <<>>,
           f.todo \in Seq(Requested(t)),
           t = Worker /\ f.at \in {"read", "mark", "execute"} => f.after \in {"poll", "loaded"}
    PROVE  /\ FrameOK'
           /\ frame' \in [Threads -> Frame]
           /\ frame'[t] = f
           /\ \A u \in Threads : u # t => frame'[u] = frame[u]
<1>1. /\ frame' \in [Threads -> Frame]
      /\ frame'[t] = f
      /\ \A u \in Threads : u # t => frame'[u] = frame[u]
  BY DEF Shape, TypeOK
<1>2. \A u \in Threads :
          /\ frame'[u].doomed # Invalid <=> frame'[u].at = "destroy"
          /\ frame'[u].at \in {"mark", "execute"} => frame'[u].todo # <<>>
          /\ frame'[u].todo \in Seq(Requested(u))
  <2> SUFFICES ASSUME NEW u \in Threads PROVE <1>2!(u)
    OBVIOUS
  <2>1. CASE u = t
    BY <1>1, <2>1
  <2>2. CASE u # t
    BY <1>1, <2>2 DEF Shape, FrameOK, At
  <2>3. QED
    BY <2>1, <2>2
<1>3. Requesting(Worker)' => frame'[Worker].after \in {"poll", "loaded"}
  BY <1>1 DEF Shape, FrameOK, Requesting, Threads
<1>4. FrameOK'
  BY <1>2, <1>3 DEF FrameOK, At, Requested
<1>5. QED
  BY <1>1, <1>4

LEMMA GotoStep ==
    ASSUME Shape, NEW t \in Threads, ~At(t, "destroy"),
           NEW l \in {"idle", "read", "mark", "execute", "poll", "compile", "parse", "copy",
                      "init", "fail", "loaded", "check", "notify", "write"}, Goto(t, l),
           l \in {"mark", "execute"} => frame[t].todo # <<>>,
           t = Worker /\ l \in {"read", "mark", "execute"} => frame[t].after \in {"poll", "loaded"}
    PROVE  /\ FrameOK'
           /\ frame' \in [Threads -> Frame]
           /\ frame'[t].at = l
           /\ frame'[t].after = frame[t].after /\ frame'[t].todo = frame[t].todo
           /\ frame'[t].target = frame[t].target /\ frame'[t].tries = frame[t].tries
           /\ frame'[t].doomed = frame[t].doomed
           /\ \A u \in Threads : u # t => frame'[u] = frame[u]
<1> DEFINE f == [frame[t] EXCEPT !.at = l]
<1>1. frame[t] \in Frame
  BY DEF Shape, TypeOK
<1>2. /\ f \in Frame
      /\ f.at = l /\ f.after = frame[t].after /\ f.todo = frame[t].todo
      /\ f.target = frame[t].target /\ f.tries = frame[t].tries /\ f.doomed = frame[t].doomed
  <2>1. f \in Frame
    BY <1>1, FrameFields
  <2>2. QED
    BY <1>1, <2>1 DEF Frame
<1>3. frame' = [frame EXCEPT ![t] = f]
  BY <1>1 DEF Goto, Shape, TypeOK
<1>4. /\ f.doomed # Invalid <=> f.at = "destroy"
      /\ f.todo \in Seq(Requested(t))
  BY <1>2 DEF Shape, FrameOK, At
<1> HIDE DEF f
<1>5. QED
  BY <1>2, <1>3, <1>4, FrameReplaced

(* The state's other parts, and the worker's load, after such a step.      *)
LEMMA ThreadStep ==
    ASSUME Shape, NEW t \in Threads,
           FrameOK', frame' \in [Threads -> Frame],
           \A u \in Threads : u # t => frame'[u] = frame[u],
           entry' \in [Assets -> Entry], slots' \in SUBSET (1 .. NUM_SLOTS),
           jobs' \in [Threads -> Seq(Job)], held' \in [Assets -> Handles],
           asserted' \in SUBSET Assertion, raced' \in BOOLEAN,
           t = Main => /\ cur' = cur
                       /\ \A a \in Assets : entry'[a].stage = entry[a].stage \/
                                            entry'[a].stage \notin {"None", "Loaded"},
           t = Worker => /\ cur' \in Job \cup {None}
                         /\ cur' = None <=> frame'[Worker].at = "idle"
                         /\ ParentAsked' /\ ParentWaitIsVain'
    PROVE  Shape'
<1>1. CASE t = Main
  <2>1. frame'[Worker] = frame[Worker] /\ cur' = cur
    BY <1>1, Distinct DEF Threads
  <2>2. ParentAsked' /\ ParentWaitIsVain'
    BY <1>1, <2>1, WorkerUndisturbed
  <2>3. TypeOK'
    BY <2>1 DEF Shape, TypeOK, At
  <2>4. QED
    BY <2>2, <2>3 DEF Shape
<1>2. CASE t = Worker
  BY <1>2 DEF Shape, TypeOK, At
<1>3. QED
  BY <1>1, <1>2 DEF Threads

LEMMA ReadStageShape ==
    ASSUME Shape, NEW t \in Threads, ReadStage(t)
    PROVE  Shape'
<1> DEFINE a == Head(frame[t].todo)
<1>1. /\ frame[t] \in Frame /\ frame[t].todo \in Seq(Assets) /\ frame[t].todo \in Seq(Requested(t))
      /\ frame[t].after \in {"idle", "poll", "loaded"}
      /\ ~At(t, "destroy")
      /\ t = Worker => frame[Worker].after \in {"poll", "loaded"} /\ cur # None
  BY DEF ReadStage, Shape, TypeOK, FrameOK, Frame, Requesting, At
<1>2. UNCHANGED <<entry, slots, jobs, cur, asserted, raced>>
  BY DEF ReadStage
<1>3. SUFFICES /\ FrameOK' /\ frame' \in [Threads -> Frame] /\ held' \in [Assets -> Handles]
               /\ \A u \in Threads : u # t => frame'[u] = frame[u]
               /\ t = Worker => /\ ParentAsked' /\ ParentWaitIsVain'
                                /\ frame'[Worker].at # "idle"
  BY <1>1, <1>2, <1>3, ThreadStep DEF Shape, TypeOK
<1>4. CASE frame[t].todo = <<>> /\ Goto(t, frame[t].after) /\ UNCHANGED held
  <2>1. /\ FrameOK'
        /\ frame' \in [Threads -> Frame]
        /\ frame'[t].at = frame[t].after
        /\ frame'[t].todo = frame[t].todo
        /\ frame'[t].target = frame[t].target /\ frame'[t].tries = frame[t].tries
        /\ \A u \in Threads : u # t => frame'[u] = frame[u]
    BY <1>1, <1>4, GotoStep
  <2>2. t = Worker => ParentAsked' /\ ParentWaitIsVain'
    BY <1>1, <1>2, <1>4, <2>1
    DEF ReadStage, Shape, ParentAsked, ParentWaitIsVain, At, Requesting, AskingParent
  <2>3. QED
    BY <1>1, <1>4, <2>1, <2>2 DEF Shape, TypeOK
<1>5. CASE /\ frame[t].todo # <<>> /\ entry[a].stage \in {"None", "Unloaded"}
           /\ Goto(t, "mark") /\ UNCHANGED held
  <2>1. /\ FrameOK'
        /\ frame' \in [Threads -> Frame]
        /\ frame'[t].at = "mark"
        /\ frame'[t].todo = frame[t].todo /\ frame'[t].after = frame[t].after
        /\ frame'[t].target = frame[t].target /\ frame'[t].tries = frame[t].tries
        /\ \A u \in Threads : u # t => frame'[u] = frame[u]
    BY <1>1, <1>5, GotoStep
  <2>2. t = Worker => ParentAsked' /\ ParentWaitIsVain'
    BY <1>1, <1>2, <1>5, <2>1
    DEF ReadStage, Shape, ParentAsked, ParentWaitIsVain, At, Requesting, AskingParent
  <2>3. QED
    BY <1>1, <1>5, <2>1, <2>2 DEF Shape, TypeOK
<1>6. CASE /\ frame[t].todo # <<>> /\ entry[a].stage \notin {"None", "Unloaded"}
           /\ frame' = [frame EXCEPT ![t].todo = Tail(@)]
           /\ held' = IF frame[t].cb /\ entry[a].stage = "Loaded"
                      THEN [held EXCEPT ![a] = entry[a].handle] ELSE held
  <2> DEFINE f == [frame[t] EXCEPT !.todo = Tail(frame[t].todo)]
  <2>1. /\ a \in Assets
        /\ Tail(frame[t].todo) \in Seq(Assets)
        /\ Tail(frame[t].todo) \in Seq(Requested(t))
    BY <1>1, <1>6
  <2>2. f \in Frame
    BY <1>1, <2>1 DEF Frame
  <2>3. /\ f.at = "read" /\ f.todo = Tail(frame[t].todo) /\ f.after = frame[t].after
        /\ f.target = frame[t].target /\ f.tries = frame[t].tries /\ f.doomed = frame[t].doomed
    BY <1>1, <2>2 DEF Frame, ReadStage, At
  <2>4. frame' = [frame EXCEPT ![t] = f]
    BY <1>6 DEF Shape, TypeOK
  <2>5. f.doomed = Invalid
    BY <1>1, <2>3 DEF Shape, FrameOK
  <2> HIDE DEF f
  <2>6. /\ FrameOK'
        /\ frame' \in [Threads -> Frame]
        /\ frame'[t] = f
        /\ \A u \in Threads : u # t => frame'[u] = frame[u]
    BY <1>1, <2>1, <2>2, <2>3, <2>4, <2>5, FrameReplaced
  <2>7. held' \in [Assets -> Handles]
    BY <1>6, <2>1 DEF Shape, TypeOK, Entry
  <2>8. t = Worker => ParentAsked' /\ ParentWaitIsVain'
    <3>1. \A x : Head(<<x>>) = x /\ Tail(<<x>>) = <<>>
      OBVIOUS
    <3>2. t = Worker /\ AskingParent => a = frame[Worker].target /\ Tail(frame[t].todo) = <<>>
      BY <3>1, <1>6 DEF Shape, ParentAsked
    <3>3. QED
      BY <3>2, <1>1, <1>2, <1>6, <2>3, <2>6
      DEF ReadStage, Shape, ParentAsked, ParentWaitIsVain, At, Requesting, AskingParent
  <2>9. QED
    BY <2>3, <2>6, <2>7, <2>8
<1>7. QED
  BY <1>4, <1>5, <1>6 DEF ReadStage

LEMMA MarkLoadingShape ==
    ASSUME Shape, NEW t \in Threads, MarkLoading(t)
    PROVE  Shape'
<1>1. /\ frame[t].todo # <<>> /\ frame[t].todo \in Seq(Assets)
      /\ ~At(t, "destroy") /\ UNCHANGED <<slots, jobs, cur, held, asserted>> /\ raced' \in BOOLEAN
      /\ t = Worker => frame[Worker].after \in {"poll", "loaded"} /\ cur # None
  BY DEF MarkLoading, Shape, TypeOK, FrameOK, At, Frame, Requesting
<1>2. Head(frame[t].todo) \in Assets
  BY <1>1
<1>3. [stage |-> "Loading", handle |-> Invalid] \in Entry
  BY DEF Entry, Stages, Handles
<1>4. /\ entry' \in [Assets -> Entry]
      /\ \A a \in Assets : entry'[a].stage = entry[a].stage \/ entry'[a].stage = "Loading"
      /\ entry'[Head(frame[t].todo)].stage = "Loading"
  BY <1>2, <1>3 DEF MarkLoading, Shape, TypeOK
<1>5. /\ FrameOK'
      /\ frame' \in [Threads -> Frame]
      /\ frame'[t].at = "execute"
      /\ frame'[t].todo = frame[t].todo /\ frame'[t].after = frame[t].after
      /\ frame'[t].target = frame[t].target /\ frame'[t].tries = frame[t].tries
      /\ \A u \in Threads : u # t => frame'[u] = frame[u]
  BY <1>1, GotoStep DEF MarkLoading
<1>6. t = Worker => ParentAsked' /\ ParentWaitIsVain'
  <2>1. t = Worker /\ AskingParent => Head(frame[t].todo) = frame[Worker].target
    BY <1>1 DEF Shape, ParentAsked
  <2>2. QED
    BY <1>1, <1>4, <1>5, <2>1
    DEF MarkLoading, Shape, ParentAsked, ParentWaitIsVain, At, Requesting, AskingParent
<1>7. QED
  BY <1>1, <1>4, <1>5, <1>6, ThreadStep DEF Shape, TypeOK

LEMMA ExecuteShape ==
    ASSUME Shape, NEW t \in Threads, Execute(t)
    PROVE  Shape'
<1> DEFINE f == [frame[t] EXCEPT !.at = frame[t].after, !.todo = <<>>]
           j == [op |-> "load", asset |-> Head(frame[t].todo), cb |-> frame[t].cb]
<1>1. /\ frame[t] \in Frame /\ frame[t].todo # <<>> /\ frame[t].todo \in Seq(Assets)
      /\ frame[t].after \in {"idle", "poll", "loaded"} /\ frame[t].cb \in BOOLEAN
      /\ ~At(t, "destroy") /\ UNCHANGED <<entry, slots, cur, held, asserted, raced>>
      /\ t = Worker => frame[Worker].after \in {"poll", "loaded"} /\ cur # None
      /\ jobs' = [jobs EXCEPT ![t] = Append(@, j)]
  BY DEF Execute, Shape, TypeOK, FrameOK, At, Frame, Requesting
<1>2. f \in Frame
  BY <1>1, FrameFields
<1>3. /\ f.at = frame[t].after /\ f.todo = <<>> /\ f.after = frame[t].after
      /\ f.target = frame[t].target /\ f.tries = frame[t].tries /\ f.doomed = frame[t].doomed
  BY <1>1, <1>2 DEF Frame
<1>4. frame' = [frame EXCEPT ![t] = f]
  BY DEF Execute, Shape, TypeOK
<1>5. f.doomed = Invalid
  BY <1>1, <1>3 DEF Shape, FrameOK
<1>6. <<>> \in Seq(Requested(t))
  OBVIOUS
<1>7. j \in Job
  BY <1>1 DEF Job
<1> HIDE DEF f, j
<1>8. /\ FrameOK'
      /\ frame' \in [Threads -> Frame]
      /\ frame'[t] = f
      /\ \A u \in Threads : u # t => frame'[u] = frame[u]
  BY <1>1, <1>2, <1>3, <1>4, <1>5, <1>6, FrameReplaced
<1>9. jobs' \in [Threads -> Seq(Job)]
  BY <1>1, <1>7 DEF Shape, TypeOK
<1>10. t = Worker => ParentAsked' /\ ParentWaitIsVain'
  BY <1>1, <1>3, <1>8
  DEF Execute, Shape, ParentAsked, ParentWaitIsVain, At, Requesting, AskingParent
<1>11. QED
  BY <1>1, <1>3, <1>8, <1>9, <1>10, ThreadStep DEF Shape, TypeOK

LEMMA PollShape ==
    ASSUME Shape, NEW t \in Threads, Poll(t)
    PROVE  Shape'
<1> DEFINE found == entry[frame[t].target].stage = "Loaded"
           next  == IF t = Main THEN "idle" ELSE IF found THEN "copy" ELSE "fail"
           done  == [Idle EXCEPT !.at = next]
           again == [frame[t] EXCEPT !.tries = @ + 1]
<1>1. /\ frame[t] \in Frame /\ frame[t].at = "poll" /\ UNCHANGED <<entry, slots, jobs, cur, held, asserted, raced>>
      /\ \/ frame[t].tries < MAX_ATTEMPTS /\ ~found /\ frame' = [frame EXCEPT ![t] = again]
         \/ frame' = [frame EXCEPT ![t] = done]
      /\ t = Worker => cur # None
  BY DEF Poll, Shape, TypeOK, At
<1>2. CASE frame[t].tries < MAX_ATTEMPTS /\ ~found /\ frame' = [frame EXCEPT ![t] = again]
  <2>1. again \in Frame
    <3>1. frame[t].tries + 1 \in 0 .. MAX_ATTEMPTS
      BY <1>1, <1>2, AssetSystemAssumption DEF AssetSystemAssumption, Frame
    <3>2. QED
      BY <1>1, <3>1 DEF Frame
  <2>2. /\ again.at = "poll" /\ again.target = frame[t].target /\ again.todo = frame[t].todo
        /\ again.doomed = frame[t].doomed
    BY <1>1, <2>1 DEF Frame
  <2>3. again.doomed = Invalid /\ again.todo \in Seq(Requested(t))
    BY <1>1, <2>2 DEF Shape, FrameOK, At
  <2> HIDE DEF again
  <2>4. /\ FrameOK' /\ frame' \in [Threads -> Frame] /\ frame'[t] = again
        /\ \A u \in Threads : u # t => frame'[u] = frame[u]
    BY <1>1, <1>2, <2>1, <2>2, <2>3, FrameReplaced
  <2>5. t = Worker => ParentAsked' /\ ParentWaitIsVain'
    BY <1>1, <1>2, <2>2, <2>4
    DEF Shape, ParentAsked, ParentWaitIsVain, At, Requesting, AskingParent
  <2>6. QED
    BY <1>1, <2>2, <2>4, <2>5, ThreadStep DEF Shape, TypeOK
<1>3. CASE frame' = [frame EXCEPT ![t] = done]
  <2>1. done \in Frame
    BY IdleFrame, FrameFields
  <2>2. done.at = next /\ done.doomed = Invalid /\ done.todo = <<>> /\ done.tries = 0
    BY DEF Idle
  <2>3. <<>> \in Seq(Requested(t))
    OBVIOUS
  <2> HIDE DEF done
  <2>4. /\ FrameOK' /\ frame' \in [Threads -> Frame] /\ frame'[t] = done
        /\ \A u \in Threads : u # t => frame'[u] = frame[u]
    BY <1>3, <2>1, <2>2, <2>3, FrameReplaced
  <2>5. t = Worker => ParentAsked' /\ ParentWaitIsVain' /\ frame'[Worker].at # "idle"
    BY <1>1, <2>2, <2>4, Distinct
    DEF Shape, ParentAsked, ParentWaitIsVain, At, Requesting, AskingParent
  <2>6. QED
    BY <1>1, <2>4, <2>5, ThreadStep DEF Shape, TypeOK
<1>4. QED
  BY <1>1, <1>2, <1>3

LEMMA DestroySlotShape ==
    ASSUME Shape, NEW t \in Threads, DestroySlot(t)
    PROVE  Shape'
<1>1. <<>> \in Seq(Requested(t))
  OBVIOUS
<1>2. /\ FrameOK' /\ frame' \in [Threads -> Frame] /\ frame'[t] = Idle
      /\ \A u \in Threads : u # t => frame'[u] = frame[u]
  BY <1>1, IdleFrame, FrameReplaced DEF DestroySlot
<1>3. t = Worker => ParentAsked' /\ ParentWaitIsVain'
  BY <1>2, IdleFrame, NotAsking
<1>4. asserted' \in SUBSET Assertion
  BY DEF DestroySlot, Shape, TypeOK, Assertion
<1>5. /\ UNCHANGED <<entry, jobs, held, raced>> /\ slots' \in SUBSET (1 .. NUM_SLOTS)
      /\ t = Main => cur' = cur
      /\ t = Worker => cur' = None /\ frame'[Worker].at = "idle"
  BY <1>2, IdleFrame, Distinct DEF DestroySlot, Shape, TypeOK
<1>6. /\ entry \in [Assets -> Entry] /\ jobs \in [Threads -> Seq(Job)]
      /\ held \in [Assets -> Handles] /\ raced \in BOOLEAN
  BY DEF Shape, TypeOK
<1>7. QED
  BY <1>2, <1>3, <1>4, <1>5, <1>6, ThreadStep

(* The steps of a job.                                                     *)
LEMMA WorkerGoto ==
    ASSUME Shape, ~At(Worker, "destroy"),
           NEW l \in {"idle", "compile", "parse", "init", "fail", "loaded", "check", "notify", "write"},
           Goto(Worker, l)
    PROVE  /\ FrameOK' /\ frame' \in [Threads -> Frame]
           /\ frame'[Worker].at = l /\ frame'[Worker].doomed = frame[Worker].doomed
           /\ \A u \in Threads : u # Worker => frame'[u] = frame[u]
           /\ ParentAsked' /\ ParentWaitIsVain'
<1>1. Worker \in Threads
  BY DEF Threads
<1>2. /\ FrameOK' /\ frame' \in [Threads -> Frame]
      /\ frame'[Worker].at = l /\ frame'[Worker].doomed = frame[Worker].doomed
      /\ \A u \in Threads : u # Worker => frame'[u] = frame[u]
  BY <1>1, GotoStep
<1>3. ParentAsked' /\ ParentWaitIsVain'
  BY <1>2, NotAsking
<1>4. QED
  BY <1>2, <1>3

LEMMA WorkerStep ==
    ASSUME Shape,
           FrameOK', frame' \in [Threads -> Frame],
           \A u \in Threads : u # Worker => frame'[u] = frame[u],
           ParentAsked', ParentWaitIsVain',
           entry' \in [Assets -> Entry], slots' \in SUBSET (1 .. NUM_SLOTS),
           jobs' \in [Threads -> Seq(Job)], held' \in [Assets -> Handles],
           asserted' \in SUBSET Assertion, raced' \in BOOLEAN,
           cur' \in Job \cup {None}, cur' = None <=> frame'[Worker].at = "idle"
    PROVE  Shape'
  BY Distinct, ThreadStep DEF Threads

LEMMA DequeueShape ==
    ASSUME Shape, NEW p \in Threads, Dequeue(p)
    PROVE  Shape'
<1>1. /\ jobs[p] \in Seq(Job) /\ jobs[p] # <<>>
      /\ cur' = Head(jobs[p]) /\ jobs' = [jobs EXCEPT ![p] = Tail(@)]
      /\ ~At(Worker, "destroy") /\ UNCHANGED <<entry, slots, held, asserted, raced>>
  BY DEF Dequeue, Shape, TypeOK, At
<1>2. Head(jobs[p]) \in Job /\ Tail(jobs[p]) \in Seq(Job)
  BY <1>1
<1>3. PICK l \in {"compile", "write"} : Goto(Worker, l)
  BY DEF Dequeue
<1>4. /\ FrameOK' /\ frame' \in [Threads -> Frame]
      /\ frame'[Worker].at = l
      /\ \A u \in Threads : u # Worker => frame'[u] = frame[u]
      /\ ParentAsked' /\ ParentWaitIsVain'
  BY <1>1, <1>3, WorkerGoto
<1>5. cur' # None
  BY <1>1, <1>2, AssetSystemAssumption DEF AssetSystemAssumption, Job
<1>6. jobs' \in [Threads -> Seq(Job)]
  BY <1>1, <1>2 DEF Shape, TypeOK
<1>7. QED
  BY <1>1, <1>2, <1>4, <1>5, <1>6, WorkerStep DEF Shape, TypeOK

LEMMA WriteShape ==
    ASSUME Shape, Write
    PROVE  Shape'
<1>1. /\ Goto(Worker, "idle") /\ ~At(Worker, "destroy") /\ cur' = None
      /\ asserted' \in SUBSET Assertion /\ UNCHANGED <<entry, slots, jobs, held, raced>>
  BY DEF Write, At, Shape, TypeOK, Job, Assertion
<1>2. /\ FrameOK' /\ frame' \in [Threads -> Frame]
      /\ frame'[Worker].at = "idle"
      /\ \A u \in Threads : u # Worker => frame'[u] = frame[u]
      /\ ParentAsked' /\ ParentWaitIsVain'
  BY <1>1, WorkerGoto
<1>3. QED
  BY <1>1, <1>2, WorkerStep DEF Shape, TypeOK

LEMMA CompileShape ==
    ASSUME Shape, Compile
    PROVE  Shape'
<1>1. cur # None /\ cur.asset \in Assets /\ ~At(Worker, "destroy") /\ UNCHANGED <<jobs, cur, held, asserted, raced>>
  BY DEF Compile, Shape, TypeOK, At, Job
<1>2. PICK l \in {"check", "parse"} : Goto(Worker, l)
  BY DEF Compile
<1>3. /\ FrameOK' /\ frame' \in [Threads -> Frame]
      /\ frame'[Worker].at = l
      /\ \A u \in Threads : u # Worker => frame'[u] = frame[u]
      /\ ParentAsked' /\ ParentWaitIsVain'
  BY <1>1, <1>2, WorkerGoto
<1>4. \A h \in 1 .. NUM_SLOTS : [stage |-> "Compiling", handle |-> h] \in Entry
  BY DEF Entry, Stages, Handles
<1>5. [entry[cur.asset] EXCEPT !.stage = "Compiling"] \in Entry
  BY <1>1 DEF Shape, TypeOK, Entry, Stages
<1>6. entry' \in [Assets -> Entry] /\ slots' \in SUBSET (1 .. NUM_SLOTS)
  BY <1>1, <1>4, <1>5 DEF Compile, Shape, TypeOK
<1>7. QED
  BY <1>1, <1>3, <1>6, WorkerStep DEF Shape, TypeOK

LEMMA RequestParentShape ==
    ASSUME Shape, RequestParent
    PROVE  Shape'
<1> DEFINE p == Parent[cur.asset]
           f == [Idle EXCEPT !.at = "read", !.todo = <<p>>, !.after = "poll", !.target = p]
<1>1. cur # None /\ cur.asset \in Assets /\ p # None /\ UNCHANGED <<entry, slots, jobs, cur, held, asserted, raced>>
  BY DEF RequestParent, Shape, TypeOK, At, Job
<1>2. p \in Assets /\ p \in RequestedByLoads
  BY <1>1, LoadsAsk
<1>3. <<p>> \in Seq(Assets) /\ <<p>> \in Seq(Requested(Worker))
  <2>1. Requested(Worker) = RequestedByLoads
    BY Distinct DEF Requested
  <2>2. \A S : \A x \in S : <<x>> \in Seq(S)
    OBVIOUS
  <2>3. QED
    BY <1>2, <2>1, <2>2
<1>4. f \in Frame
  BY <1>2, <1>3, IdleFrame, FrameFields
<1>5. /\ f.at = "read" /\ f.todo = <<p>> /\ f.after = "poll" /\ f.target = p
      /\ f.tries = 0 /\ f.doomed = Invalid
  BY DEF Idle
<1>6. frame' = [frame EXCEPT ![Worker] = f]
  BY DEF RequestParent
<1>7. Worker \in Threads /\ <<p>> # <<>>
  BY DEF Threads
<1> HIDE DEF f
<1>8. /\ FrameOK' /\ frame' \in [Threads -> Frame] /\ frame'[Worker] = f
      /\ \A u \in Threads : u # Worker => frame'[u] = frame[u]
  BY <1>3, <1>4, <1>5, <1>6, <1>7, FrameReplaced
<1>9. ParentAsked' /\ ParentWaitIsVain'
  BY <1>1, <1>5, <1>7, <1>8 DEF ParentAsked, ParentWaitIsVain, AskingParent, Requesting, At
<1>10. QED
  BY <1>1, <1>5, <1>8, <1>9, WorkerStep DEF Shape, TypeOK

LEMMA ParsedShape ==
    ASSUME Shape, Parsed
    PROVE  Shape'
<1>1. /\ cur # None /\ cur.asset \in Assets /\ ~At(Worker, "destroy") /\ UNCHANGED <<slots, jobs, cur, held, raced>>
      /\ Goto(Worker, "init") /\ asserted' \in SUBSET Assertion
  BY DEF Parsed, Shape, TypeOK, At, Job, Assertion
<1>2. /\ FrameOK' /\ frame' \in [Threads -> Frame]
      /\ frame'[Worker].at = "init"
      /\ \A u \in Threads : u # Worker => frame'[u] = frame[u]
      /\ ParentAsked' /\ ParentWaitIsVain'
  BY <1>1, WorkerGoto
<1>3. [entry[cur.asset] EXCEPT !.stage = "Loading"] \in Entry
  BY <1>1 DEF Shape, TypeOK, Entry, Stages
<1>4. entry' \in [Assets -> Entry]
  BY <1>1, <1>3 DEF Parsed, Shape, TypeOK
<1>5. QED
  BY <1>1, <1>2, <1>4, WorkerStep DEF Shape, TypeOK

LEMMA FailedShape ==
    ASSUME Shape, Failed
    PROVE  Shape'
<1>1. /\ cur # None /\ ~At(Worker, "destroy") /\ UNCHANGED <<entry, slots, jobs, cur, held, asserted, raced>>
      /\ Goto(Worker, "fail")
  BY DEF Failed, Shape, TypeOK, At
<1>2. /\ FrameOK' /\ frame' \in [Threads -> Frame]
      /\ frame'[Worker].at = "fail"
      /\ \A u \in Threads : u # Worker => frame'[u] = frame[u]
      /\ ParentAsked' /\ ParentWaitIsVain'
  BY <1>1, WorkerGoto
<1>3. QED
  BY <1>1, <1>2, WorkerStep DEF Shape, TypeOK

LEMMA ResetFailedShape ==
    ASSUME Shape, ResetFailed
    PROVE  Shape'
<1> DEFINE h == entry[cur.asset].handle
           f == [Idle EXCEPT !.at = "destroy", !.doomed = h]
           g == IF h = Invalid THEN Idle ELSE f
<1>1. /\ cur # None /\ cur.asset \in Assets /\ h \in Handles /\ UNCHANGED <<slots, jobs, held, asserted, raced>>
      /\ entry' = [entry EXCEPT ![cur.asset] = Reset]
      /\ frame' = [frame EXCEPT ![Worker] = g]
      /\ cur' = IF h = Invalid THEN None ELSE cur
  BY DEF ResetFailed, Shape, TypeOK, At, Job, Entry
<1>2. Reset \in Entry
  BY DEF Reset, Entry, Stages, Handles
<1>3. entry' \in [Assets -> Entry]
  BY <1>1, <1>2 DEF Shape, TypeOK
<1>4. <<>> \in Seq(Requested(Worker)) /\ Worker \in Threads
  BY DEF Threads
<1>5. f \in Frame /\ f.at = "destroy" /\ f.doomed = h /\ f.todo = <<>>
  BY <1>1, IdleFrame, FrameFields DEF Idle
<1> HIDE DEF f
<1>6. g.at = (IF h = Invalid THEN "idle" ELSE "destroy") /\ g.doomed = h
  BY <1>5, IdleFrame
<1>7. g \in Frame /\ g.todo = <<>>
  BY <1>5, IdleFrame
<1> HIDE DEF g
<1>8. /\ FrameOK' /\ frame' \in [Threads -> Frame] /\ frame'[Worker] = g
      /\ \A u \in Threads : u # Worker => frame'[u] = frame[u]
  BY <1>1, <1>4, <1>6, <1>7, FrameReplaced
<1>9. ParentAsked' /\ ParentWaitIsVain'
  BY <1>6, <1>8, NotAsking
<1>10. QED
  BY <1>1, <1>3, <1>6, <1>8, <1>9, WorkerStep DEF Shape, TypeOK

LEMMA InitializeRuntimeShape ==
    ASSUME Shape, InitializeRuntime
    PROVE  Shape'
<1> DEFINE f == [Idle EXCEPT !.at = "read", !.todo = Deps[cur.asset], !.after = "loaded"]
<1>1. cur # None /\ cur.asset \in Assets /\ UNCHANGED <<entry, slots, jobs, cur, held, asserted, raced>>
  BY DEF InitializeRuntime, Shape, TypeOK, At, Job
<1>2. Deps[cur.asset] \in Seq(Assets) /\ Deps[cur.asset] \in Seq(Requested(Worker))
  BY <1>1, LoadsAsk, Distinct DEF Requested
<1>3. f \in Frame
  BY <1>2, IdleFrame, FrameFields
<1>4. f.at = "read" /\ f.todo = Deps[cur.asset] /\ f.after = "loaded" /\ f.doomed = Invalid
  BY DEF Idle
<1>5. frame' = [frame EXCEPT ![Worker] = f] /\ Worker \in Threads
  BY DEF InitializeRuntime, Threads
<1> HIDE DEF f
<1>6. /\ FrameOK' /\ frame' \in [Threads -> Frame] /\ frame'[Worker] = f
      /\ \A u \in Threads : u # Worker => frame'[u] = frame[u]
  BY <1>2, <1>3, <1>4, <1>5, FrameReplaced
<1>7. ParentAsked' /\ ParentWaitIsVain'
  BY <1>4, <1>6 DEF ParentAsked, ParentWaitIsVain, AskingParent, Requesting, At
<1>8. QED
  BY <1>1, <1>4, <1>6, <1>7, WorkerStep DEF Shape, TypeOK

LEMMA SetLoadedShape ==
    ASSUME Shape, SetLoaded
    PROVE  Shape'
<1>1. /\ cur # None /\ cur.asset \in Assets /\ ~At(Worker, "destroy") /\ UNCHANGED <<slots, jobs, cur, held, asserted, raced>>
      /\ Goto(Worker, "check")
  BY DEF SetLoaded, Shape, TypeOK, At, Job
<1>2. /\ FrameOK' /\ frame' \in [Threads -> Frame]
      /\ frame'[Worker].at = "check"
      /\ \A u \in Threads : u # Worker => frame'[u] = frame[u]
      /\ ParentAsked' /\ ParentWaitIsVain'
  BY <1>1, WorkerGoto
<1>3. [entry[cur.asset] EXCEPT !.stage = "Loaded"] \in Entry
  BY <1>1 DEF Shape, TypeOK, Entry, Stages
<1>4. entry' \in [Assets -> Entry]
  BY <1>1, <1>3 DEF SetLoaded, Shape, TypeOK
<1>5. QED
  BY <1>1, <1>2, <1>4, WorkerStep DEF Shape, TypeOK

LEMMA CheckLoadedShape ==
    ASSUME Shape, CheckLoaded
    PROVE  Shape'
<1>1. /\ cur # None /\ ~At(Worker, "destroy") /\ UNCHANGED <<entry, slots, jobs, held, asserted, raced>>
  BY DEF CheckLoaded, Shape, TypeOK, At
<1>2. PICK l \in {"notify", "idle"} : /\ Goto(Worker, l)
                                     /\ cur' = IF l = "notify" THEN cur ELSE None
  BY DEF CheckLoaded
<1>3. /\ FrameOK' /\ frame' \in [Threads -> Frame]
      /\ frame'[Worker].at = l
      /\ \A u \in Threads : u # Worker => frame'[u] = frame[u]
      /\ ParentAsked' /\ ParentWaitIsVain'
  BY <1>1, <1>2, WorkerGoto
<1>4. QED
  BY <1>1, <1>2, <1>3, WorkerStep DEF Shape, TypeOK

LEMMA NotifyShape ==
    ASSUME Shape, Notify
    PROVE  Shape'
<1>1. /\ cur # None /\ cur.asset \in Assets /\ cur' = None /\ UNCHANGED <<entry, slots, jobs, asserted, raced>>
      /\ frame' = [frame EXCEPT ![Worker] = Idle]
  BY DEF Notify, Shape, TypeOK, At, Job
<1>2. <<>> \in Seq(Requested(Worker)) /\ Worker \in Threads
  BY DEF Threads
<1>3. /\ FrameOK' /\ frame' \in [Threads -> Frame] /\ frame'[Worker] = Idle
      /\ \A u \in Threads : u # Worker => frame'[u] = frame[u]
  BY <1>1, <1>2, IdleFrame, FrameReplaced
<1>4. ParentAsked' /\ ParentWaitIsVain'
  BY <1>3, IdleFrame, NotAsking
<1>5. held' \in [Assets -> Handles]
  BY <1>1 DEF Notify, Shape, TypeOK, Entry, Handles
<1>6. QED
  BY <1>1, <1>3, <1>4, <1>5, IdleFrame, WorkerStep DEF Shape, TypeOK

LEMMA ShapeStep == Shape /\ [Next]_vars => Shape'
<1> SUFFICES ASSUME Shape, [Next]_vars PROVE Shape'
  OBVIOUS
<1>1. ASSUME NEW a \in Assets, NEW cb \in BOOLEAN, Request(a, cb) PROVE Shape'
  BY <1>1, RequestShape
<1>2. ASSUME NEW a \in Assets, ScopedLock(a) PROVE Shape'
  BY <1>2, ScopedLockShape
<1>3. ASSUME NEW a \in Assets, RequestWrite(a) PROVE Shape'
  BY <1>3, RequestWriteShape
<1>4. ASSUME NEW a \in Assets, CreateNewAsset(a) PROVE Shape'
  BY <1>4, CreateShape
<1>5. ASSUME NEW a \in Assets, Unload(a) PROVE Shape'
  BY <1>5, UnloadShape
<1>6. ASSUME NEW t \in Threads, InCall(t) PROVE Shape'
  BY <1>6, ReadStageShape, MarkLoadingShape, ExecuteShape, PollShape, DestroySlotShape DEF InCall
<1>7. ASSUME NEW p \in Threads, Dequeue(p) PROVE Shape'
  BY <1>7, DequeueShape
<1>8. CASE InJob
  BY <1>8, WriteShape, CompileShape, RequestParentShape, ParsedShape, FailedShape, ResetFailedShape,
     InitializeRuntimeShape, SetLoadedShape, CheckLoadedShape, NotifyShape DEF InJob
<1>9. CASE UNCHANGED vars
  BY <1>9 DEF vars, Shape, TypeOK, FrameOK, ParentAsked, ParentWaitIsVain, AskingParent, Requesting, At
<1>10. QED
  BY <1>1, <1>2, <1>3, <1>4, <1>5, <1>6, <1>7, <1>8, <1>9 DEF Next

-----------------------------------------------------------------------------
(* Only the main thread asks with a callback, so an owner's copy is of     *)
(* what the main thread requests.                                          *)
Asked ==
    /\ ~frame[Worker].cb
    /\ \A t \in Threads : \A i \in DOMAIN jobs[t] : jobs[t][i].cb => jobs[t][i].asset \in Requests
    /\ cur # None => (cur.cb => cur.asset \in Requests)
    /\ \A a \in Assets : held[a] # Invalid => a \in Requests

LEMMA AskedInit == Init => Asked
  BY IdleFrame DEF Init, Asked, Idle, Threads

LEMMA AskedStep ==
    ASSUME Shape, Asked, [Next]_vars
    PROVE  Asked'
<1>1. \A t \in Threads : frame[t] \in Frame /\ jobs[t] \in Seq(Job) /\ frame[t].todo \in Seq(Requested(t))
  BY DEF Shape, TypeOK, FrameOK
<1>2. ~Idle.cb /\ Main \in Threads /\ Worker \in Threads /\ Main # Worker
  BY Distinct DEF Idle, Threads
<1>3. ASSUME NEW t \in Threads, frame[t].todo # <<>>, frame[t].cb
      PROVE  Head(frame[t].todo) \in Requests
  <2>1. t = Main
    BY <1>3 DEF Asked, Threads
  <2>2. QED
    BY <1>1, <1>3, <2>1 DEF Requested
<1>4. ASSUME UNCHANGED <<jobs, cur, held>>, frame'[Worker].cb = frame[Worker].cb PROVE Asked'
  BY <1>4 DEF Asked
<1>5. CASE UNCHANGED vars
  BY <1>4, <1>5 DEF vars
<1>6. ASSUME NEW a \in Assets, NEW cb \in BOOLEAN, Request(a, cb) \/ ScopedLock(a) PROVE Asked'
  BY <1>2, <1>4, <1>6 DEF Request, ScopedLock, Shape, TypeOK
<1>7. ASSUME NEW a \in Assets, RequestWrite(a) PROVE Asked'
  <2> DEFINE j == [op |-> "write", asset |-> a, cb |-> FALSE]
  <2>1. jobs' = [jobs EXCEPT ![Main] = Append(@, j)] /\ UNCHANGED <<cur, frame, held>> /\ ~j.cb /\ j \in Job
    BY <1>7 DEF RequestWrite, Job
  <2> HIDE DEF j
  <2>2. \A t \in Threads : \A i \in DOMAIN jobs'[t] :
            jobs'[t][i] = j \/ (i \in DOMAIN jobs[t] /\ jobs'[t][i] = jobs[t][i])
    BY <1>1, <1>2, <2>1, AppendedTo DEF Shape, TypeOK
  <2>3. QED
    BY <2>1, <2>2 DEF Asked
<1>8. ASSUME NEW a \in Assets, CreateNewAsset(a) PROVE Asked'
  BY <1>4, <1>8 DEF CreateNewAsset
<1>9. ASSUME NEW a \in Assets, Unload(a) PROVE Asked'
  BY <1>2, <1>9 DEF Unload, Asked, Shape, TypeOK
<1>10. ASSUME NEW t \in Threads, ReadStage(t) PROVE Asked'
  <2>1. frame'[Worker].cb = frame[Worker].cb /\ UNCHANGED <<jobs, cur>>
    <3>1. CASE \E l : Goto(t, l)
      BY <1>1, <1>2, <1>10, <3>1 DEF ReadStage, Goto, Shape, TypeOK, Frame
    <3>2. CASE frame' = [frame EXCEPT ![t].todo = Tail(@)]
      BY <1>1, <1>2, <1>10, <3>2 DEF ReadStage, Shape, TypeOK, Frame
    <3>3. QED
      BY <1>10, <3>1, <3>2 DEF ReadStage
  <2>2. \A a \in Assets : held'[a] # Invalid =>
            held[a] # Invalid \/ (frame[t].todo # <<>> /\ frame[t].cb /\ a = Head(frame[t].todo))
    BY <1>10 DEF ReadStage, Shape, TypeOK
  <2>3. QED
    BY <1>3, <2>1, <2>2 DEF Asked
<1>11. ASSUME NEW t \in Threads, MarkLoading(t) PROVE Asked'
  BY <1>1, <1>2, <1>4, <1>11 DEF MarkLoading, Goto, Shape, TypeOK, Frame
<1>12. ASSUME NEW t \in Threads, Execute(t) PROVE Asked'
  <2> DEFINE j == [op |-> "load", asset |-> Head(frame[t].todo), cb |-> frame[t].cb]
  <2>1. /\ jobs' = [jobs EXCEPT ![t] = Append(@, j)] /\ UNCHANGED <<cur, held>>
        /\ frame'[Worker].cb = frame[Worker].cb
        /\ frame[t].todo # <<>> /\ frame[t].todo \in Seq(Assets) /\ frame[t].cb \in BOOLEAN
    BY <1>1, <1>2, <1>12 DEF Execute, Shape, TypeOK, FrameOK, Frame, At
  <2>2. j \in Job
    BY <2>1 DEF Job
  <2>3. j.cb => j.asset \in Requests
    BY <1>3, <2>1
  <2> HIDE DEF j
  <2>4. \A u \in Threads : \A i \in DOMAIN jobs'[u] :
            jobs'[u][i] = j \/ (i \in DOMAIN jobs[u] /\ jobs'[u][i] = jobs[u][i])
    BY <1>1, <1>2, <2>1, <2>2, AppendedTo DEF Shape, TypeOK
  <2>5. QED
    BY <2>1, <2>3, <2>4 DEF Asked
<1>13. ASSUME NEW t \in Threads, Poll(t) PROVE Asked'
  <2> DEFINE done(l) == [Idle EXCEPT !.at = l]
  <2>1. [frame[Worker] EXCEPT !.tries = @ + 1].cb = frame[Worker].cb
    BY <1>1, <1>2 DEF Frame
  <2>2. \/ \E l : frame' = [frame EXCEPT ![t] = done(l)]
        \/ frame' = [frame EXCEPT ![t] = [frame[t] EXCEPT !.tries = @ + 1]]
    BY <1>13 DEF Poll, Shape, TypeOK
  <2> HIDE DEF done
  <2>3. frame'[Worker].cb = frame[Worker].cb
    <3>1. \A f : frame' = [frame EXCEPT ![t] = f] =>
             frame'[Worker] = IF t = Worker THEN f ELSE frame[Worker]
      BY <1>2 DEF Shape, TypeOK
    <3>2. ~frame[Worker].cb /\ frame[Worker].cb \in BOOLEAN
      BY <1>1, <1>2 DEF Asked, Frame
    <3>3. \A l : done(l).cb = FALSE
      BY DEF done, Idle
    <3>4. CASE t = Worker
      <4>1. CASE \E l : frame' = [frame EXCEPT ![t] = done(l)]
        <5>1. PICK l : frame' = [frame EXCEPT ![t] = done(l)]
          BY <4>1
        <5>2. frame'[Worker] = done(l)
          BY <3>1, <3>4, <5>1
        <5> QED
          BY <3>2, <3>3, <5>2
      <4>2. CASE frame' = [frame EXCEPT ![t] = [frame[t] EXCEPT !.tries = @ + 1]]
        BY <2>1, <3>1, <3>4, <4>2
      <4>3. QED
        BY <2>2, <4>1, <4>2
    <3>5. CASE t # Worker
      BY <2>2, <3>1, <3>5
    <3>6. QED
      BY <3>4, <3>5
  <2>4. QED
    BY <1>4, <1>13, <2>3 DEF Poll
<1>14. ASSUME NEW t \in Threads, DestroySlot(t) PROVE Asked'
  <2>1. ~frame'[Worker].cb
    BY <1>2, <1>14 DEF DestroySlot, Asked, Shape, TypeOK
  <2>2. QED
    BY <1>14, <2>1 DEF DestroySlot, Asked
<1>15. ASSUME NEW p \in Threads, Dequeue(p) PROVE Asked'
  <2>1. /\ jobs[p] # <<>> /\ cur' = Head(jobs[p]) /\ jobs' = [jobs EXCEPT ![p] = Tail(@)]
        /\ UNCHANGED held /\ frame'[Worker].cb = frame[Worker].cb
    BY <1>1, <1>2, <1>15 DEF Dequeue, Goto, Shape, TypeOK, Frame
  <2>2. 1 \in DOMAIN jobs[p] /\ cur' = jobs[p][1]
    BY <1>1, <2>1
  <2>3. \A i \in DOMAIN Tail(jobs[p]) : i + 1 \in DOMAIN jobs[p] /\ Tail(jobs[p])[i] = jobs[p][i + 1]
    BY <1>1, <2>1, TailOf
  <2>4. \A t \in Threads : \A i \in DOMAIN jobs'[t] : \E k \in DOMAIN jobs[t] : jobs'[t][i] = jobs[t][k]
    BY <2>1, <2>3 DEF Shape, TypeOK
  <2>5. QED
    BY <2>1, <2>2, <2>4 DEF Asked
<1>16. CASE Notify
  <2>1. ~frame'[Worker].cb /\ UNCHANGED jobs /\ cur' = None
    BY <1>2, <1>16 DEF Notify, Shape, TypeOK
  <2>2. \A a \in Assets : held'[a] # Invalid => held[a] # Invalid \/ (cur.cb /\ a = cur.asset)
    BY <1>16 DEF Notify, Shape, TypeOK
  <2>3. cur # None
    BY <1>16 DEF Notify, Shape, TypeOK, At
  <2>4. QED
    BY <2>1, <2>2, <2>3 DEF Asked
<1>17. CASE Write \/ Compile \/ Parsed \/ Failed \/ SetLoaded \/ CheckLoaded
  <2>1. frame'[Worker].cb = frame[Worker].cb
    BY <1>1, <1>2, <1>17
    DEF Write, Compile, Parsed, Failed, SetLoaded, CheckLoaded, Goto, Shape, TypeOK, Frame
  <2>2. UNCHANGED <<jobs, held>> /\ cur' \in {cur, None}
    BY <1>17 DEF Write, Compile, Parsed, Failed, SetLoaded, CheckLoaded
  <2>3. QED
    BY <2>1, <2>2 DEF Asked
<1>18. CASE RequestParent \/ InitializeRuntime \/ ResetFailed
  <2>1. ~frame'[Worker].cb
    <3>1. \E f : frame' = [frame EXCEPT ![Worker] = f] /\ f.cb = FALSE
      <4>0. /\ Idle.cb = FALSE
            /\ \A l, todo, after, target :
                  [Idle EXCEPT !.at = l, !.todo = todo, !.after = after, !.target = target].cb = FALSE
            /\ \A l, todo, after : [Idle EXCEPT !.at = l, !.todo = todo, !.after = after].cb = FALSE
            /\ \A l, h : [Idle EXCEPT !.at = l, !.doomed = h].cb = FALSE
        BY DEF Idle
      <4>1. CASE RequestParent
        <5> DEFINE f == [Idle EXCEPT !.at = "read", !.todo = <<Parent[cur.asset]>>,
                                     !.after = "poll", !.target = Parent[cur.asset]]
        <5>1. frame' = [frame EXCEPT ![Worker] = f]
          BY <4>1 DEF RequestParent
        <5>2. f.cb = FALSE
          BY <4>0
        <5> HIDE DEF f
        <5> QED
          BY <5>1, <5>2
      <4>2. CASE InitializeRuntime
        <5> DEFINE f == [Idle EXCEPT !.at = "read", !.todo = Deps[cur.asset], !.after = "loaded"]
        <5>1. frame' = [frame EXCEPT ![Worker] = f]
          BY <4>2 DEF InitializeRuntime
        <5>2. f.cb = FALSE
          BY <4>0
        <5> HIDE DEF f
        <5> QED
          BY <5>1, <5>2
      <4>3. CASE ResetFailed
        BY <4>0, <4>3 DEF ResetFailed
      <4>4. QED
        BY <1>18, <4>1, <4>2, <4>3
    <3>2. QED
      BY <1>2, <3>1 DEF Shape, TypeOK
  <2>2. UNCHANGED <<jobs, held>> /\ cur' \in {cur, None}
    BY <1>18 DEF RequestParent, InitializeRuntime, ResetFailed
  <2>3. QED
    BY <2>1, <2>2 DEF Asked
<1>19. QED
  BY <1>5, <1>6, <1>7, <1>8, <1>9, <1>10, <1>11, <1>12, <1>13, <1>14, <1>15, <1>16, <1>17, <1>18
  DEF Next, InCall, InJob

(* The types, whoever asks for which asset.                                *)
THEOREM AssetsShape == Spec => []Shape
  BY ShapeInit, ShapeStep, PTL DEF Spec

(* Whose copies there are, whoever else asks for the same asset.           *)
THEOREM AssetsAsked == Spec => []Asked
<1>1. Shape /\ Asked /\ [Next]_vars => Asked'
  BY AskedStep
<1>2. QED
  BY AssetsShape, AskedInit, <1>1, PTL DEF Spec

THEOREM AssetsTypeOK == Spec => []TypeOK
<1>1. Shape => TypeOK
  BY DEF Shape
<1>2. QED
  BY <1>1, AssetsShape, PTL

(* With one compiler thread, a parent that is not Loaded when the thread   *)
(* first looks never is while it waits (me_serialize.cpp:196), for every   *)
(* number of attempts.                                                     *)
THEOREM AssetsParentWaitIsVain == Spec => []ParentWaitIsVain
<1>1. Shape => ParentWaitIsVain
  BY DEF Shape
<1>2. QED
  BY <1>1, AssetsShape, PTL

-----------------------------------------------------------------------------
(* Loads and their owners.                                                 *)

StagesTellHandles ==
    \A a \in Assets :
        /\ entry[a].stage \in {"None", "Unloaded"} => entry[a].handle = Invalid
        /\ entry[a].stage \in {"Compiling", "Loaded"} => entry[a].handle # Invalid

(* An asset that is to be loaded: marked, and no slot taken yet.           *)
ToBeLoaded(a) == entry[a].stage = "Loading" /\ entry[a].handle = Invalid

Compiles(a) == At(Worker, "compile") /\ cur.asset = a

(* No job of the queue loads the asset.                                    *)
NotQueued(a) ==
    \A t \in Threads : \A i \in DOMAIN jobs[t] : jobs[t][i].op = "load" => jobs[t][i].asset # a

(* The owner of a load is the thread that has marked and will queue it ... *)
MustQueue(t, a) == At(t, "execute") /\ Head(frame[t].todo) = a

RequestsOwnLoads ==
    \A t \in Threads, a \in Assets : MustQueue(t, a) =>
        /\ ToBeLoaded(a) /\ NotQueued(a) /\ ~Compiles(a)
        /\ \A u \in Threads : MustQueue(u, a) => u = t

(* ... the queue, where it is once ...                                     *)
QueueOwnsLoads ==
    \A t \in Threads : \A i \in DOMAIN jobs[t] : jobs[t][i].op = "load" =>
        /\ ToBeLoaded(jobs[t][i].asset)
        /\ ~Compiles(jobs[t][i].asset)
        /\ \A u \in Threads : \A k \in DOMAIN jobs[u] :
              jobs[u][k].op = "load" /\ jobs[u][k].asset = jobs[t][i].asset => u = t /\ k = i

(* ... and the worker, until the asset is Loaded or reset.                 *)
HasSlot == frame[Worker].at \in {"parse", "read", "mark", "execute", "poll", "copy",
                                 "init", "loaded", "fail"}

WorkerOwnsLoad ==
    /\ At(Worker, "compile") => ToBeLoaded(cur.asset)
    /\ HasSlot => /\ entry[cur.asset].stage \in {"Loading", "Compiling"}
                  /\ entry[cur.asset].handle # Invalid

Loads == StagesTellHandles /\ RequestsOwnLoads /\ QueueOwnsLoads /\ WorkerOwnsLoad

-----------------------------------------------------------------------------
(* A slot is held by one entry or by one thread about to destroy it.       *)
InEntry(h) == \E a \in Assets : entry[a].handle = h
Doomed(h)  == \E t \in Threads : frame[t].doomed = h

SlotsHaveOneOwner ==
    /\ \A h \in 1 .. NUM_SLOTS : h \in slots <=> InEntry(h) \/ Doomed(h)
    /\ \A a, b \in Assets :
          entry[a].handle = entry[b].handle /\ entry[a].handle # Invalid => a = b
    /\ \A a \in Assets, t \in Threads :
          entry[a].handle = frame[t].doomed => entry[a].handle = Invalid
    /\ frame[Main].doomed = frame[Worker].doomed => frame[Main].doomed = Invalid

WritesOfLoaded ==
    /\ \A t \in Threads : \A i \in DOMAIN jobs[t] : jobs[t][i].op = "write" =>
          /\ jobs[t][i].asset \in Writes
          /\ jobs[t][i].asset \notin Unloads => IsLoaded(jobs[t][i].asset)
    /\ At(Worker, "write") =>
          cur.asset \in Writes /\ (cur.asset \notin Unloads => IsLoaded(cur.asset))

(* From the copy of the parent on, it is there.                            *)
OverParent ==
    \/ frame[Worker].at \in {"copy", "init", "loaded"}
    \/ Requesting(Worker) /\ frame[Worker].after = "loaded"

(* A parent that the user does not unload.                                 *)
HasParent(a) == Parent[a] \notin Unloads \cup {None}

ParentThere == OverParent /\ HasParent(cur.asset) => IsLoaded(Parent[cur.asset])

(* What the properties say, but for the condition that nothing has raced.  *)
HeldCurrent ==
    \A a \in Assets : held[a] # Invalid => IsLoaded(a) /\ entry[a].handle = held[a]

ChildHasParent ==
    \A a \in Assets : HasParent(a) /\ IsLoaded(a) => IsLoaded(Parent[a])

OnlyLateSaves == asserted \subseteq {<<"write", a>> : a \in Writes \cap Unloads}

Contents ==
    WritesOfLoaded /\ ParentThere /\ HeldCurrent /\ ChildHasParent

Safe == Loads /\ SlotsHaveOneOwner /\ Contents /\ OnlyLateSaves

Calm == Shape /\ Loads /\ SlotsHaveOneOwner /\ Contents /\ OnlyLateSaves

(* Once a request has raced, only the types are left.                      *)
Inv == Shape /\ (raced \/ Safe)

-----------------------------------------------------------------------------
LEMMA SafeInit == Init => Safe
<1> SUFFICES ASSUME Init PROVE Safe
  OBVIOUS
<1>1. \A t \in Threads : frame[t] = Idle /\ jobs[t] = <<>>
  BY DEF Init
<1>2. \A a \in Assets : entry[a] = Absent /\ held[a] = Invalid
  BY DEF Init
<1>3. Loads
  BY <1>1, <1>2, IdleFrame
  DEF Loads, StagesTellHandles, RequestsOwnLoads, MustQueue, QueueOwnsLoads, WorkerOwnsLoad, HasSlot,
      Absent, Threads, At
<1>4. SlotsHaveOneOwner
  BY <1>1, <1>2, IdleFrame, Distinct
  DEF SlotsHaveOneOwner, InEntry, Doomed, Absent, Threads, Init
<1>5. Contents
  BY <1>1, <1>2, IdleFrame
  DEF Contents, WritesOfLoaded, ParentThere, OverParent, HeldCurrent, ChildHasParent,
      IsLoaded, Requesting, Absent, Threads, At
<1>6. QED
  BY <1>3, <1>4, <1>5 DEF Safe, OnlyLateSaves, Init

LEMMA JobsAreJobs ==
    ASSUME Calm
    PROVE  /\ \A u \in Threads : \A i \in DOMAIN jobs[u] : jobs[u][i] \in Job /\ jobs[u][i].asset \in Assets
           /\ ~At(Worker, "idle") => cur \in Job /\ cur.asset \in Assets
<1>1. \A u \in Threads : jobs[u] \in Seq(Job)
  BY DEF Calm, Shape, TypeOK
<1>2. \A u \in Threads : \A i \in DOMAIN jobs[u] : jobs[u][i] \in Job
  BY <1>1
<1>3. ~At(Worker, "idle") => cur \in Job
  BY DEF Calm, Shape, TypeOK
<1>4. QED
  BY <1>2, <1>3 DEF Job

(* A step of one thread that leaves the registry and the queue alone: what *)
(* is left to show of it.                                                  *)
LEMMA FrameStep ==
    ASSUME Calm, Shape', NEW t \in Threads,
           UNCHANGED <<entry, jobs>>,
           cur' = cur \/ frame'[Worker].at = "idle",
           \A u \in Threads : u # t => frame'[u] = frame[u],
           frame'[t].at \notin {"execute", "compile", "write"},
           t = Worker => (HasSlot' => HasSlot) /\ ParentThere',
           SlotsHaveOneOwner', HeldCurrent', OnlyLateSaves'
    PROVE  Calm'
<1>1. StagesTellHandles' /\ ChildHasParent'
  BY DEF Calm, Loads, StagesTellHandles, Contents, ChildHasParent, IsLoaded
<1>2. cur' = cur \/ frame'[Worker].at = "idle"
  OBVIOUS
<1>3. \A a : frame'[Worker].at = "compile" /\ cur'.asset = a => Compiles(a)
  BY <1>2 DEF Compiles, At, Threads
<1>4. RequestsOwnLoads'
  <2>1. \A u \in Threads, a \in Assets : MustQueue(u, a)' => MustQueue(u, a)
    BY DEF MustQueue, At
  <2>2. QED
    BY <1>3, <2>1 DEF Calm, Loads, RequestsOwnLoads, NotQueued, ToBeLoaded, Compiles, At
<1>5. QueueOwnsLoads'
  BY <1>3 DEF Calm, Loads, QueueOwnsLoads, ToBeLoaded, Compiles, At
<1>6. WorkerOwnsLoad'
  BY <1>2 DEF Calm, Loads, WorkerOwnsLoad, HasSlot, ToBeLoaded, At, Threads
<1>7. WritesOfLoaded'
  BY <1>2 DEF Calm, Contents, WritesOfLoaded, IsLoaded, At, Threads
<1>8. ParentThere'
  BY <1>2 DEF Calm, Contents, ParentThere, OverParent, IsLoaded, Requesting, Threads
<1>9. QED
  BY <1>1, <1>4, <1>5, <1>6, <1>7, <1>8 DEF Calm, Loads, Contents

LEMMA SlotsKept ==
    ASSUME Calm, UNCHANGED <<entry, slots>>,
           \A u \in Threads : frame'[u].doomed = frame[u].doomed
    PROVE  SlotsHaveOneOwner'
  BY Distinct DEF Calm, SlotsHaveOneOwner, InEntry, Doomed, Threads

LEMMA HeldKept ==
    ASSUME Calm, UNCHANGED <<entry, held>>
    PROVE  HeldCurrent'
  BY DEF Calm, Contents, HeldCurrent, IsLoaded

LEMMA RequestSafe ==
    ASSUME Calm, Shape', NEW a \in Assets, NEW cb \in BOOLEAN, Request(a, cb)
    PROVE  Calm'
<1>1. /\ UNCHANGED <<entry, slots, jobs, cur, held, asserted>>
      /\ frame'[Main].at = "read" /\ frame'[Main].doomed = frame[Main].doomed
      /\ \A u \in Threads : u # Main => frame'[u] = frame[u]
  BY Distinct DEF Request, Calm, Shape, TypeOK, FrameOK, Threads, Idle, At
<1>2. SlotsHaveOneOwner' /\ HeldCurrent' /\ OnlyLateSaves'
  BY <1>1, SlotsKept, HeldKept DEF Calm, OnlyLateSaves
<1>3. QED
  BY <1>1, <1>2, Distinct, FrameStep DEF Threads

LEMMA ScopedLockSafe ==
    ASSUME Calm, Shape', NEW a \in Assets, ScopedLock(a)
    PROVE  Calm'
<1>1. /\ UNCHANGED <<entry, slots, jobs, cur, held, asserted>>
      /\ frame'[Main].at = "read" /\ frame'[Main].doomed = frame[Main].doomed
      /\ \A u \in Threads : u # Main => frame'[u] = frame[u]
  BY Distinct DEF ScopedLock, Calm, Shape, TypeOK, FrameOK, Threads, Idle, At
<1>2. SlotsHaveOneOwner' /\ HeldCurrent' /\ OnlyLateSaves'
  BY <1>1, SlotsKept, HeldKept DEF Calm, OnlyLateSaves
<1>3. QED
  BY <1>1, <1>2, Distinct, FrameStep DEF Threads

(* A callback of the read step copies a Loaded entry.                      *)
LEMMA ReadStageSafe ==
    ASSUME Calm, Shape', NEW t \in Threads, ReadStage(t)
    PROVE  Calm'
<1> DEFINE a == Head(frame[t].todo)
<1>1. /\ UNCHANGED <<entry, slots, jobs, cur, asserted>>
      /\ At(t, "read") /\ frame[t] \in Frame /\ frame[t].after \in {"idle", "poll", "loaded"}
      /\ t = Worker => frame[t].after \in {"poll", "loaded"}
      /\ frame' \in [Threads -> Frame]
  BY DEF ReadStage, Calm, Shape, TypeOK, FrameOK, Frame, Requesting, At
<1>2. /\ frame'[t].doomed = frame[t].doomed /\ frame'[t].after = frame[t].after
      /\ \A u \in Threads : u # t => frame'[u] = frame[u]
      /\ \/ frame'[t].at = frame[t].after
         \/ frame'[t].at = "mark"
         \/ frame'[t].at = "read"
  BY <1>1 DEF ReadStage, Goto, Calm, Shape, TypeOK, Frame, At
<1>3. HeldCurrent'
  <2>1. CASE held' = held
    BY <1>1, <2>1, HeldKept
  <2>2. CASE frame[t].todo # <<>> /\ entry[a].stage = "Loaded" /\ held' = [held EXCEPT ![a] = entry[a].handle]
    <3>1. a \in Assets
      BY <2>2, TailOf DEF Calm, Shape, TypeOK, Frame
    <3>2. IsLoaded(a)
      BY <2>2, <3>1 DEF Calm, Loads, StagesTellHandles, IsLoaded
    <3>3. QED
      BY <1>1, <2>2, <3>1, <3>2 DEF Calm, Shape, TypeOK, Contents, HeldCurrent, IsLoaded
  <2>3. QED
    BY <2>1, <2>2 DEF ReadStage
<1>4. SlotsHaveOneOwner' /\ OnlyLateSaves'
  BY <1>1, <1>2, SlotsKept DEF Calm, OnlyLateSaves
<1>5. t = Worker => (HasSlot' => HasSlot) /\ ParentThere'
  BY <1>1, <1>2 DEF Calm, Contents, ParentThere, OverParent, HasSlot, Requesting, IsLoaded, At
<1>6. QED
  BY <1>1, <1>2, <1>3, <1>4, <1>5, FrameStep

LEMMA PollSafe ==
    ASSUME Calm, Shape', NEW t \in Threads, Poll(t)
    PROVE  Calm'
<1> DEFINE found == entry[frame[t].target].stage = "Loaded"
<1>1. /\ UNCHANGED <<entry, slots, jobs, cur, held, asserted>>
      /\ At(t, "poll") /\ frame[t] \in Frame
  BY DEF Poll, Calm, Shape, TypeOK, At
<1>2. /\ frame'[t].doomed = Invalid
      /\ \A u \in Threads : u # t => frame'[u] = frame[u]
      /\ \/ frame'[t].at \in {"poll", "idle", "fail"}
         \/ t = Worker /\ found /\ frame'[t].at = "copy"
  <2> DEFINE next  == IF t = Main THEN "idle" ELSE IF found THEN "copy" ELSE "fail"
             done  == [Idle EXCEPT !.at = next]
             again == [frame[t] EXCEPT !.tries = @ + 1]
  <2>1. \/ frame' = [frame EXCEPT ![t] = again]
        \/ frame' = [frame EXCEPT ![t] = done]
    BY DEF Poll, Calm, Shape, TypeOK
  <2>2. done.at = next /\ done.doomed = Invalid
    BY DEF Idle
  <2>3. again.at = "poll" /\ again.doomed = Invalid
    BY <1>1 DEF Calm, Shape, FrameOK, Frame, At
  <2> HIDE DEF done, again
  <2>4. frame'[t] \in {again, done} /\ \A u \in Threads : u # t => frame'[u] = frame[u]
    BY <2>1 DEF Calm, Shape, TypeOK
  <2>5. next \in {"idle", "fail"} \/ (t = Worker /\ found /\ next = "copy")
    BY DEF Threads
  <2> HIDE DEF next
  <2>6. QED
    BY <2>2, <2>3, <2>4, <2>5
<1>3. SlotsHaveOneOwner' /\ HeldCurrent' /\ OnlyLateSaves'
  BY <1>1, <1>2, SlotsKept, HeldKept DEF Calm, Shape, FrameOK, OnlyLateSaves, At
<1>4. ASSUME t = Worker PROVE (HasSlot' => HasSlot) /\ ParentThere'
  <2>1. cur # None /\ cur.asset \in Assets
    BY <1>1, <1>4 DEF Calm, Shape, TypeOK, Job, At
  <2>2. Parent[cur.asset] # None /\ frame[Worker].target = Parent[cur.asset]
    BY <1>1, <1>4 DEF Calm, Shape, ParentAsked
  <2>3. found => IsLoaded(Parent[cur.asset])
    BY <1>4, <2>1, <2>2, LoadsAsk DEF Calm, Loads, StagesTellHandles, IsLoaded
  <2>4. QED
    BY <1>1, <1>2, <1>4, <2>3 DEF ParentThere, OverParent, HasSlot, Requesting, IsLoaded, At
<1>5. QED
  BY <1>1, <1>2, <1>3, <1>4, FrameStep

(* The slot that is destroyed is in use, and nothing else holds it.        *)
LEMMA DestroySlotSafe ==
    ASSUME Calm, Shape', NEW t \in Threads, DestroySlot(t)
    PROVE  Calm'
<1> DEFINE d == frame[t].doomed
<1>1. /\ UNCHANGED <<entry, jobs, held>> /\ slots' = slots \ {d}
      /\ cur' = IF t = Worker THEN None ELSE cur
      /\ asserted' = IF d \in slots THEN asserted ELSE asserted \cup {<<"markDeleted", None>>}
      /\ frame'[t] = Idle /\ \A u \in Threads : u # t => frame'[u] = frame[u]
  BY DEF DestroySlot, Calm, Shape, TypeOK
<1>2. d # Invalid /\ d \in 1 .. NUM_SLOTS
  BY DEF DestroySlot, Calm, Shape, TypeOK, FrameOK, Frame, Handles, At
<1>3. d \in slots
  BY <1>2 DEF Calm, SlotsHaveOneOwner, Doomed
<1>4. OnlyLateSaves'
  BY <1>1, <1>3 DEF Calm, OnlyLateSaves
<1>5. SlotsHaveOneOwner'
  <2>1. \A u \in Threads : frame'[u].doomed = IF u = t THEN Invalid ELSE frame[u].doomed
    BY <1>1, IdleFrame
  <2>2. \A h \in 1 .. NUM_SLOTS : h \in slots' <=> InEntry(h)' \/ Doomed(h)'
    BY <1>1, <1>2, <2>1, Distinct DEF Calm, SlotsHaveOneOwner, InEntry, Doomed, Threads
  <2>3. QED
    BY <1>1, <2>1, <2>2, Distinct DEF Calm, SlotsHaveOneOwner, Threads
<1>6. t = Worker => (HasSlot' => HasSlot) /\ ParentThere'
  BY <1>1, IdleFrame DEF ParentThere, OverParent, HasSlot, Requesting
<1>7. HeldCurrent' /\ (cur' = cur \/ frame'[Worker].at = "idle")
  BY <1>1, IdleFrame, HeldKept DEF Threads
<1>8. QED
  BY <1>1, <1>4, <1>5, <1>6, <1>7, IdleFrame, FrameStep

LEMMA WriteSafe ==
    ASSUME Calm, Shape', Write
    PROVE  Calm'
<1>1. /\ UNCHANGED <<entry, slots, jobs, held>> /\ Worker \in Threads
      /\ frame'[Worker].at = "idle" /\ frame'[Worker].doomed = frame[Worker].doomed
      /\ \A u \in Threads : u # Worker => frame'[u] = frame[u]
  BY DEF Write, Goto, Calm, Shape, TypeOK, Frame, Threads
<1>2. OnlyLateSaves'
  BY DEF Write, Calm, OnlyLateSaves, Contents, WritesOfLoaded
<1>3. SlotsHaveOneOwner' /\ HeldCurrent'
  BY <1>1, SlotsKept, HeldKept
<1>4. (HasSlot' => HasSlot) /\ ParentThere'
  BY <1>1 DEF HasSlot, ParentThere, OverParent, Requesting
<1>5. QED
  BY <1>1, <1>2, <1>3, <1>4, FrameStep

LEMMA RequestParentSafe ==
    ASSUME Calm, Shape', RequestParent
    PROVE  Calm'
<1>1. /\ UNCHANGED <<entry, slots, jobs, cur, held, asserted>> /\ Worker \in Threads
      /\ At(Worker, "parse")
      /\ frame'[Worker].at = "read" /\ frame'[Worker].after = "poll"
      /\ frame'[Worker].doomed = frame[Worker].doomed
      /\ \A u \in Threads : u # Worker => frame'[u] = frame[u]
  BY DEF RequestParent, Calm, Shape, TypeOK, FrameOK, Threads, Idle, At
<1>2. SlotsHaveOneOwner' /\ HeldCurrent' /\ OnlyLateSaves'
  BY <1>1, SlotsKept, HeldKept DEF Calm, OnlyLateSaves
<1>3. (HasSlot' => HasSlot) /\ ParentThere'
  BY <1>1 DEF HasSlot, ParentThere, OverParent, Requesting, At
<1>4. QED
  BY <1>1, <1>2, <1>3, FrameStep

LEMMA FailedSafe ==
    ASSUME Calm, Shape', Failed
    PROVE  Calm'
<1>1. /\ UNCHANGED <<entry, slots, jobs, cur, held, asserted>> /\ Worker \in Threads
      /\ frame[Worker].at \in {"parse", "copy", "init"}
      /\ frame'[Worker].at = "fail" /\ frame'[Worker].doomed = frame[Worker].doomed
      /\ \A u \in Threads : u # Worker => frame'[u] = frame[u]
  BY DEF Failed, Goto, Calm, Shape, TypeOK, Frame, Threads, At
<1>2. SlotsHaveOneOwner' /\ HeldCurrent' /\ OnlyLateSaves'
  BY <1>1, SlotsKept, HeldKept DEF Calm, OnlyLateSaves
<1>3. (HasSlot' => HasSlot) /\ ParentThere'
  BY <1>1 DEF HasSlot, ParentThere, OverParent, Requesting
<1>4. QED
  BY <1>1, <1>2, <1>3, FrameStep

LEMMA InitializeRuntimeSafe ==
    ASSUME Calm, Shape', InitializeRuntime
    PROVE  Calm'
<1>1. /\ UNCHANGED <<entry, slots, jobs, cur, held, asserted>> /\ Worker \in Threads
      /\ At(Worker, "init")
      /\ frame'[Worker].at = "read" /\ frame'[Worker].after = "loaded"
      /\ frame'[Worker].doomed = frame[Worker].doomed
      /\ \A u \in Threads : u # Worker => frame'[u] = frame[u]
  BY DEF InitializeRuntime, Calm, Shape, TypeOK, FrameOK, Threads, Idle, At
<1>2. SlotsHaveOneOwner' /\ HeldCurrent' /\ OnlyLateSaves'
  BY <1>1, SlotsKept, HeldKept DEF Calm, OnlyLateSaves
<1>3. (HasSlot' => HasSlot) /\ ParentThere'
  BY <1>1 DEF Calm, Contents, HasSlot, ParentThere, OverParent, IsLoaded, At
<1>4. QED
  BY <1>1, <1>2, <1>3, FrameStep

LEMMA CheckLoadedSafe ==
    ASSUME Calm, Shape', CheckLoaded
    PROVE  Calm'
<1>1. /\ UNCHANGED <<entry, slots, jobs, held, asserted>> /\ Worker \in Threads
      /\ \/ frame'[Worker].at = "idle"
         \/ frame'[Worker].at = "notify" /\ cur' = cur
      /\ frame'[Worker].doomed = frame[Worker].doomed
      /\ \A u \in Threads : u # Worker => frame'[u] = frame[u]
  BY DEF CheckLoaded, Goto, Calm, Shape, TypeOK, Frame, Threads
<1>2. SlotsHaveOneOwner' /\ HeldCurrent' /\ OnlyLateSaves'
  BY <1>1, SlotsKept, HeldKept DEF Calm, OnlyLateSaves
<1>3. (HasSlot' => HasSlot) /\ ParentThere'
  BY <1>1 DEF HasSlot, ParentThere, OverParent, Requesting
<1>4. QED
  BY <1>1, <1>2, <1>3, FrameStep

(* The callback of a load copies the entry as it is by then.               *)
LEMMA NotifySafe ==
    ASSUME Calm, Shape', Notify
    PROVE  Calm'
<1>1. /\ UNCHANGED <<entry, slots, jobs, asserted>> /\ Worker \in Threads
      /\ cur # None /\ cur.asset \in Assets
      /\ frame'[Worker].at = "idle" /\ frame'[Worker].doomed = frame[Worker].doomed
      /\ \A u \in Threads : u # Worker => frame'[u] = frame[u]
  BY IdleFrame DEF Notify, Calm, Shape, TypeOK, FrameOK, Threads, At, Job
<1>2. HeldCurrent'
  BY <1>1 DEF Notify, Calm, Shape, TypeOK, Contents, HeldCurrent, IsLoaded
<1>3. SlotsHaveOneOwner' /\ OnlyLateSaves'
  BY <1>1, SlotsKept DEF Calm, OnlyLateSaves
<1>4. (HasSlot' => HasSlot) /\ ParentThere'
  BY <1>1 DEF HasSlot, ParentThere, OverParent, Requesting
<1>5. QED
  BY <1>1, <1>2, <1>3, <1>4, FrameStep

(* A step that changes one entry, of which no other thread has a load to   *)
(* do.                                                                     *)
LEMMA LoadsStep ==
    ASSUME Calm, Shape', NEW t \in Threads, NEW x \in Assets, NEW e \in Entry,
           entry' = [entry EXCEPT ![x] = e],
           e.stage \in {"None", "Unloaded"} => e.handle = Invalid,
           e.stage \in {"Compiling", "Loaded"} => e.handle # Invalid,
           UNCHANGED <<jobs, cur>>,
           \A u \in Threads : u # t => frame'[u] = frame[u],
           ~ToBeLoaded(x) \/ (t = Worker /\ Compiles(x)),
           frame'[t].at \notin {"execute", "compile"},
           HasSlot' => IF x = cur.asset
                       THEN e.stage \in {"Loading", "Compiling"} /\ e.handle # Invalid
                       ELSE HasSlot
    PROVE  Loads'
<1>1. /\ \A a \in Assets : a # x => entry'[a] = entry[a]
      /\ entry'[x] = e
  BY DEF Calm, Shape, TypeOK
<1>2. \A u \in Threads : frame'[u].at \in {"execute", "compile"} =>
          u # t /\ frame'[u] = frame[u]
  OBVIOUS
<1>3. StagesTellHandles'
  BY <1>1 DEF Calm, Loads, StagesTellHandles
<1>4. RequestsOwnLoads'
  <2>1. \A u \in Threads, a \in Assets : MustQueue(u, a)' => MustQueue(u, a)
    BY <1>2 DEF MustQueue, At
  <2>2. ASSUME NEW u \in Threads, NEW a \in Assets, MustQueue(u, a)
        PROVE  ToBeLoaded(a)' /\ NotQueued(a)' /\ ~Compiles(a)'
    <3>1. ToBeLoaded(a) /\ NotQueued(a) /\ ~Compiles(a)
      BY <2>2 DEF Calm, Loads, RequestsOwnLoads
    <3>2. QED
      BY <1>1, <1>2, <3>1 DEF ToBeLoaded, NotQueued, Compiles, At, Threads
  <2>3. QED
    BY <2>1, <2>2 DEF Calm, Loads, RequestsOwnLoads
<1>5. QueueOwnsLoads'
  <2>1. ASSUME NEW u \in Threads, NEW i \in DOMAIN jobs[u], jobs[u][i].op = "load"
        PROVE  ToBeLoaded(jobs[u][i].asset)' /\ ~Compiles(jobs[u][i].asset)'
    <3> DEFINE a == jobs[u][i].asset
    <3>1. a \in Assets
      BY <2>1, JobsAreJobs
    <3>2. ToBeLoaded(a) /\ ~Compiles(a)
      BY <2>1 DEF Calm, Loads, QueueOwnsLoads
    <3>3. QED
      BY <1>1, <1>2, <3>1, <3>2 DEF ToBeLoaded, Compiles, At, Threads
  <2>2. QED
    BY <2>1 DEF Calm, Loads, QueueOwnsLoads
<1>6. WorkerOwnsLoad'
  <2>1. frame'[Worker].at = "compile" => ToBeLoaded(cur.asset)'
    <3>1. SUFFICES ASSUME frame'[Worker].at = "compile" PROVE ToBeLoaded(cur.asset)'
      OBVIOUS
    <3>2. Worker # t /\ At(Worker, "compile")
      BY <1>2, <3>1 DEF At, Threads
    <3>3. cur.asset \in Assets /\ ToBeLoaded(cur.asset) /\ ~ToBeLoaded(x)
      BY <3>2, JobsAreJobs DEF Calm, Loads, WorkerOwnsLoad, At
    <3>4. QED
      BY <1>1, <3>3 DEF ToBeLoaded
  <2>2. HasSlot' => cur.asset \in Assets
    BY DEF Shape, TypeOK, HasSlot, At, Job
  <2>3. QED
    BY <1>1, <2>1, <2>2 DEF Calm, Loads, WorkerOwnsLoad, At
<1>7. QED
  BY <1>3, <1>4, <1>5, <1>6 DEF Loads

(* A step after which what was Loaded still is, but for what may be        *)
(* unloaded, and what is Loaded now has its parent.                        *)
LoadedStay ==
    \A a \in Assets : a \in Unloads \/ (IsLoaded(a) => IsLoaded(a)')

LoadedHaveParent ==
    \A a \in Assets : HasParent(a) /\ IsLoaded(a)' => IsLoaded(a) \/ IsLoaded(Parent[a])

LEMMA ContentsStep ==
    ASSUME Calm, HeldCurrent', UNCHANGED <<jobs, cur>>, LoadedStay, LoadedHaveParent,
           frame'[Worker].at = "write" => frame[Worker].at = "write",
           OverParent' => OverParent \/ Parent[cur.asset] = None
    PROVE  Contents'
<1>1. \A a \in Assets : HasParent(a) /\ IsLoaded(Parent[a]) => IsLoaded(Parent[a])'
  BY LoadsAsk DEF LoadedStay, HasParent
<1>2. WritesOfLoaded'
  BY JobsAreJobs DEF Calm, Contents, WritesOfLoaded, LoadedStay, At
<1>3. ParentThere'
  <2>1. OverParent => cur.asset \in Assets
    BY JobsAreJobs DEF OverParent, Requesting, At
  <2>2. OverParent' => OverParent \/ ~HasParent(cur.asset)
    BY DEF HasParent
  <2>3. QED
    BY <1>1, <2>1, <2>2 DEF Calm, Contents, ParentThere, HasParent
<1>4. ChildHasParent'
  BY <1>1 DEF Calm, Contents, ChildHasParent, LoadedHaveParent, HasParent
<1>5. QED
  BY <1>2, <1>3, <1>4 DEF Contents

(* A slot that is taken was free; one that leaves its entry is destroyed   *)
(* by the thread that took it out.                                         *)
LEMMA SlotTaken ==
    ASSUME Calm, NEW x \in Assets, NEW e \in Entry, entry[x].handle = Invalid,
           entry' = [entry EXCEPT ![x] = e], FirstFree(e.handle),
           slots' = slots \cup {e.handle},
           \A u \in Threads : frame'[u].doomed = frame[u].doomed
    PROVE  SlotsHaveOneOwner'
<1>1. \A a \in Assets : entry'[a] = IF a = x THEN e ELSE entry[a]
  BY DEF Calm, Shape, TypeOK
<1>2. e.handle \in 1 .. NUM_SLOTS /\ e.handle \notin slots /\ e.handle # Invalid
  BY Distinct DEF FirstFree
<1>3. ~InEntry(e.handle) /\ ~Doomed(e.handle)
  BY <1>2 DEF Calm, SlotsHaveOneOwner
<1>4. \A h \in 1 .. NUM_SLOTS : h \in slots' <=> InEntry(h)' \/ Doomed(h)'
  BY <1>1, <1>2, Distinct DEF Calm, SlotsHaveOneOwner, InEntry, Doomed
<1>5. \A a, b \in Assets :
          entry'[a].handle = entry'[b].handle /\ entry'[a].handle # Invalid => a = b
  BY <1>1, <1>3 DEF Calm, SlotsHaveOneOwner, InEntry
<1>6. \A a \in Assets, u \in Threads :
          entry'[a].handle = frame'[u].doomed => entry'[a].handle = Invalid
  BY <1>1, <1>3 DEF Calm, SlotsHaveOneOwner, Doomed
<1>7. QED
  BY <1>4, <1>5, <1>6 DEF Calm, SlotsHaveOneOwner, Threads

LEMMA SlotDoomed ==
    ASSUME Calm, NEW t \in Threads, NEW x \in Assets, frame[t].doomed = Invalid,
           entry' = [entry EXCEPT ![x] = Reset], UNCHANGED slots,
           frame'[t].doomed = entry[x].handle,
           \A u \in Threads : u # t => frame'[u] = frame[u]
    PROVE  SlotsHaveOneOwner'
<1>1. \A a \in Assets : entry'[a].handle = IF a = x THEN Invalid ELSE entry[a].handle
  BY DEF Calm, Shape, TypeOK, Reset
<1>2. \A u \in Threads : frame'[u].doomed = IF u = t THEN entry[x].handle ELSE frame[u].doomed
  OBVIOUS
<1>3. \A h \in 1 .. NUM_SLOTS : h \in slots' <=> InEntry(h)' \/ Doomed(h)'
  BY <1>1, <1>2, Distinct DEF Calm, SlotsHaveOneOwner, InEntry, Doomed
<1>4. \A a, b \in Assets :
          entry'[a].handle = entry'[b].handle /\ entry'[a].handle # Invalid => a = b
  BY <1>1 DEF Calm, SlotsHaveOneOwner
<1>5. \A a \in Assets, u \in Threads :
          entry'[a].handle = frame'[u].doomed => entry'[a].handle = Invalid
  BY <1>1, <1>2 DEF Calm, SlotsHaveOneOwner
<1>6. frame'[Main].doomed = frame'[Worker].doomed => frame'[Main].doomed = Invalid
  BY <1>2, Distinct DEF Calm, SlotsHaveOneOwner, Threads
<1>7. QED
  BY <1>3, <1>4, <1>5, <1>6 DEF SlotsHaveOneOwner

LEMMA HandlesKept ==
    ASSUME Calm, UNCHANGED slots,
           \A a \in Assets : entry'[a].handle = entry[a].handle,
           \A u \in Threads : frame'[u].doomed = frame[u].doomed
    PROVE  SlotsHaveOneOwner'
  BY Distinct DEF Calm, SlotsHaveOneOwner, InEntry, Doomed, Threads

LEMMA HeldOfLoaded ==
    ASSUME Calm, UNCHANGED held, \A a \in Assets : IsLoaded(a) => entry'[a] = entry[a]
    PROVE  HeldCurrent'
  BY DEF Calm, Contents, HeldCurrent, IsLoaded

(* A new asset is created under an id that has no entry.                   *)
LEMMA CreateSafe ==
    ASSUME Calm, Shape', NEW a \in Assets, CreateNewAsset(a)
    PROVE  Calm'
<1>1. PICK h \in 1 .. NUM_SLOTS :
          /\ FirstFree(h)
          /\ slots' = slots \cup {h}
          /\ entry' = [entry EXCEPT ![a] = [stage |-> "Loaded", handle |-> h]]
  BY DEF CreateNewAsset
<1> DEFINE e == [stage |-> "Loaded", handle |-> h]
<1>2. e \in Entry /\ e.stage = "Loaded" /\ e.handle = h /\ h # Invalid
  BY Distinct DEF Entry, Stages, Handles
<1>3. /\ UNCHANGED <<jobs, cur, frame, held, asserted>> /\ Main \in Threads /\ At(Main, "idle")
      /\ entry[a].stage = "None" /\ entry[a].handle = Invalid
      /\ ~HasParent(a)
  BY AssetSystemAssumption DEF AssetSystemAssumption, CreateNewAsset, Absent, HasParent, Threads
<1>4. ~ToBeLoaded(a) /\ ~IsLoaded(a)
  BY <1>3 DEF ToBeLoaded, IsLoaded
<1>6. HasSlot' => HasSlot /\ a # cur.asset
  BY <1>3 DEF Calm, Loads, WorkerOwnsLoad, HasSlot
<1>7. Loads'
  <2>1. entry' = [entry EXCEPT ![a] = e] /\ frame'[Main].at = "idle"
    BY <1>1, <1>3 DEF At
  <2>2. \A u \in Threads : u # Main => frame'[u] = frame[u]
    BY <1>3
  <2> HIDE DEF e
  <2>3. QED
    BY <1>2, <1>3, <1>4, <1>6, <2>1, <2>2, LoadsStep
<1> HIDE DEF e
<1>8. SlotsHaveOneOwner'
  BY <1>1, <1>2, <1>3, SlotTaken DEF e
<1>9. \A b \in Assets : b # a => entry'[b] = entry[b]
  BY <1>1 DEF Calm, Shape, TypeOK
<1>10. HeldCurrent'
  BY <1>3, <1>4, <1>9, HeldOfLoaded
<1>11. Contents'
  <2>1. LoadedStay
    <3>1. ASSUME NEW b \in Assets, IsLoaded(b) PROVE IsLoaded(b)'
      BY <1>4, <1>9, <3>1 DEF IsLoaded
    <3>2. QED
      BY <3>1 DEF LoadedStay
  <2>2. LoadedHaveParent
    BY <1>3, <1>9 DEF LoadedHaveParent, IsLoaded
  <2>3. OverParent' => OverParent
    BY <1>3 DEF OverParent, Requesting
  <2>4. frame'[Worker] = frame[Worker]
    BY <1>3
  <2>5. QED
    BY <1>3, <1>10, <2>1, <2>2, <2>3, <2>4, ContentsStep
<1>12. QED
  BY <1>3, <1>7, <1>8, <1>11 DEF Calm, OnlyLateSaves

(* Only the owner of a copy unloads, and the copy is the registry's.       *)
LEMMA UnloadSafe ==
    ASSUME Calm, Shape', NEW a \in Assets, Unload(a)
    PROVE  Calm'
<1>1. /\ UNCHANGED <<slots, jobs, cur, asserted>> /\ Main \in Threads /\ At(Main, "idle")
      /\ entry' = [entry EXCEPT ![a] = Reset]
      /\ held' = [held EXCEPT ![a] = Invalid]
      /\ frame'[Main].at = "destroy" /\ frame'[Main].doomed = held[a]
      /\ \A u \in Threads : u # Main => frame'[u] = frame[u]
      /\ a \in Unloads /\ held[a] # Invalid
  BY DEF Unload, Calm, Shape, TypeOK, Idle, Threads
<1>2. IsLoaded(a) /\ entry[a].handle = held[a]
  BY <1>1 DEF Calm, Contents, HeldCurrent
<1>3. Reset \in Entry /\ Reset.stage = "Unloaded" /\ Reset.handle = Invalid
  BY DEF Reset, Entry, Stages, Handles
<1>4. ~ToBeLoaded(a) /\ (HasSlot' => HasSlot /\ a # cur.asset)
  BY <1>1, <1>2, Distinct DEF ToBeLoaded, IsLoaded, Calm, Loads, WorkerOwnsLoad, HasSlot, Threads
<1>5. Loads'
  BY <1>1, <1>3, <1>4, LoadsStep
<1>6. frame[Main].doomed = Invalid
  BY <1>1 DEF Calm, Shape, FrameOK, At
<1>7. SlotsHaveOneOwner'
  BY <1>1, <1>2, <1>6, SlotDoomed
<1>8. \A b \in Assets : b # a => entry'[b] = entry[b] /\ held'[b] = held[b]
  BY <1>1 DEF Calm, Shape, TypeOK
<1>9. HeldCurrent' /\ ~IsLoaded(a)'
  BY <1>1, <1>3, <1>8 DEF Calm, Shape, TypeOK, Contents, HeldCurrent, IsLoaded
<1>11. frame'[Worker] = frame[Worker]
  BY <1>1, Distinct DEF Threads
<1>12. Contents'
  <2>1. LoadedStay
    BY <1>1, <1>8 DEF LoadedStay, IsLoaded
  <2>2. LoadedHaveParent
    BY <1>8, <1>9 DEF LoadedHaveParent, IsLoaded
  <2>3. OverParent' => OverParent
    BY <1>11 DEF OverParent, Requesting
  <2>4. QED
    BY <1>1, <1>9, <1>11, <2>1, <2>2, <2>3, ContentsStep
<1>13. QED
  BY <1>1, <1>5, <1>7, <1>12 DEF Calm, OnlyLateSaves

(* The worker's own entry is nobody else's business.                       *)
LEMMA OwnEntry ==
    ASSUME Calm, HasSlot
    PROVE  /\ cur.asset \in Assets /\ entry[cur.asset].handle # Invalid
           /\ ~ToBeLoaded(cur.asset) /\ ~IsLoaded(cur.asset)
  BY JobsAreJobs DEF Calm, Loads, WorkerOwnsLoad, RequestsOwnLoads, HasSlot, ToBeLoaded, IsLoaded, At

LEMMA CompileSafe ==
    ASSUME Calm, Shape', Compile
    PROVE  Calm'
<1> DEFINE a == cur.asset
<1>1. /\ UNCHANGED <<jobs, cur, held, asserted>> /\ Worker \in Threads /\ At(Worker, "compile")
      /\ a \in Assets /\ ToBeLoaded(a) /\ Compiles(a) /\ ~IsLoaded(a)
  BY JobsAreJobs
  DEF Compile, Calm, Loads, WorkerOwnsLoad, RequestsOwnLoads, ToBeLoaded, Compiles, IsLoaded, At, Threads
<1>2. PICK h \in 1 .. NUM_SLOTS :
          /\ FirstFree(h)
          /\ slots' = slots \cup {h}
          /\ entry' = [entry EXCEPT ![a] = [stage |-> "Compiling", handle |-> h]]
  BY <1>1 DEF Compile, ToBeLoaded
<1> DEFINE e == [stage |-> "Compiling", handle |-> h]
<1>3. e \in Entry /\ e.stage = "Compiling" /\ e.handle = h /\ h # Invalid
  BY Distinct DEF Entry, Stages, Handles
<1>4. /\ frame'[Worker].at = "parse" /\ frame'[Worker].doomed = frame[Worker].doomed
      /\ \A u \in Threads : u # Worker => frame'[u] = frame[u]
  BY <1>1 DEF Compile, Goto, ToBeLoaded, Calm, Shape, TypeOK, Frame
<1>5. entry' = [entry EXCEPT ![a] = e]
  BY <1>2
<1>6. entry[a].handle = Invalid
  BY <1>1 DEF ToBeLoaded
<1> HIDE DEF e
<1>7. Loads'
  BY <1>1, <1>3, <1>4, <1>5, LoadsStep
<1>8. SlotsHaveOneOwner'
  BY <1>1, <1>2, <1>3, <1>4, <1>5, <1>6, SlotTaken
<1>9. (\A b \in Assets : b # a => entry'[b] = entry[b]) /\ ~IsLoaded(a)'
  BY <1>1, <1>3, <1>5 DEF Calm, Shape, TypeOK, IsLoaded
<1>10. HeldCurrent'
  BY <1>1, <1>9, HeldOfLoaded
<1>11. Contents'
  <2>1. LoadedStay /\ LoadedHaveParent
    BY <1>1, <1>9 DEF LoadedStay, LoadedHaveParent, IsLoaded
  <2>2. ~OverParent'
    BY <1>4 DEF OverParent, Requesting
  <2>3. QED
    BY <1>1, <1>4, <1>10, <2>1, <2>2, ContentsStep
<1>12. QED
  BY <1>1, <1>7, <1>8, <1>11 DEF Calm, OnlyLateSaves

LEMMA ParsedSafe ==
    ASSUME Calm, Shape', Parsed
    PROVE  Calm'
<1> DEFINE a == cur.asset
           e == [entry[a] EXCEPT !.stage = "Loading"]
<1>1. /\ UNCHANGED <<slots, jobs, cur, held>> /\ Worker \in Threads
      /\ At(Worker, "copy") \/ Parent[a] = None
      /\ HasSlot
  BY DEF Parsed, HasSlot, At, Threads
<1>2. /\ a \in Assets /\ entry[a].handle # Invalid /\ ~ToBeLoaded(a) /\ ~IsLoaded(a)
  BY <1>1, OwnEntry
<1>3. e \in Entry /\ e.stage = "Loading" /\ e.handle = entry[a].handle
  BY <1>2 DEF Calm, Shape, TypeOK, Entry, Stages
<1>4. /\ frame'[Worker].at = "init" /\ frame'[Worker].doomed = frame[Worker].doomed
      /\ \A u \in Threads : u # Worker => frame'[u] = frame[u]
  BY <1>1 DEF Parsed, Goto, Calm, Shape, TypeOK, Frame
<1>5. entry' = [entry EXCEPT ![a] = e]
  BY <1>2 DEF Parsed, Calm, Shape, TypeOK
<1> HIDE DEF e
<1>6. Loads'
  BY <1>1, <1>2, <1>3, <1>4, <1>5, LoadsStep
<1>7. /\ \A b \in Assets : b # a => entry'[b] = entry[b]
      /\ entry'[a].handle = entry[a].handle /\ ~IsLoaded(a)'
  BY <1>1, <1>2, <1>3, <1>5 DEF Calm, Shape, TypeOK, IsLoaded
<1>8. SlotsHaveOneOwner'
  <2>1. \A b \in Assets : entry'[b].handle = entry[b].handle
    BY <1>7
  <2>2. QED
    BY <1>1, <1>4, <2>1, HandlesKept
<1>9. HeldCurrent'
  BY <1>1, <1>2, <1>7, HeldOfLoaded
<1>10. Contents'
  <2>1. LoadedStay /\ LoadedHaveParent
    BY <1>1, <1>2, <1>7 DEF LoadedStay, LoadedHaveParent, IsLoaded
  <2>2. OverParent' => OverParent \/ Parent[cur.asset] = None
    BY <1>1 DEF OverParent, At
  <2>3. QED
    BY <1>1, <1>4, <1>9, <2>1, <2>2, ContentsStep
<1>11. OnlyLateSaves'
  BY <1>2 DEF Parsed, Calm, OnlyLateSaves
<1>12. QED
  BY <1>6, <1>8, <1>10, <1>11 DEF Calm

LEMMA ResetFailedSafe ==
    ASSUME Calm, Shape', ResetFailed
    PROVE  Calm'
<1> DEFINE a == cur.asset
<1>1. /\ UNCHANGED <<slots, jobs, held, asserted>> /\ Worker \in Threads
      /\ At(Worker, "fail") /\ HasSlot
      /\ entry' = [entry EXCEPT ![a] = Reset]
  BY DEF ResetFailed, HasSlot, At, Threads
<1>2. /\ a \in Assets /\ entry[a].handle # Invalid /\ ~ToBeLoaded(a) /\ ~IsLoaded(a)
  BY <1>1, OwnEntry
<1>3. Reset \in Entry /\ Reset.stage = "Unloaded" /\ Reset.handle = Invalid
  BY DEF Reset, Entry, Stages, Handles
<1>4. /\ frame'[Worker].at = "destroy" /\ frame'[Worker].doomed = entry[a].handle
      /\ \A u \in Threads : u # Worker => frame'[u] = frame[u]
      /\ cur' = cur
  BY <1>1, <1>2 DEF ResetFailed, Calm, Shape, TypeOK, Idle
<1>5. Loads'
  <2>1. ~HasSlot'
    BY <1>4 DEF HasSlot
  <2>2. QED
    BY <1>1, <1>2, <1>3, <1>4, <2>1, LoadsStep
<1>6. frame[Worker].doomed = Invalid
  BY <1>1 DEF Calm, Shape, FrameOK, At
<1>7. SlotsHaveOneOwner'
  BY <1>1, <1>2, <1>4, <1>6, SlotDoomed
<1>8. (\A b \in Assets : b # a => entry'[b] = entry[b]) /\ ~IsLoaded(a)'
  BY <1>1, <1>2, <1>3, <1>4 DEF Calm, Shape, TypeOK, IsLoaded
<1>9. HeldCurrent'
  BY <1>1, <1>2, <1>8, HeldOfLoaded
<1>10. Contents'
  <2>1. LoadedStay /\ LoadedHaveParent
    BY <1>2, <1>4, <1>8 DEF LoadedStay, LoadedHaveParent, IsLoaded
  <2>2. ~OverParent'
    BY <1>4 DEF OverParent, Requesting
  <2>3. QED
    BY <1>1, <1>4, <1>9, <2>1, <2>2, ContentsStep
<1>11. QED
  BY <1>1, <1>5, <1>7, <1>10 DEF Calm, OnlyLateSaves

LEMMA SetLoadedSafe ==
    ASSUME Calm, Shape', SetLoaded
    PROVE  Calm'
<1> DEFINE a == cur.asset
           e == [entry[a] EXCEPT !.stage = "Loaded"]
<1>1. /\ UNCHANGED <<slots, jobs, cur, held, asserted>> /\ Worker \in Threads
      /\ At(Worker, "loaded") /\ HasSlot
  BY DEF SetLoaded, HasSlot, At, Threads
<1>2. /\ a \in Assets /\ entry[a].handle # Invalid /\ ~ToBeLoaded(a) /\ ~IsLoaded(a)
  BY <1>1, OwnEntry
<1>3. e \in Entry /\ e.stage = "Loaded" /\ e.handle = entry[a].handle
  BY <1>2 DEF Calm, Shape, TypeOK, Entry, Stages
<1>4. /\ frame'[Worker].at = "check" /\ frame'[Worker].doomed = frame[Worker].doomed
      /\ \A u \in Threads : u # Worker => frame'[u] = frame[u]
  BY <1>1 DEF SetLoaded, Goto, Calm, Shape, TypeOK, Frame
<1>5. entry' = [entry EXCEPT ![a] = e]
  BY <1>2 DEF SetLoaded, Calm, Shape, TypeOK
<1> HIDE DEF e
<1>6. Loads'
  <2>1. ~HasSlot'
    BY <1>4 DEF HasSlot
  <2>2. QED
    BY <1>1, <1>2, <1>3, <1>4, <1>5, <2>1, LoadsStep
<1>7. /\ \A b \in Assets : b # a => entry'[b] = entry[b]
      /\ entry'[a].handle = entry[a].handle
  BY <1>2, <1>3, <1>5 DEF Calm, Shape, TypeOK
<1>8. SlotsHaveOneOwner'
  <2>1. \A b \in Assets : entry'[b].handle = entry[b].handle
    BY <1>7
  <2>2. QED
    BY <1>1, <1>4, <2>1, HandlesKept
<1>9. HeldCurrent'
  BY <1>1, <1>2, <1>7, HeldOfLoaded
<1>10. Contents'
  <2>1. HasParent(a) => IsLoaded(Parent[a])
    BY <1>1 DEF Calm, Contents, ParentThere, OverParent, At
  <2>2. LoadedStay /\ LoadedHaveParent
    BY <1>2, <1>7, <2>1 DEF LoadedStay, LoadedHaveParent, IsLoaded
  <2>3. ~OverParent'
    BY <1>4 DEF OverParent, Requesting
  <2>4. QED
    BY <1>1, <1>4, <1>9, <2>2, <2>3, ContentsStep
<1>11. QED
  BY <1>1, <1>6, <1>8, <1>10 DEF Calm, OnlyLateSaves

-----------------------------------------------------------------------------
(* What a thread has marked and not yet queued.                            *)
LEMMA HeadsAreAssets ==
    ASSUME Calm, NEW t \in Threads, frame[t].at \in {"mark", "execute"}
    PROVE  Head(frame[t].todo) \in Assets
<1>1. frame[t].todo # <<>> /\ frame[t].todo \in Seq(Assets)
  BY DEF Calm, Shape, TypeOK, FrameOK, Frame
<1>2. QED
  BY <1>1

(* A mark that does not race takes an asset that nobody has to load.       *)
LEMMA MarkLoadingSafe ==
    ASSUME Calm, Shape', NEW t \in Threads, MarkLoading(t),
           entry[Head(frame[t].todo)].stage \in {"None", "Unloaded"}
    PROVE  Calm'
<1> DEFINE a == Head(frame[t].todo)
           e == [stage |-> "Loading", handle |-> Invalid]
<1>1. /\ UNCHANGED <<slots, jobs, cur, held, asserted>> /\ At(t, "mark")
      /\ entry' = [entry EXCEPT ![a] = e]
      /\ a \in Assets
  BY HeadsAreAssets DEF MarkLoading, At
<1>2. /\ frame'[t].at = "execute" /\ frame'[t].todo = frame[t].todo
      /\ frame'[t].after = frame[t].after /\ frame'[t].doomed = frame[t].doomed
      /\ \A u \in Threads : u # t => frame'[u] = frame[u]
  BY DEF MarkLoading, Goto, Calm, Shape, TypeOK, Frame
<1>3. entry[a].stage \in {"None", "Unloaded"} /\ entry[a].handle = Invalid
  BY <1>1 DEF Calm, Loads, StagesTellHandles
<1>4. ~ToBeLoaded(a) /\ ~IsLoaded(a)
  BY <1>3 DEF ToBeLoaded, IsLoaded
<1>5. \A b \in Assets : entry'[b] = IF b = a THEN e ELSE entry[b]
  BY <1>1 DEF Calm, Shape, TypeOK
<1>6. \A u \in Threads, b \in Assets : MustQueue(u, b) => b # a /\ ToBeLoaded(b)
  BY <1>4 DEF Calm, Loads, RequestsOwnLoads
<1>7. \A u \in Threads : \A i \in DOMAIN jobs[u] : jobs[u][i].op = "load" =>
          jobs[u][i].asset # a /\ jobs[u][i].asset \in Assets
  BY <1>4, JobsAreJobs DEF Calm, Loads, QueueOwnsLoads
<1>8. ~Compiles(a)
  BY <1>4 DEF Calm, Loads, WorkerOwnsLoad, Compiles
<1>9. \A b : (Compiles(b)' => Compiles(b)) /\ (frame'[Worker].at = "compile" => At(Worker, "compile"))
  BY <1>1, <1>2 DEF Compiles, At, Threads
<1>10. StagesTellHandles'
  BY <1>5 DEF Calm, Loads, StagesTellHandles
<1>11. RequestsOwnLoads'
  <2>1. \A u \in Threads, b \in Assets : MustQueue(u, b)' <=>
           (u = t /\ b = a) \/ (u # t /\ MustQueue(u, b))
    BY <1>1, <1>2 DEF MustQueue, At
  <2>2. ASSUME NEW b \in Assets, b = a
        PROVE  ToBeLoaded(b)' /\ NotQueued(b)' /\ ~Compiles(b)'
    BY <1>1, <1>5, <1>7, <1>8, <1>9, <2>2 DEF ToBeLoaded, NotQueued
  <2>3. ASSUME NEW u \in Threads, NEW b \in Assets, MustQueue(u, b)
        PROVE  ToBeLoaded(b)' /\ NotQueued(b)' /\ ~Compiles(b)'
    <3>1. /\ NotQueued(b) /\ ~Compiles(b) /\ ToBeLoaded(b) /\ b # a
      BY <1>6, <2>3 DEF Calm, Loads, RequestsOwnLoads
    <3>2. QED
      BY <1>1, <1>5, <1>9, <3>1 DEF ToBeLoaded, NotQueued
  <2> HIDE DEF a
  <2>4. QED
    BY <1>1, <1>6, <2>1, <2>2, <2>3 DEF Calm, Loads, RequestsOwnLoads
<1>12. QueueOwnsLoads'
  BY <1>1, <1>5, <1>7, <1>9 DEF Calm, Loads, QueueOwnsLoads, ToBeLoaded, Compiles, At
<1>13. WorkerOwnsLoad'
  <2>1. HasSlot' => HasSlot /\ cur.asset # a
    BY <1>1, <1>2, <1>3 DEF Calm, Loads, WorkerOwnsLoad, HasSlot, At, Threads
  <2>2. QED
    BY <1>1, <1>5, <1>8, <1>9, <2>1, OwnEntry, JobsAreJobs
    DEF Calm, Loads, WorkerOwnsLoad, ToBeLoaded, Compiles, At
<1>14. SlotsHaveOneOwner'
  <2>1. \A b \in Assets : entry'[b].handle = entry[b].handle
    BY <1>3, <1>5
  <2>2. QED
    BY <1>1, <1>2, <2>1, HandlesKept
<1>15. HeldCurrent'
  BY <1>1, <1>4, <1>5, HeldOfLoaded
<1>16. Contents'
  <2>1. LoadedStay /\ LoadedHaveParent
    BY <1>4, <1>5 DEF LoadedStay, LoadedHaveParent, IsLoaded
  <2>2. OverParent' => OverParent
    BY <1>1, <1>2 DEF OverParent, Requesting, At, Threads
  <2>3. frame'[Worker].at = "write" => frame[Worker].at = "write"
    BY <1>2 DEF Threads
  <2>4. QED
    BY <1>1, <1>15, <2>1, <2>2, <2>3, ContentsStep
<1>17. QED
  BY <1>1, <1>10, <1>11, <1>12, <1>13, <1>14, <1>16 DEF Calm, Loads, OnlyLateSaves

LEMMA RequestWriteSafe ==
    ASSUME Calm, Shape', NEW a \in Assets, RequestWrite(a)
    PROVE  Calm'
<1> DEFINE j == [op |-> "write", asset |-> a, cb |-> FALSE]
           n == Len(jobs[Main]) + 1
<1>1. /\ UNCHANGED <<entry, slots, cur, frame, held, asserted>>
      /\ a \in Writes /\ IsLoaded(a)
      /\ jobs' = [jobs EXCEPT ![Main] = Append(@, j)]
  BY DEF RequestWrite, Calm, Loads, StagesTellHandles, IsLoaded
<1>2. /\ j \in Job /\ j.op = "write" /\ j.asset = a
      /\ jobs[Main] \in Seq(Job) /\ Main \in Threads
  BY DEF Job, Calm, Shape, TypeOK, Threads
<1> HIDE DEF j
<1>3. /\ \A u \in Threads : u # Main => jobs'[u] = jobs[u]
      /\ DOMAIN jobs'[Main] = DOMAIN jobs[Main] \cup {n}
      /\ \A i \in DOMAIN jobs[Main] : jobs'[Main][i] = jobs[Main][i]
      /\ jobs'[Main][n] = j
  BY <1>1, <1>2, AppendedTo DEF Calm, Shape, TypeOK
<1>4. \A u \in Threads : \A i \in DOMAIN jobs'[u] :
          \/ i \in DOMAIN jobs[u] /\ jobs'[u][i] = jobs[u][i]
          \/ jobs'[u][i] = j
  BY <1>3
<1> HIDE DEF n
<1>5. Loads'
  <2>1. StagesTellHandles' /\ WorkerOwnsLoad'
    BY <1>1 DEF Calm, Loads, StagesTellHandles, WorkerOwnsLoad, HasSlot, ToBeLoaded, At
  <2>2. RequestsOwnLoads'
    BY <1>1, <1>2, <1>4 DEF Calm, Loads, RequestsOwnLoads, MustQueue, NotQueued, ToBeLoaded, Compiles, At
  <2>3. QueueOwnsLoads'
    <3>1. \A u \in Threads : \A i \in DOMAIN jobs'[u] : jobs'[u][i].op = "load" =>
              i \in DOMAIN jobs[u] /\ jobs'[u][i] = jobs[u][i]
      BY <1>2, <1>4
    <3>2. QED
      BY <1>1, <3>1 DEF Calm, Loads, QueueOwnsLoads, ToBeLoaded, Compiles, At
  <2>4. QED
    BY <2>1, <2>2, <2>3 DEF Loads
<1>6. SlotsHaveOneOwner' /\ HeldCurrent'
  BY <1>1, SlotsKept, HeldKept
<1>7. Contents'
  <2>1. WritesOfLoaded'
    BY <1>1, <1>2, <1>4 DEF Calm, Contents, WritesOfLoaded, IsLoaded, At
  <2>2. ParentThere' /\ ChildHasParent'
    BY <1>1 DEF Calm, Contents, ParentThere, OverParent, Requesting, ChildHasParent, IsLoaded
  <2>3. QED
    BY <1>6, <2>1, <2>2 DEF Contents
<1>8. QED
  BY <1>1, <1>5, <1>6, <1>7 DEF Calm, OnlyLateSaves

LEMMA ExecuteSafe ==
    ASSUME Calm, Shape', NEW t \in Threads, Execute(t)
    PROVE  Calm'
<1> DEFINE a == Head(frame[t].todo)
           j == [op |-> "load", asset |-> a, cb |-> frame[t].cb]
           n == Len(jobs[t]) + 1
<1>1. /\ UNCHANGED <<entry, slots, cur, held, asserted>> /\ At(t, "execute")
      /\ jobs' = [jobs EXCEPT ![t] = Append(@, j)]
      /\ a \in Assets
  BY HeadsAreAssets DEF Execute, At
<1>2. /\ ToBeLoaded(a) /\ NotQueued(a) /\ ~Compiles(a)
      /\ \A u \in Threads : MustQueue(u, a) => u = t
  BY <1>1 DEF Calm, Loads, RequestsOwnLoads, MustQueue
<1>3. /\ frame'[t].at = frame[t].after /\ frame'[t].after = frame[t].after
      /\ frame'[t].doomed = frame[t].doomed
      /\ frame[t].after \in {"idle", "poll", "loaded"}
      /\ \A u \in Threads : u # t => frame'[u] = frame[u]
  BY DEF Execute, Calm, Shape, TypeOK, Frame
<1>4. j \in Job /\ j.op = "load" /\ j.asset = a /\ jobs[t] \in Seq(Job)
  BY <1>1 DEF Job, Calm, Shape, TypeOK, Frame
<1> HIDE DEF j
<1>5. /\ \A u \in Threads : u # t => jobs'[u] = jobs[u]
      /\ DOMAIN jobs'[t] = DOMAIN jobs[t] \cup {n} /\ n \notin DOMAIN jobs[t]
      /\ \A i \in DOMAIN jobs[t] : jobs'[t][i] = jobs[t][i]
      /\ jobs'[t][n] = j
  BY <1>1, <1>4, AppendedTo DEF Calm, Shape, TypeOK
<1> HIDE DEF n, a
<1>6. \A u \in Threads : \A i \in DOMAIN jobs'[u] :
          \/ i \in DOMAIN jobs[u] /\ jobs'[u][i] = jobs[u][i]
          \/ u = t /\ i = n /\ jobs'[u][i] = j
  BY <1>5
<1>7. \A b : frame'[Worker].at = "compile" /\ cur.asset = b => Compiles(b)
  BY <1>3 DEF Compiles, At, Threads
<1>8. RequestsOwnLoads'
  <2>1. \A u \in Threads, b \in Assets : MustQueue(u, b)' => u # t /\ MustQueue(u, b)
    BY <1>3 DEF MustQueue, At
  <2>2. ASSUME NEW u \in Threads, NEW b \in Assets, MustQueue(u, b), u # t
        PROVE  ToBeLoaded(b)' /\ NotQueued(b)' /\ ~Compiles(b)'
    <3>1. ToBeLoaded(b) /\ NotQueued(b) /\ ~Compiles(b) /\ b # a
      BY <1>2, <2>2 DEF Calm, Loads, RequestsOwnLoads
    <3>2. NotQueued(b)'
      BY <1>4, <1>6, <3>1 DEF NotQueued
    <3>3. QED
      BY <1>1, <1>7, <3>1, <3>2 DEF ToBeLoaded, Compiles, At
  <2>3. QED
    BY <2>1, <2>2 DEF Calm, Loads, RequestsOwnLoads
<1>9. QueueOwnsLoads'
  <2>1. ASSUME NEW u \in Threads, NEW i \in DOMAIN jobs'[u], jobs'[u][i].op = "load"
        PROVE  ToBeLoaded(jobs'[u][i].asset) /\ ~Compiles(jobs'[u][i].asset)
    BY <1>2, <1>4, <1>6, <2>1 DEF Calm, Loads, QueueOwnsLoads
  <2>2. ASSUME NEW u \in Threads, NEW i \in DOMAIN jobs'[u], jobs'[u][i].op = "load",
               NEW v \in Threads, NEW k \in DOMAIN jobs'[v], jobs'[v][k].op = "load",
               jobs'[v][k].asset = jobs'[u][i].asset
        PROVE  v = u /\ k = i
    <3>1. CASE jobs'[u][i].asset = a
      BY <1>2, <1>4, <1>6, <2>2, <3>1 DEF NotQueued
    <3>2. CASE jobs'[u][i].asset # a
      BY <1>4, <1>6, <2>2, <3>2 DEF Calm, Loads, QueueOwnsLoads
    <3>3. QED
      BY <3>1, <3>2
  <2>3. QED
    BY <1>1, <1>7, <2>1, <2>2 DEF QueueOwnsLoads, ToBeLoaded, Compiles, At
<1>10. StagesTellHandles' /\ WorkerOwnsLoad'
  <2>1. HasSlot' => HasSlot
    BY <1>1, <1>3 DEF HasSlot, At, Threads
  <2>2. QED
    BY <1>1, <1>7, <2>1 DEF Calm, Loads, StagesTellHandles, WorkerOwnsLoad, ToBeLoaded, Compiles, At
<1>11. SlotsHaveOneOwner' /\ HeldCurrent'
  <2>1. \A u \in Threads : frame'[u].doomed = frame[u].doomed
    BY <1>3
  <2>2. QED
    BY <1>1, <2>1, SlotsKept, HeldKept
<1>12. Contents'
  <2>1. WritesOfLoaded'
    <3>1. \A u \in Threads : \A i \in DOMAIN jobs'[u] : jobs'[u][i].op = "write" =>
              i \in DOMAIN jobs[u] /\ jobs'[u][i] = jobs[u][i]
      BY <1>4, <1>6
    <3>2. At(Worker, "write")' => At(Worker, "write")
      BY <1>3 DEF At, Threads
    <3>3. QED
      BY <1>1, <3>1, <3>2 DEF Calm, Contents, WritesOfLoaded, IsLoaded, At
  <2>2. OverParent' => OverParent
    BY <1>1, <1>3 DEF OverParent, Requesting, At, Threads, Calm, Shape, FrameOK
  <2>3. ParentThere' /\ ChildHasParent'
    BY <1>1, <2>2 DEF Calm, Contents, ParentThere, ChildHasParent, IsLoaded
  <2>4. QED
    BY <1>11, <2>1, <2>3 DEF Contents
<1>13. QED
  BY <1>1, <1>8, <1>9, <1>10, <1>11, <1>12 DEF Calm, Loads, OnlyLateSaves

LEMMA DequeueSafe ==
    ASSUME Calm, Shape', NEW p \in Threads, Dequeue(p)
    PROVE  Calm'
<1> DEFINE j == Head(jobs[p])
<1>1. /\ UNCHANGED <<entry, slots, held, asserted>> /\ At(Worker, "idle") /\ Worker \in Threads
      /\ jobs[p] # <<>> /\ jobs[p] \in Seq(Job)
      /\ cur' = j /\ jobs' = [jobs EXCEPT ![p] = Tail(@)]
  BY DEF Dequeue, Calm, Shape, TypeOK, Threads
<1>2. /\ 1 \in DOMAIN jobs[p] /\ j = jobs[p][1] /\ j \in Job /\ j.asset \in Assets
      /\ \A i \in DOMAIN Tail(jobs[p]) :
            i + 1 # 1 /\ i + 1 \in DOMAIN jobs[p] /\ Tail(jobs[p])[i] = jobs[p][i + 1]
  <2>1. 1 \in DOMAIN jobs[p] /\ j = jobs[p][1]
    BY <1>1
  <2>2. \A i \in DOMAIN Tail(jobs[p]) :
            i + 1 # 1 /\ i + 1 \in DOMAIN jobs[p] /\ Tail(jobs[p])[i] = jobs[p][i + 1]
    BY <1>1
  <2>3. QED
    BY <2>1, <2>2, JobsAreJobs
<1>3. /\ frame'[Worker].at = IF j.op = "load" THEN "compile" ELSE "write"
      /\ frame'[Worker].doomed = frame[Worker].doomed
      /\ \A u \in Threads : u # Worker => frame'[u] = frame[u]
  BY <1>1 DEF Dequeue, Goto, Calm, Shape, TypeOK, Frame
<1>4. /\ \A u \in Threads : u # p => jobs'[u] = jobs[u]
      /\ jobs'[p] = Tail(jobs[p])
  BY <1>1 DEF Calm, Shape, TypeOK
<1> HIDE DEF j
<1>5. \A i \in DOMAIN jobs'[p] : i + 1 # 1 /\ i + 1 \in DOMAIN jobs[p] /\ jobs'[p][i] = jobs[p][i + 1]
  BY <1>2, <1>4
<1>6. \A u \in Threads : \A i \in DOMAIN jobs'[u] : \E k \in DOMAIN jobs[u] :
          /\ jobs'[u][i] = jobs[u][k]
          /\ u = p => k # 1
  BY <1>4, <1>5
<1>7. j.op = "load" => ToBeLoaded(j.asset)
  BY <1>2 DEF Calm, Loads, QueueOwnsLoads
<1>8. ASSUME NEW u \in Threads, NEW i \in DOMAIN jobs'[u], jobs'[u][i].op = "load", j.op = "load"
      PROVE  jobs'[u][i].asset # j.asset
  <2>1. PICK k \in DOMAIN jobs[u] : jobs'[u][i] = jobs[u][k] /\ (u = p => k # 1)
    BY <1>6
  <2>2. QED
    BY <1>2, <1>8, <2>1 DEF Calm, Loads, QueueOwnsLoads
<1>9. RequestsOwnLoads'
  <2>1. \A u \in Threads, b \in Assets : MustQueue(u, b)' => MustQueue(u, b)
    BY <1>3 DEF MustQueue, At
  <2>2. ASSUME NEW u \in Threads, NEW b \in Assets, MustQueue(u, b)
        PROVE  ToBeLoaded(b)' /\ NotQueued(b)' /\ ~Compiles(b)'
    <3>1. ToBeLoaded(b) /\ NotQueued(b)
      BY <2>2 DEF Calm, Loads, RequestsOwnLoads
    <3>2. NotQueued(b)'
      BY <1>6, <3>1 DEF NotQueued
    <3>3. j.op = "load" => j.asset # b
      BY <1>2, <3>1 DEF NotQueued
    <3>4. QED
      BY <1>1, <1>3, <3>1, <3>2, <3>3 DEF ToBeLoaded, Compiles, At
  <2>3. QED
    BY <2>1, <2>2 DEF Calm, Loads, RequestsOwnLoads
<1>10. QueueOwnsLoads'
  <2>1. ASSUME NEW u \in Threads, NEW i \in DOMAIN jobs'[u], jobs'[u][i].op = "load"
        PROVE  ToBeLoaded(jobs'[u][i].asset)
    BY <1>6, <2>1 DEF Calm, Loads, QueueOwnsLoads
  <2>2. ASSUME NEW u \in Threads, NEW i \in DOMAIN jobs'[u], jobs'[u][i].op = "load"
        PROVE  ~(frame'[Worker].at = "compile" /\ cur'.asset = jobs'[u][i].asset)
    BY <1>1, <1>3, <1>8, <2>2
  <2>3. ASSUME NEW u \in Threads, NEW i \in DOMAIN jobs'[u], jobs'[u][i].op = "load",
               NEW v \in Threads, NEW k \in DOMAIN jobs'[v], jobs'[v][k].op = "load",
               jobs'[v][k].asset = jobs'[u][i].asset
        PROVE  v = u /\ k = i
    <3>1. \A w \in Threads : \A m \in DOMAIN jobs'[w] : \E n \in DOMAIN jobs[w] :
              jobs'[w][m] = jobs[w][n] /\ (w = p => n = m + 1) /\ (w # p => n = m)
      BY <1>4, <1>5
    <3>2. PICK m \in DOMAIN jobs[u] :
              jobs'[u][i] = jobs[u][m] /\ (u = p => m = i + 1) /\ (u # p => m = i)
      BY <3>1
    <3>3. PICK n \in DOMAIN jobs[v] :
              jobs'[v][k] = jobs[v][n] /\ (v = p => n = k + 1) /\ (v # p => n = k)
      BY <3>1
    <3>4. v = u /\ n = m
      BY <2>3, <3>2, <3>3 DEF Calm, Loads, QueueOwnsLoads
    <3>5. u = p => i \in Nat /\ k \in Nat
      BY <1>1, <1>4, <3>4
    <3>6. QED
      BY <3>2, <3>3, <3>4, <3>5
  <2>4. QED
    BY <1>1, <2>1, <2>2, <2>3 DEF QueueOwnsLoads, ToBeLoaded, Compiles, At
<1>11. StagesTellHandles' /\ WorkerOwnsLoad'
  BY <1>1, <1>3, <1>7 DEF Calm, Loads, StagesTellHandles, WorkerOwnsLoad, HasSlot, ToBeLoaded, At
<1>12. SlotsHaveOneOwner' /\ HeldCurrent'
  <2>1. \A u \in Threads : frame'[u].doomed = frame[u].doomed
    BY <1>3
  <2>2. QED
    BY <1>1, <2>1, SlotsKept, HeldKept
<1>13. Contents'
  <2>1. j.op # "load" => j.asset \in Writes /\ (j.asset \notin Unloads => IsLoaded(j.asset))
    BY <1>2 DEF Calm, Contents, WritesOfLoaded, Job
  <2>2. WritesOfLoaded'
    BY <1>1, <1>3, <1>6, <2>1 DEF Calm, Contents, WritesOfLoaded, IsLoaded, At
  <2>3. ~OverParent'
    BY <1>3 DEF OverParent, Requesting
  <2>4. ParentThere' /\ ChildHasParent'
    BY <1>1, <2>3 DEF Calm, Contents, ParentThere, ChildHasParent, IsLoaded
  <2>5. QED
    BY <1>12, <2>2, <2>4 DEF Contents
<1>14. QED
  BY <1>1, <1>9, <1>10, <1>11, <1>12, <1>13 DEF Calm, Loads, OnlyLateSaves

-----------------------------------------------------------------------------
LEMMA InvInit == Init => Inv
  BY ShapeInit, SafeInit DEF Inv

(* Only a mark races, and a race is never forgotten.                       *)
LEMMA OnlyMarksRace ==
    ASSUME Shape, [Next]_vars
    PROVE  /\ UNCHANGED raced \/ \E t \in Threads : MarkLoading(t)
           /\ raced => raced'
           /\ raced' \in BOOLEAN
<1>1. UNCHANGED raced \/ \E t \in Threads : MarkLoading(t)
  <2>1. \A t \in Threads : InCall(t) => UNCHANGED raced \/ MarkLoading(t)
    BY DEF InCall, ReadStage, Execute, Poll, DestroySlot
  <2>2. InJob => UNCHANGED raced
    BY DEF InJob, Write, Compile, RequestParent, Parsed, Failed, ResetFailed, InitializeRuntime,
       SetLoaded, CheckLoaded, Notify
  <2>3. QED
    BY <2>1, <2>2
    DEF Next, Request, ScopedLock, RequestWrite, CreateNewAsset, Unload, Dequeue, vars
<1>2. raced \in BOOLEAN
  BY DEF Shape, TypeOK
<1>3. ASSUME NEW t \in Threads, MarkLoading(t) PROVE (raced => raced') /\ raced' \in BOOLEAN
  BY <1>3 DEF MarkLoading
<1>4. QED
  BY <1>1, <1>2, <1>3

LEMMA CalmStep ==
    ASSUME Calm, [Next]_vars, ~raced'
    PROVE  Calm'
<1>0. Shape'
  BY ShapeStep DEF Calm
<1>1. ASSUME NEW a \in Assets, NEW cb \in BOOLEAN, Request(a, cb) PROVE Calm'
  BY <1>0, <1>1, RequestSafe
<1>2. ASSUME NEW a \in Assets, ScopedLock(a) PROVE Calm'
  BY <1>0, <1>2, ScopedLockSafe
<1>3. ASSUME NEW a \in Assets, RequestWrite(a) PROVE Calm'
  BY <1>0, <1>3, RequestWriteSafe
<1>4. ASSUME NEW a \in Assets, CreateNewAsset(a) PROVE Calm'
  BY <1>0, <1>4, CreateSafe
<1>5. ASSUME NEW a \in Assets, Unload(a) PROVE Calm'
  BY <1>0, <1>5, UnloadSafe
<1>6. ASSUME NEW t \in Threads, InCall(t) PROVE Calm'
  <2>1. CASE MarkLoading(t)
    <3>1. entry[Head(frame[t].todo)].stage \in {"None", "Unloaded"}
      BY <2>1 DEF MarkLoading
    <3>2. QED
      BY <1>0, <2>1, <3>1, MarkLoadingSafe
  <2>2. QED
    BY <1>0, <1>6, <2>1, ReadStageSafe, ExecuteSafe, PollSafe, DestroySlotSafe DEF InCall
<1>7. ASSUME NEW p \in Threads, Dequeue(p) PROVE Calm'
  BY <1>0, <1>7, DequeueSafe
<1>8. CASE InJob
  BY <1>0, <1>8, WriteSafe, CompileSafe, RequestParentSafe, ParsedSafe, FailedSafe, ResetFailedSafe,
     InitializeRuntimeSafe, SetLoadedSafe, CheckLoadedSafe, NotifySafe DEF InJob
<1>9. CASE UNCHANGED vars
  <2>1. UNCHANGED <<entry, slots, jobs, cur, frame, held, asserted>>
    BY <1>9 DEF vars
  <2>2. Loads'
    BY <2>1 DEF Calm, Loads, StagesTellHandles, RequestsOwnLoads, MustQueue, NotQueued, QueueOwnsLoads,
       WorkerOwnsLoad, HasSlot, ToBeLoaded, Compiles, At
  <2>3. SlotsHaveOneOwner' /\ HeldCurrent'
    BY <2>1, SlotsKept, HeldKept
  <2>4. Contents' /\ OnlyLateSaves'
    BY <2>1, <2>3 DEF Calm, Contents, WritesOfLoaded, ParentThere, OverParent, Requesting,
       ChildHasParent, IsLoaded, At, OnlyLateSaves
  <2>5. QED
    BY <1>0, <2>2, <2>3, <2>4 DEF Calm
<1>10. QED
  BY <1>1, <1>2, <1>3, <1>4, <1>5, <1>6, <1>7, <1>8, <1>9 DEF Next

LEMMA CalmUntilRaced == Inv /\ ~raced => Calm
  BY DEF Inv, Safe, Calm

LEMMA InvStep == Inv /\ [Next]_vars => Inv'
<1> SUFFICES ASSUME Inv, [Next]_vars PROVE Inv'
  OBVIOUS
<1>1. Shape'
  BY ShapeStep DEF Inv
<1>2. CASE raced'
  BY <1>1, <1>2 DEF Inv
<1>3. CASE ~raced'
  <2>1. ~raced
    BY <1>3, OnlyMarksRace DEF Inv
  <2>2. Calm'
    BY <1>3, <2>1, CalmUntilRaced, CalmStep
  <2>3. QED
    BY <2>2 DEF Inv, Calm, Safe
<1>4. QED
  BY <1>2, <1>3

(* The inductive invariant: until a request has raced, every load has one  *)
(* owner, every slot has one owner, and what the owners rely on is there.  *)
THEOREM AssetsInvariant == Spec => []Inv
  BY InvInit, InvStep, PTL DEF Spec

-----------------------------------------------------------------------------
LEMMA SameCardinality ==
    ASSUME NEW S, NEW T, NEW f \in [S -> T], IsFiniteSet(T),
           \A x, y \in S : f[x] = f[y] => x = y,
           \A z \in T : \E x \in S : f[x] = z
    PROVE  IsFiniteSet(S) /\ Cardinality(S) = Cardinality(T)
<1>1. f \in Injection(S, T) /\ f \in Surjection(S, T)
  BY DEF Injection, Surjection, IsInjective
<1>2. QED
  BY <1>1, FS_Injection

LEMMA OwnersCounted == Calm => SlotsOwned
<1> SUFFICES ASSUME Calm PROVE SlotsOwned
  OBVIOUS
<1> DEFINE entries == {a \in Assets : entry[a].handle # Invalid}
           dooming == {t \in Threads : frame[t].doomed # Invalid}
           A == {entry[a].handle : a \in entries}
           B == {frame[t].doomed : t \in dooming}
<1>1. /\ \A a \in Assets : entry[a].handle # Invalid => entry[a].handle \in 1 .. NUM_SLOTS
      /\ \A t \in Threads : frame[t].doomed # Invalid => frame[t].doomed \in 1 .. NUM_SLOTS
      /\ slots \subseteq 1 .. NUM_SLOTS
  BY DEF Calm, Shape, TypeOK, Entry, Frame, Handles
<1>2. slots = A \cup B
  <2>1. \A h \in 1 .. NUM_SLOTS : h \in slots <=> h \in A \cup B
    BY Distinct DEF Calm, SlotsHaveOneOwner, InEntry, Doomed
  <2>2. A \cup B \subseteq 1 .. NUM_SLOTS
    BY <1>1
  <2>3. QED
    BY <1>1, <2>1, <2>2
<1>3. IsFiniteSet(A) /\ IsFiniteSet(B)
  <2>1. IsFiniteSet(1 .. NUM_SLOTS)
    <3>1. 1 \in Int /\ NUM_SLOTS \in Int
      BY AssetSystemAssumption DEF AssetSystemAssumption
    <3>2. QED
      BY <3>1, FS_Interval
  <2>2. A \subseteq 1 .. NUM_SLOTS /\ B \subseteq 1 .. NUM_SLOTS
    BY <1>1
  <2>3. QED
    BY <2>1, <2>2, FS_Subset
<1>4. Cardinality(entries) = Cardinality(A)
  <2> DEFINE f == [a \in entries |-> entry[a].handle]
  <2>1. f \in [entries -> A] /\ \A z \in A : \E a \in entries : f[a] = z
    OBVIOUS
  <2>2. \A a, b \in entries : f[a] = f[b] => a = b
    BY DEF Calm, SlotsHaveOneOwner
  <2> HIDE DEF f, A, entries
  <2>3. QED
    BY <1>3, <2>1, <2>2, SameCardinality
<1>5. Cardinality(dooming) = Cardinality(B)
  <2> DEFINE f == [t \in dooming |-> frame[t].doomed]
  <2>1. f \in [dooming -> B] /\ \A z \in B : \E t \in dooming : f[t] = z
    OBVIOUS
  <2>2. \A t, u \in dooming : f[t] = f[u] => t = u
    BY DEF Calm, SlotsHaveOneOwner, Threads
  <2> HIDE DEF f, B, dooming
  <2>3. QED
    BY <1>3, <2>1, <2>2, SameCardinality
<1>6. A \cap B = {}
  BY DEF Calm, SlotsHaveOneOwner
<1> HIDE DEF A, B
<1>7. Cardinality(A \cup B) = Cardinality(A) + Cardinality(B)
  <2>1. Cardinality(A) \in Nat /\ Cardinality(B) \in Nat
    BY <1>3, FS_CardinalityType
  <2>2. Cardinality(A \cup B) = Cardinality(A) + Cardinality(B) - Cardinality(A \cap B)
    BY <1>3, FS_Union
  <2>3. Cardinality(A \cap B) = 0
    BY <1>6, FS_EmptySet
  <2>4. QED
    BY <2>1, <2>2, <2>3
<1>8. QED
  BY <1>2, <1>4, <1>5, <1>7 DEF SlotsOwned, A, B

(* No slot of the pool is leaked, shared or lost, for every number of      *)
(* slots, until a request has raced: the used ones are counted by the      *)
(* entries that hold one and the threads about to destroy one.             *)
THEOREM AssetSlotsAccountedFor == Spec => []SlotsAccountedFor
<1>1. Inv => SlotsAccountedFor
  BY OwnersCounted, CalmUntilRaced DEF SlotsAccountedFor
<1>2. QED
  BY <1>1, AssetsInvariant, PTL

(* Until a request has raced, no assertion of the load, write and unload   *)
(* paths fails, but that of the save of an asset that may be unloaded.     *)
THEOREM AssetAssertionsHold == Spec => []OnlyLateSavesFail
<1>1. Inv => OnlyLateSavesFail
  BY DEF Inv, Safe, OnlyLateSaves, OnlyLateSavesFail
<1>2. QED
  BY <1>1, AssetsInvariant, PTL

(* The owner's copy of an asset never outlives an unload or a failed load, *)
(* until a request has raced.                                              *)
THEOREM HeldCopiesAreCurrent == Spec => []HeldCopyIsCurrent
<1>1. Inv => HeldCopyIsCurrent
  BY DEF Inv, Safe, Contents, HeldCurrent, HeldCopyIsCurrent
<1>2. QED
  BY <1>1, AssetsInvariant, PTL

(* What is loaded over a parent has a parent that is loaded, and stays so, *)
(* unless the parent is unloaded by the user or a request has raced.       *)
THEOREM LoadedChildrenHaveParents == Spec => []LoadedChildHasParent
<1>1. Inv => LoadedChildHasParent
  BY DEF Inv, Safe, Contents, ChildHasParent, HasParent, LoadedChildHasParent
<1>2. QED
  BY <1>1, AssetsInvariant, PTL

-----------------------------------------------------------------------------
(* The refinement of AssetLifecycle, step by step.                         *)
status == [a \in Assets |-> Status(a)]

LEMMA Moves ==
    ASSUME Calm, NEW x \in Assets, NEW e \in Entry,
           entry' = [entry EXCEPT ![x] = e]
    PROVE  /\ status' = [status EXCEPT ![x] = Status(x)']
           /\ Status(x)' = IF e.stage = "Loaded" /\ e.handle # Invalid THEN "Loaded"
                           ELSE IF e.stage \in {"Loading", "Compiling"} THEN "Pending"
                           ELSE "Unloaded"
<1>1. \A a \in Assets : entry'[a] = IF a = x THEN e ELSE entry[a]
  BY DEF Calm, Shape, TypeOK
<1>2. \A a \in Assets : a # x => Status(a)' = Status(a)
  BY <1>1 DEF Status, IsLoaded
<1>3. QED
  BY <1>1, <1>2 DEF status, Status, IsLoaded

LEMMA Stutters ==
    ASSUME Calm, UNCHANGED entry
    PROVE  UNCHANGED status
  BY DEF status, Status, IsLoaded

LEMMA LifecycleInit == Init => Lifecycle!Init
  BY DEF Init, Lifecycle!Init, Status, IsLoaded, Absent

(* A step before the first race.                                           *)
LEMMA LifecycleStep ==
    ASSUME Calm, [Next]_vars, ~raced, ~raced'
    PROVE  [Lifecycle!Next]_status
<1>0. raced' = raced
  BY OnlyMarksRace DEF Calm, Shape, TypeOK
<1>1. ASSUME NEW a \in Assets, CreateNewAsset(a) PROVE Lifecycle!Next
  <2>1. PICK h \in 1 .. NUM_SLOTS : entry' = [entry EXCEPT ![a] = [stage |-> "Loaded", handle |-> h]]
    BY <1>1 DEF CreateNewAsset
  <2>2. [stage |-> "Loaded", handle |-> h] \in Entry /\ h # Invalid
    BY Distinct DEF Entry, Stages, Handles
  <2>3. Status(a) = "Unloaded"
    BY <1>1 DEF CreateNewAsset, Absent, Status, IsLoaded
  <2>4. status' = [status EXCEPT ![a] = "Loaded"]
    BY <2>1, <2>2, Moves
  <2>5. Lifecycle!Create(a)
    BY <1>0, <2>3, <2>4 DEF Lifecycle!Create, Lifecycle!Move, status
  <2>6. QED
    BY <2>5 DEF Lifecycle!Next
<1>2. ASSUME NEW a \in Assets, Unload(a) PROVE Lifecycle!Next
  <2>1. Reset \in Entry /\ entry' = [entry EXCEPT ![a] = Reset] /\ IsLoaded(a)
    BY <1>2 DEF Unload, Reset, Entry, Stages, Handles, Calm, Contents, HeldCurrent
  <2>2. Status(a) = "Loaded" /\ status' = [status EXCEPT ![a] = "Unloaded"]
    <3>1. Reset.stage = "Unloaded"
      BY DEF Reset
    <3>2. Status(a) = "Loaded"
      BY <2>1 DEF Status
    <3>3. /\ status' = [status EXCEPT ![a] = Status(a)']
          /\ Status(a)' = "Unloaded"
      BY <2>1, <3>1, Moves
    <3> QED
      BY <3>2, <3>3
  <2>3. Lifecycle!Unload(a)
    BY <1>0, <2>2 DEF Lifecycle!Unload, Lifecycle!Move, status
  <2>4. QED
    BY <2>3 DEF Lifecycle!Next
<1>3. ASSUME NEW t \in Threads, MarkLoading(t) PROVE Lifecycle!Next
  <2> DEFINE a == Head(frame[t].todo)
             e == [stage |-> "Loading", handle |-> Invalid]
  <2>1. a \in Assets
    BY <1>3, TailOf DEF MarkLoading, Calm, Shape, TypeOK, FrameOK, Frame, At
  <2>2. entry[a].stage \in {"None", "Unloaded"}
    BY <1>3 DEF MarkLoading
  <2>3. e \in Entry /\ entry' = [entry EXCEPT ![a] = e]
    BY <1>3 DEF MarkLoading, Entry, Stages, Handles
  <2>4. Status(a) = "Unloaded" /\ status' = [status EXCEPT ![a] = "Pending"]
    BY <2>1, <2>2, <2>3, Moves DEF Status, IsLoaded
  <2>5. Lifecycle!Request(a)
    BY <1>0, <2>1, <2>4 DEF Lifecycle!Request, Lifecycle!Move, status
  <2>6. QED
    BY <2>1, <2>5 DEF Lifecycle!Next
<1>4. ASSUME NEW t \in Threads, InCall(t) PROVE Lifecycle!Next \/ UNCHANGED status
  <2>1. CASE MarkLoading(t)
    BY <1>3, <2>1
  <2>2. CASE UNCHANGED entry
    BY <2>2, Stutters
  <2>3. QED
    BY <1>4, <2>1, <2>2 DEF InCall, ReadStage, Execute, Poll, DestroySlot
<1>5. ASSUME Compile PROVE UNCHANGED status
  <2> DEFINE a == cur.asset
  <2>1. a \in Assets /\ ToBeLoaded(a) /\ Status(a) = "Pending"
    BY <1>5, JobsAreJobs
    DEF Compile, Calm, Loads, WorkerOwnsLoad, ToBeLoaded, Status, IsLoaded, At
  <2>2. PICK h \in 1 .. NUM_SLOTS :
            entry' = [entry EXCEPT ![a] = [stage |-> "Compiling", handle |-> h]]
    BY <1>5, <2>1 DEF Compile, ToBeLoaded, IsLoaded
  <2>3. [stage |-> "Compiling", handle |-> h] \in Entry
    BY DEF Entry, Stages, Handles
  <2>4. status' = [status EXCEPT ![a] = "Pending"]
    BY <2>1, <2>2, <2>3, Moves
  <2>5. QED
    BY <2>1, <2>4 DEF status
<1>6. ASSUME Parsed PROVE UNCHANGED status
  <2> DEFINE a == cur.asset
             e == [entry[a] EXCEPT !.stage = "Loading"]
  <2>1. HasSlot
    BY <1>6 DEF Parsed, HasSlot, At
  <2>2. a \in Assets /\ Status(a) = "Pending"
    BY <2>1, OwnEntry DEF Calm, Loads, WorkerOwnsLoad, Status, IsLoaded
  <2>3. e \in Entry /\ e.stage = "Loading" /\ entry' = [entry EXCEPT ![a] = e]
    BY <1>6, <2>2 DEF Parsed, Calm, Shape, TypeOK, Entry, Stages
  <2> HIDE DEF e
  <2>4. status' = [status EXCEPT ![a] = "Pending"]
    BY <2>2, <2>3, Moves
  <2>5. QED
    BY <2>2, <2>4 DEF status
<1>7. ASSUME ResetFailed PROVE Lifecycle!Next
  <2> DEFINE a == cur.asset
  <2>1. HasSlot
    BY <1>7 DEF ResetFailed, HasSlot, At
  <2>2. a \in Assets /\ Status(a) = "Pending"
    BY <2>1, OwnEntry DEF Calm, Loads, WorkerOwnsLoad, Status, IsLoaded
  <2>3. Reset \in Entry /\ entry' = [entry EXCEPT ![a] = Reset]
    BY <1>7 DEF ResetFailed, Reset, Entry, Stages, Handles
  <2>4. status' = [status EXCEPT ![a] = "Unloaded"]
    BY <2>2, <2>3, Moves DEF Reset
  <2>5. Lifecycle!Settle(a)
    BY <1>0, <2>2, <2>4 DEF Lifecycle!Settle, Lifecycle!Move, status
  <2>6. QED
    BY <2>2, <2>5 DEF Lifecycle!Next
<1>8. ASSUME SetLoaded PROVE Lifecycle!Next
  <2> DEFINE a == cur.asset
             e == [entry[a] EXCEPT !.stage = "Loaded"]
  <2>1. HasSlot
    BY <1>8 DEF SetLoaded, HasSlot, At
  <2>2. a \in Assets /\ Status(a) = "Pending" /\ entry[a].handle # Invalid
    BY <2>1, OwnEntry DEF Calm, Loads, WorkerOwnsLoad, Status, IsLoaded
  <2>3. /\ e \in Entry /\ e.stage = "Loaded" /\ e.handle # Invalid
        /\ entry' = [entry EXCEPT ![a] = e]
    BY <1>8, <2>2 DEF SetLoaded, Calm, Shape, TypeOK, Entry, Stages
  <2> HIDE DEF e
  <2>4. status' = [status EXCEPT ![a] = "Loaded"]
    BY <2>2, <2>3, Moves
  <2>5. Lifecycle!Settle(a)
    BY <1>0, <2>2, <2>4 DEF Lifecycle!Settle, Lifecycle!Move, status
  <2>6. QED
    BY <2>2, <2>5 DEF Lifecycle!Next
<1>9. ASSUME InJob PROVE Lifecycle!Next \/ UNCHANGED status
  <2>1. CASE UNCHANGED entry
    BY <2>1, Stutters
  <2>2. QED
    BY <1>5, <1>6, <1>7, <1>8, <1>9, <2>1
    DEF InJob, Write, RequestParent, Failed, InitializeRuntime, CheckLoaded, Notify
<1>10. CASE UNCHANGED entry
  BY <1>10, Stutters
<1>11. QED
  BY <1>1, <1>2, <1>4, <1>9, <1>10 DEF Next, Request, ScopedLock, RequestWrite, Dequeue, vars

LEMMA LifecycleNext == Inv /\ [Next]_vars => [Lifecycle!Next]_<<status, raced>>
<1> SUFFICES ASSUME Inv, [Next]_vars PROVE [Lifecycle!Next]_<<status, raced>>
  OBVIOUS
<1>1. (raced => raced') /\ raced \in BOOLEAN /\ raced' \in BOOLEAN
  BY OnlyMarksRace DEF Inv, Shape, TypeOK
<1>2. CASE raced'
  <2>1. status' \in [Assets -> {"Unloaded", "Pending", "Loaded"}]
    BY DEF status, Status
  <2>2. Lifecycle!Collide
    BY <1>1, <1>2, <2>1 DEF Lifecycle!Collide, Lifecycle!Statuses, status
  <2>3. QED
    BY <2>2 DEF Lifecycle!Next
<1>3. CASE ~raced'
  <2>1. [Lifecycle!Next]_status
    BY <1>1, <1>3, CalmUntilRaced, LifecycleStep
  <2>2. QED
    BY <1>1, <1>3, <2>1
<1>4. QED
  BY <1>2, <1>3

(* Every behaviour of the asset system, seen through the stages, is one of *)
(* AssetLifecycle: a request makes an asset Pending once, a load settles   *)
(* it, and only an unload takes a Loaded asset away, until a request has   *)
(* raced.  (That every Pending asset is settled in the end is model-       *)
(* checked: ImplementsLifecycle.)                                          *)
THEOREM AssetsImplementLifecycle == Spec => Lifecycle!Safety
  BY AssetsInvariant, LifecycleInit, LifecycleNext, PTL DEF Spec, Lifecycle!Safety, status
=============================================================================
