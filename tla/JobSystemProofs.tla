---------------------------- MODULE JobSystemProofs ----------------------------
(***************************************************************************)
(* meJobSystem's safety for every set of workers and every number of jobs  *)
(* and of lifetimes.  The argument: an id names the call of Execute that   *)
(* took it, so two places that hold one id belong to one thread; what one  *)
(* thread has made lies in the order gone from the queue, queued, claimed, *)
(* with the ids increasing along it; and every id given out is in one of   *)
(* these places.                                                           *)
(***************************************************************************)
EXTENDS JobSystem, SequenceTheorems, TLAPS

(* Thread t took id, and nobody else did.                                  *)
TakenBy(t, id) == id \in 0 .. currentJobID - 1 /\ issuer[id + 1] = t

(* The jobs that have left the queue: entered, or with a worker.           *)
Gone == ({started[i] : i \in DOMAIN started} \cup {job[w] : w \in Workers}) \ {None}

(* An id is held by the thread that took it.                               *)
HeldByIssuer ==
    /\ Len(issuer) = currentJobID
    /\ \A t \in Threads : claimed[t] # None => TakenBy(t, claimed[t])
    /\ \A t \in Threads : \A i \in DOMAIN jobPool[t] : TakenBy(t, jobPool[t][i])
    /\ \A id \in Gone : id < currentJobID

(* What t has made: the jobs gone come before those queued, those before   *)
(* the one claimed.                                                        *)
QueuedInOrder ==
    \A t \in Threads : \A i \in DOMAIN jobPool[t] :
        /\ \A j \in DOMAIN jobPool[t] : i < j => jobPool[t][i] < jobPool[t][j]
        /\ claimed[t] # None => jobPool[t][i] < claimed[t]
        /\ \A id \in Gone : issuer[id + 1] = t => id < jobPool[t][i]

GoneBeforeClaimed ==
    \A t \in Threads : \A id \in Gone :
        claimed[t] # None /\ issuer[id + 1] = t => id < claimed[t]

(* Every id given out is claimed, queued or gone.                          *)
NoneLost ==
    \A id \in 0 .. currentJobID - 1 :
        \/ \E t \in Threads : claimed[t] = id
        \/ \E t \in Threads : \E i \in DOMAIN jobPool[t] : jobPool[t][i] = id
        \/ id \in Gone

(* A job in hand has not been entered and comes after what its worker has  *)
(* entered of the same thread; one that runs was entered; two workers have *)
(* two jobs.                                                               *)
WithWorkers ==
    /\ \A w \in Workers : pc[w] = "taken" => \A i \in DOMAIN started :
          /\ started[i] # job[w]
          /\ enteredBy[i] = w /\ issuer[started[i] + 1] = issuer[job[w] + 1] => started[i] < job[w]
    /\ \A w \in Workers : pc[w] = "run" => \E i \in DOMAIN started : started[i] = job[w]
    /\ \A v, w \in Workers : job[v] = job[w] /\ job[v] # None => v = w

(* What has been entered, once each and by each worker in order.           *)
EnteredInOrder ==
    \A i, j \in DOMAIN started :
        /\ started[i] = started[j] => i = j
        /\ i < j /\ enteredBy[i] = enteredBy[j] /\ issuer[started[i] + 1] = issuer[started[j] + 1]
           => started[i] < started[j]

(* Where Execute and the scan of the queue can be under way.               *)
ControlOK ==
    /\ mainPc = "join" => isRunning = 0
    /\ \A w \in Workers :
          /\ pc[w] # "run" => claimed[w] = None
          /\ scanned[w] # {} => pc[w] = "drain"
          /\ w \in scanned[w] => jobPool[w] = <<>>
          /\ pc[w] = "check" => jobPool[w] = <<>>

Jobs == HeldByIssuer /\ QueuedInOrder /\ GoneBeforeClaimed /\ NoneLost /\ WithWorkers /\ EnteredInOrder

Control == ControlOK /\ QuietAfterShutdown /\ JobsOfJobsNotDropped

Inv == TypeOK /\ Jobs /\ Control

-----------------------------------------------------------------------------
LEMMA AppendedTo ==
    ASSUME NEW S, NEW s \in Seq(S), NEW e \in S
    PROVE  /\ Append(s, e) \in Seq(S)
           /\ Len(Append(s, e)) = Len(s) + 1
           /\ DOMAIN Append(s, e) = DOMAIN s \cup {Len(s) + 1}
           /\ \A i \in DOMAIN s : Append(s, e)[i] = s[i] /\ i \in Nat /\ i < Len(s) + 1
           /\ Append(s, e)[Len(s) + 1] = e
  OBVIOUS

LEMMA TailOf ==
    ASSUME NEW S, NEW s \in Seq(S), s # <<>>
    PROVE  /\ Tail(s) \in Seq(S)
           /\ 1 \in DOMAIN s
           /\ Head(s) = s[1]
           /\ Head(s) \in S
           /\ \A i \in DOMAIN Tail(s) : Tail(s)[i] = s[i + 1] /\ i + 1 \in DOMAIN s /\ i \in Nat /\ 1 < i + 1
  OBVIOUS

LEMMA Typed ==
    ASSUME TypeOK
    PROVE  /\ currentJobID \in Nat
           /\ \A t \in Threads : claimed[t] # None => claimed[t] \in Nat
           /\ \A t \in Threads : jobPool[t] \in Seq(JobIds)
           /\ \A t \in Threads : \A i \in DOMAIN jobPool[t] : i \in Nat /\ jobPool[t][i] \in Nat
           /\ \A i \in DOMAIN started : i \in Nat /\ started[i] \in Nat
           /\ \A id \in Gone : id \in Nat
           /\ None \notin JobIds
  BY JobSystemAssumption DEF TypeOK, JobIds, Gone

LEMMA InitInv == Init => Inv
<1> SUFFICES ASSUME Init PROVE Inv
  OBVIOUS
<1> USE JobSystemAssumption DEF Init
<1>1. TypeOK
  BY DEF TypeOK, JobIds
<1>2. Jobs
  <2>1. Gone = {}
    BY DEF Gone
  <2> QED
    BY <2>1 DEF Jobs, HeldByIssuer, QueuedInOrder, GoneBeforeClaimed, NoneLost, WithWorkers, EnteredInOrder
<1>3. Control
  BY DEF Control, ControlOK, QuietAfterShutdown, JobsOfJobsNotDropped, Threads
<1> QED
  BY <1>1, <1>2, <1>3 DEF Inv

(* The steps that only move a thread on.                                   *)
LEMMA JobsUntouched ==
    ASSUME Jobs, UNCHANGED <<currentJobID, jobPool, claimed, job, issuer, started, enteredBy>>,
           \A w \in Workers : /\ pc'[w] = "taken" => pc[w] = "taken"
                              /\ pc'[w] = "run" => pc[w] = "run"
    PROVE  Jobs'
<1>1. Gone' = Gone
  BY DEF Gone
<1>2. HeldByIssuer' /\ QueuedInOrder' /\ GoneBeforeClaimed' /\ NoneLost'
  BY <1>1 DEF Jobs, HeldByIssuer, TakenBy, QueuedInOrder, GoneBeforeClaimed, NoneLost
<1>3. WithWorkers' /\ EnteredInOrder'
  BY DEF Jobs, WithWorkers, EnteredInOrder
<1> QED
  BY <1>2, <1>3 DEF Jobs

LEMMA MainInv ==
    ASSUME Inv, Initialize \/ Shutdown \/ Join
    PROVE  Inv'
<1>1. TypeOK'
  BY JobSystemAssumption DEF Inv, TypeOK, Initialize, Shutdown, Join, Control, QuietAfterShutdown
<1>2. Jobs'
  <2>1. UNCHANGED <<currentJobID, jobPool, claimed, job, issuer, started, enteredBy>>
    BY DEF Initialize, Shutdown, Join
  <2>2. \A w \in Workers : pc'[w] = pc[w] \/ pc'[w] \notin {"taken", "run"}
    BY DEF Initialize, Shutdown, Join
  <2> QED
    BY <2>1, <2>2, JobsUntouched DEF Inv
<1>3. Control'
  BY DEF Inv, TypeOK, Control, ControlOK, QuietAfterShutdown, JobsOfJobsNotDropped, Initialize, Shutdown, Join, Threads
<1> QED
  BY <1>1, <1>2, <1>3 DEF Inv

LEMMA LoopInv ==
    ASSUME Inv, NEW w \in Workers, Check(w) \/ Sleep(w) \/ \E p \in Threads : Scan(w, p)
    PROVE  Inv'
<1>1. TypeOK'
  <2>1. CASE \E p \in Threads : Scan(w, p)
    <3>1. PICK p \in Threads : Scan(w, p)
      BY <2>1
    <3>2. scanned' \in [Workers -> SUBSET Threads]
      BY <3>1 DEF Scan, Inv, TypeOK
    <3>3. UNCHANGED <<isRunning, currentJobID, jobPool, claimed, pc, job, mainPc, inits,
                      issuer, started, enteredBy>>
      BY <3>1 DEF Scan
    <3> QED
      BY <3>2, <3>3 DEF Inv, TypeOK
  <2>2. CASE Check(w) \/ Sleep(w)
    <3>1. PICK l \in {"drain", "exited", "check"} : pc' = [pc EXCEPT ![w] = l]
      BY <2>2 DEF Check, Sleep
    <3>2. pc[w] \notin {"taken", "run"}
      BY <2>2 DEF Check, Sleep
    <3>3. /\ pc' \in [Workers -> {"none", "check", "drain", "taken", "run", "exited"}]
          /\ \A v \in Workers : pc'[v] \in {"taken", "run"} <=> pc[v] \in {"taken", "run"}
      BY <3>1, <3>2 DEF Inv, TypeOK
    <3>4. scanned' \in [Workers -> SUBSET Threads]
      BY <2>2 DEF Check, Sleep, Inv, TypeOK
    <3>5. UNCHANGED <<isRunning, currentJobID, jobPool, claimed, job, mainPc, inits,
                      issuer, started, enteredBy>>
      BY <2>2 DEF Check, Sleep
    <3> QED
      BY <3>3, <3>4, <3>5 DEF Inv, TypeOK
  <2> QED
    BY <2>1, <2>2
<1>2. Jobs'
  <2>1. UNCHANGED <<currentJobID, jobPool, claimed, job, issuer, started, enteredBy>>
    BY DEF Check, Sleep, Scan
  <2>2. \A v \in Workers : pc'[v] = pc[v] \/ pc'[v] \notin {"taken", "run"}
    BY DEF Check, Sleep, Scan, Inv, TypeOK
  <2> QED
    BY <2>1, <2>2, JobsUntouched DEF Inv
<1>3. Control'
  <2>1. CASE Check(w)
    BY <2>1 DEF Inv, TypeOK, Control, ControlOK, QuietAfterShutdown, JobsOfJobsNotDropped, Check, Threads
  <2>2. CASE Sleep(w)
    BY <2>2 DEF Inv, TypeOK, Control, ControlOK, QuietAfterShutdown, JobsOfJobsNotDropped, Sleep, Threads
  <2>3. CASE \E p \in Threads : Scan(w, p)
    BY <2>3 DEF Inv, TypeOK, Control, ControlOK, QuietAfterShutdown, JobsOfJobsNotDropped, Scan, Threads
  <2> QED
    BY <2>1, <2>2, <2>3
<1> QED
  BY <1>1, <1>2, <1>3 DEF Inv

(* The id given is the next one: greater than all before it.               *)
LEMMA ClaimIdInv ==
    ASSUME Inv, NEW t \in Threads, ClaimId(t)
    PROVE  Inv'
<1>0. /\ UNCHANGED <<isRunning, jobPool, pc, job, scanned, mainPc, inits, started, enteredBy>>
      /\ currentJobID' = currentJobID + 1
      /\ Gone' = Gone
  BY DEF ClaimId, Gone
<1>1. /\ currentJobID \in JobIds
      /\ issuer' \in Seq(Threads)
      /\ Len(issuer') = currentJobID + 1
      /\ issuer'[currentJobID + 1] = t
      /\ \A id \in 0 .. currentJobID - 1 : issuer'[id + 1] = issuer[id + 1]
  <2>1. Len(issuer) = currentJobID /\ issuer \in Seq(Threads)
    BY DEF Inv, TypeOK, Jobs, HeldByIssuer
  <2>2. \A id \in 0 .. currentJobID - 1 : id + 1 \in DOMAIN issuer
    BY <2>1
  <2> QED
    BY <2>1, <2>2, AppendedTo, JobSystemAssumption DEF ClaimId, JobIds
<1>2. /\ claimed' = [claimed EXCEPT ![t] = currentJobID]
      /\ \A u \in Threads : claimed'[u] = IF u = t THEN currentJobID ELSE claimed[u]
  BY DEF ClaimId, Inv, TypeOK
<1>3. TypeOK'
  BY <1>0, <1>1, <1>2, JobSystemAssumption DEF Inv, TypeOK, JobIds
<1>4. HeldByIssuer'
  <2>0. HeldByIssuer /\ currentJobID \in Nat
    BY Typed DEF Inv, Jobs
  <2>1. /\ \A s \in Threads : claimed[s] # None => claimed[s] \in 0 .. currentJobID - 1
        /\ \A s \in Threads : \A i \in DOMAIN jobPool[s] : jobPool[s][i] \in 0 .. currentJobID - 1
        /\ \A id \in Gone : id \in 0 .. currentJobID - 1
    BY <2>0, Typed DEF Inv, HeldByIssuer, TakenBy
  <2> QED
    BY <2>0, <2>1, <1>0, <1>1, <1>2 DEF HeldByIssuer, TakenBy
<1>5. /\ \A u \in Threads : \A i \in DOMAIN jobPool[u] :
            jobPool[u][i] < currentJobID /\ jobPool[u][i] \in Nat
      /\ \A id \in Gone : id < currentJobID /\ issuer'[id + 1] = issuer[id + 1]
  BY <1>1, Typed DEF Inv, Jobs, HeldByIssuer, TakenBy
<1>6. QueuedInOrder' /\ GoneBeforeClaimed' /\ NoneLost' /\ WithWorkers' /\ EnteredInOrder'
  <2>1. QueuedInOrder'
    BY <1>0, <1>2, <1>5 DEF Inv, Jobs, QueuedInOrder
  <2>2. GoneBeforeClaimed'
    BY <1>0, <1>2, <1>5 DEF Inv, Jobs, GoneBeforeClaimed
  <2>3. NoneLost'
    <3> SUFFICES ASSUME NEW id \in 0 .. currentJobID
                 PROVE  \/ \E u \in Threads : claimed'[u] = id
                        \/ \E u \in Threads : \E i \in DOMAIN jobPool[u] : jobPool[u][i] = id
                        \/ id \in Gone
      BY <1>0, <1>1 DEF NoneLost, JobIds
    <3>1. CASE id = currentJobID
      BY <1>2, <3>1
    <3>2. CASE id # currentJobID
      <4>1. id \in 0 .. currentJobID - 1
        BY <1>1, <3>2 DEF JobIds
      <4>2. \A u \in Threads : claimed[u] = id => u # t
        BY <4>1, JobSystemAssumption DEF ClaimId
      <4> QED
        BY <1>2, <4>1, <4>2 DEF Inv, Jobs, NoneLost
    <3> QED
      BY <3>1, <3>2
  <2>4. \A i \in DOMAIN started : started[i] \in Gone
    BY Typed, JobSystemAssumption DEF Gone, Inv
  <2>5. \A w \in Workers : pc[w] = "taken" => job[w] \in Gone
    BY DEF Gone, Inv, TypeOK
  <2>6. WithWorkers' /\ EnteredInOrder'
    BY <1>0, <1>5, <2>4, <2>5 DEF Inv, Jobs, WithWorkers, EnteredInOrder
  <2> QED
    BY <2>1, <2>2, <2>3, <2>6
<1>7. Control'
  BY <1>0, <1>2, JobSystemAssumption
     DEF ClaimId, Inv, TypeOK, Control, ControlOK, QuietAfterShutdown, JobsOfJobsNotDropped, MayExecute, Threads
<1> QED
  BY <1>3, <1>4, <1>6, <1>7 DEF Inv, Jobs

LEMMA EnqueueInv ==
    ASSUME Inv, NEW t \in Threads, Enqueue(t)
    PROVE  Inv'
<1> USE DEF Enqueue
<1> DEFINE n == Len(jobPool[t]) + 1
<1>1. /\ claimed[t] \in JobIds
      /\ jobPool[t] \in Seq(JobIds)
      /\ \A u \in Threads : u # t => jobPool'[u] = jobPool[u] /\ claimed'[u] = claimed[u]
      /\ claimed'[t] = None
      /\ jobPool'[t] = Append(jobPool[t], claimed[t])
  BY DEF Inv, TypeOK
<1>2. /\ jobPool'[t] \in Seq(JobIds)
      /\ DOMAIN jobPool'[t] = DOMAIN jobPool[t] \cup {n}
      /\ \A i \in DOMAIN jobPool[t] : jobPool'[t][i] = jobPool[t][i] /\ i \in Nat /\ i < n
      /\ jobPool'[t][n] = claimed[t]
      /\ n \in Nat
  BY <1>1, AppendedTo
<1> HIDE DEF n
<1>3. TypeOK'
  BY <1>1, <1>2 DEF Inv, TypeOK
<1>0. Gone' = Gone
  BY DEF Gone
<1>4. HeldByIssuer'
  BY <1>0, <1>1, <1>2 DEF Inv, Jobs, HeldByIssuer, TakenBy
<1>5. QueuedInOrder'
  <2> SUFFICES ASSUME NEW u \in Threads, NEW i \in DOMAIN jobPool'[u]
               PROVE  /\ \A j \in DOMAIN jobPool'[u] : i < j => jobPool'[u][i] < jobPool'[u][j]
                      /\ claimed'[u] # None => jobPool'[u][i] < claimed'[u]
                      /\ \A id \in Gone : issuer[id + 1] = u => id < jobPool'[u][i]
    BY <1>0 DEF QueuedInOrder
  <2>1. CASE u = t
    BY <1>1, <1>2, <2>1 DEF Inv, Jobs, QueuedInOrder, GoneBeforeClaimed
  <2>2. CASE u # t
    BY <1>1, <2>2 DEF Inv, Jobs, QueuedInOrder
  <2> QED
    BY <2>1, <2>2
<1>6. GoneBeforeClaimed' /\ NoneLost' /\ WithWorkers' /\ EnteredInOrder'
  <2>1. GoneBeforeClaimed'
    BY <1>0, <1>1 DEF Inv, Jobs, GoneBeforeClaimed
  <2>2. NoneLost'
    <3> SUFFICES ASSUME NEW id \in 0 .. currentJobID - 1
                 PROVE  \/ \E u \in Threads : claimed'[u] = id
                        \/ \E u \in Threads : \E i \in DOMAIN jobPool'[u] : jobPool'[u][i] = id
                        \/ id \in Gone
      BY <1>0 DEF NoneLost
    <3>1. CASE claimed[t] = id
      BY <1>2, <3>1
    <3>2. ASSUME NEW u \in Threads, claimed[u] = id, u # t
          PROVE  claimed'[u] = id
      BY <1>1, <3>2
    <3>3. ASSUME NEW u \in Threads, NEW i \in DOMAIN jobPool[u], jobPool[u][i] = id
          PROVE  i \in DOMAIN jobPool'[u] /\ jobPool'[u][i] = id
      BY <1>1, <1>2, <3>3
    <3> QED
      BY <3>1, <3>2, <3>3 DEF Inv, Jobs, NoneLost
  <2>3. WithWorkers' /\ EnteredInOrder'
    BY DEF Inv, Jobs, WithWorkers, EnteredInOrder
  <2> QED
    BY <2>1, <2>2, <2>3
<1>7. Control'
  <2>1. t \in Workers => pc[t] = "run" /\ scanned[t] = {}
    BY DEF Inv, TypeOK, Control, ControlOK
  <2> QED
    BY <1>1, <2>1
       DEF Inv, TypeOK, Control, ControlOK, QuietAfterShutdown, JobsOfJobsNotDropped, Threads
<1> QED
  BY <1>3, <1>4, <1>5, <1>6, <1>7 DEF Inv, Jobs

(* The job taken is the oldest of its producer: it comes after all gone    *)
(* and before all that stay.                                               *)
LEMMA TakeInv ==
    ASSUME Inv, NEW w \in Workers, NEW p \in Threads, Take(w, p)
    PROVE  Inv'
<1> USE DEF Take
<1> DEFINE id == jobPool[p][1]
<1>1. /\ jobPool[p] \in Seq(JobIds)
      /\ \A u \in Threads : u # p => jobPool'[u] = jobPool[u]
      /\ jobPool'[p] = Tail(jobPool[p])
  BY DEF Inv, TypeOK
<1>2. /\ jobPool'[p] \in Seq(JobIds)
      /\ 1 \in DOMAIN jobPool[p]
      /\ id \in JobIds
      /\ Head(jobPool[p]) = id
      /\ \A i \in DOMAIN jobPool'[p] :
            jobPool'[p][i] = jobPool[p][i + 1] /\ i + 1 \in DOMAIN jobPool[p] /\ i \in Nat /\ 1 < i + 1
  <2>1. /\ Tail(jobPool[p]) \in Seq(JobIds)
        /\ 1 \in DOMAIN jobPool[p]
        /\ Head(jobPool[p]) = jobPool[p][1]
        /\ Head(jobPool[p]) \in JobIds
        /\ \A i \in DOMAIN Tail(jobPool[p]) :
              /\ Tail(jobPool[p])[i] = jobPool[p][i + 1]
              /\ i + 1 \in DOMAIN jobPool[p]
              /\ i \in Nat
              /\ 1 < i + 1
    BY <1>1, TailOf
  <2> QED
    BY <1>1, <2>1
<1>3. /\ \A v \in Workers : job'[v] = IF v = w THEN id ELSE job[v]
      /\ \A v \in Workers : pc'[v] = IF v = w THEN "taken" ELSE pc[v]
      /\ job[w] = None
      /\ id # None
  <2>1. id # None
    BY <1>2, JobSystemAssumption DEF JobIds
  <2>2. job \in [Workers -> JobIds \cup {None}] /\ pc[w] = "drain"
    BY DEF Inv, TypeOK
  <2>3. pc[w] \in {"taken", "run"} <=> job[w] # None
    BY DEF Inv, TypeOK
  <2>4. job[w] = None
    BY <2>2, <2>3
  <2>5. \A v \in Workers : job'[v] = IF v = w THEN id ELSE job[v]
    BY <1>2, <2>2
  <2>6. \A v \in Workers : pc'[v] = IF v = w THEN "taken" ELSE pc[v]
    BY DEF Inv, TypeOK
  <2> QED
    BY <2>1, <2>4, <2>5, <2>6
<1>4. Gone' = Gone \cup {id}
  BY <1>3 DEF Gone
<1>5. id \in Nat /\ TakenBy(p, id)
  BY <1>2 DEF Inv, Jobs, HeldByIssuer, JobIds
<1>6. \A g \in Gone : issuer[g + 1] = p => g < id
  BY <1>2 DEF Inv, Jobs, QueuedInOrder
<1>7. id \notin Gone
  BY <1>5, <1>6 DEF TakenBy
<1>8. \A i \in DOMAIN started : started[i] \in Gone
  BY Typed, JobSystemAssumption DEF Gone, Inv
<1> HIDE DEF id
<1>9. TypeOK'
  <2>1. /\ jobPool' \in [Threads -> Seq(JobIds)]
        /\ job' \in [Workers -> JobIds \cup {None}]
        /\ pc' \in [Workers -> {"none", "check", "drain", "taken", "run", "exited"}]
        /\ scanned' \in [Workers -> SUBSET Threads]
    BY <1>1, <1>2 DEF Inv, TypeOK
  <2>2. \A v \in Workers : pc'[v] \in {"taken", "run"} <=> job'[v] # None
    BY <1>3 DEF Inv, TypeOK
  <2> QED
    BY <2>1, <2>2 DEF Inv, TypeOK
<1>10. HeldByIssuer'
  <2>1. ASSUME NEW u \in Threads, NEW i \in DOMAIN jobPool'[u]
        PROVE  TakenBy(u, jobPool'[u][i])
    <3>1. CASE u = p
      BY <1>2, <3>1 DEF Inv, Jobs, HeldByIssuer
    <3>2. CASE u # p
      BY <1>1, <3>2 DEF Inv, Jobs, HeldByIssuer
    <3> QED
      BY <3>1, <3>2
  <2>2. \A g \in Gone' : g < currentJobID
    BY <1>4, <1>5 DEF Inv, Jobs, HeldByIssuer, TakenBy
  <2> QED
    BY <2>1, <2>2 DEF Inv, Jobs, HeldByIssuer, TakenBy
<1>11. QueuedInOrder'
  <2> SUFFICES ASSUME NEW u \in Threads, NEW i \in DOMAIN jobPool'[u]
               PROVE  /\ \A j \in DOMAIN jobPool'[u] : i < j => jobPool'[u][i] < jobPool'[u][j]
                      /\ claimed[u] # None => jobPool'[u][i] < claimed[u]
                      /\ \A g \in Gone' : issuer[g + 1] = u => g < jobPool'[u][i]
    BY DEF QueuedInOrder
  <2>1. CASE u = p
    <3>1. id < jobPool'[p][i]
      BY <1>2, <2>1 DEF Inv, Jobs, QueuedInOrder, id
    <3> QED
      BY <1>2, <1>4, <2>1, <3>1 DEF Inv, Jobs, QueuedInOrder
  <2>2. CASE u # p
    BY <1>1, <1>4, <1>5, <2>2 DEF Inv, Jobs, QueuedInOrder, TakenBy
  <2> QED
    BY <2>1, <2>2
<1>12. GoneBeforeClaimed'
  <2>1. claimed[p] # None => id < claimed[p]
    BY <1>2 DEF Inv, Jobs, QueuedInOrder, id
  <2> QED
    BY <1>4, <1>5, <2>1 DEF Inv, Jobs, GoneBeforeClaimed, TakenBy
<1>13. NoneLost'
  <2> SUFFICES ASSUME NEW k \in 0 .. currentJobID - 1, k # id
               PROVE  \/ \E u \in Threads : claimed[u] = k
                      \/ \E u \in Threads : \E i \in DOMAIN jobPool'[u] : jobPool'[u][i] = k
                      \/ k \in Gone
    BY <1>4 DEF NoneLost
  <2>1. ASSUME NEW u \in Threads, NEW i \in DOMAIN jobPool[u], jobPool[u][i] = k
        PROVE  \E j \in DOMAIN jobPool'[u] : jobPool'[u][j] = k
    <3>1. CASE u # p
      BY <1>1, <2>1, <3>1
    <3>2. CASE u = p
      <4>1. i # 1
        BY <2>1, <3>2 DEF id
      <4>2. i - 1 \in DOMAIN Tail(jobPool[p])
        BY <1>1, <3>2, <4>1
      <4>3. /\ i \in Nat
            /\ i - 1 \in DOMAIN jobPool'[p]
            /\ jobPool'[p][i - 1] = jobPool[p][i - 1 + 1]
        BY <1>1, <1>2, <3>2, <4>2
      <4>4. i - 1 + 1 = i
        BY <4>3
      <4> QED
        BY <2>1, <3>2, <4>3, <4>4
    <3> QED
      BY <3>1, <3>2
  <2> QED
    BY <2>1 DEF Inv, Jobs, NoneLost
<1>14. WithWorkers' /\ EnteredInOrder'
  <2>1. \A v \in Workers : v # w => job[v] # id
    BY <1>3, <1>7 DEF Gone
  <2>2. \A i \in DOMAIN started :
           started[i] # id /\ (issuer[started[i] + 1] = issuer[id + 1] => started[i] < id)
    BY <1>5, <1>6, <1>7, <1>8 DEF TakenBy
  <2> QED
    BY <1>3, <2>1, <2>2 DEF Inv, Jobs, WithWorkers, EnteredInOrder
<1>15. Control'
  <2>1. \A u \in Threads : jobPool[u] = <<>> => u # p
    OBVIOUS
  <2> QED
    BY <1>1, <2>1
       DEF Inv, TypeOK, Control, ControlOK, QuietAfterShutdown, JobsOfJobsNotDropped, Threads
<1> QED
  BY <1>9, <1>10, <1>11, <1>12, <1>13, <1>14, <1>15 DEF Inv, Jobs

(* The job entered was in hand: it moves from the worker to what was       *)
(* entered, and comes after what this worker has entered of its thread.    *)
LEMMA EnterInv ==
    ASSUME Inv, NEW w \in Workers, Enter(w)
    PROVE  Inv'
<1> USE DEF Enter
<1> DEFINE n == Len(started) + 1
<1>1. /\ started \in Seq(JobIds) /\ enteredBy \in Seq(Workers)
      /\ Len(enteredBy) = Len(started)
      /\ job[w] \in JobIds /\ job[w] # None /\ job[w] \in Nat
  BY JobSystemAssumption DEF Inv, TypeOK, JobIds
<1>2. /\ started' \in Seq(JobIds) /\ enteredBy' \in Seq(Workers)
      /\ Len(started') = Len(started) + 1
      /\ DOMAIN started' = DOMAIN started \cup {n}
      /\ \A i \in DOMAIN started : started'[i] = started[i] /\ i \in Nat /\ i < n
      /\ started'[n] = job[w]
      /\ n \in Nat
  BY <1>1, AppendedTo
<1>3. /\ Len(enteredBy') = Len(enteredBy) + 1
      /\ \A i \in DOMAIN started : enteredBy'[i] = enteredBy[i]
      /\ enteredBy'[n] = w
  <2>1. DOMAIN enteredBy = DOMAIN started
    BY <1>1
  <2> QED
    BY <1>1, <2>1, AppendedTo
<1> HIDE DEF n
<1>4. \A v \in Workers : pc'[v] = IF v = w THEN "run" ELSE pc[v]
  BY DEF Inv, TypeOK
<1>5. TypeOK'
  <2>1. pc' \in [Workers -> {"none", "check", "drain", "taken", "run", "exited"}]
    BY DEF Inv, TypeOK
  <2> QED
    BY <1>1, <1>2, <1>3, <1>4, <2>1 DEF Inv, TypeOK
<1>6. Gone' = Gone
  BY <1>1, <1>2 DEF Gone
<1>7. HeldByIssuer' /\ QueuedInOrder' /\ GoneBeforeClaimed' /\ NoneLost'
  BY <1>6 DEF Inv, Jobs, HeldByIssuer, TakenBy, QueuedInOrder, GoneBeforeClaimed, NoneLost
<1>8. \A i \in DOMAIN started :
         /\ started[i] # job[w]
         /\ enteredBy[i] = w /\ issuer[started[i] + 1] = issuer[job[w] + 1] => started[i] < job[w]
  BY DEF Inv, Jobs, WithWorkers
<1>9. \A v \in Workers : v # w => job[v] # job[w]
  BY <1>1 DEF Inv, Jobs, WithWorkers
<1>0. UNCHANGED <<job, issuer>> /\ WithWorkers /\ EnteredInOrder
  BY DEF Inv, Jobs
<1> HIDE DEF Enter
<1>10. WithWorkers'
  <2>1. ASSUME NEW v \in Workers, pc'[v] = "taken", NEW i \in DOMAIN started'
        PROVE  /\ started'[i] # job[v]
               /\ enteredBy'[i] = v /\ issuer[started'[i] + 1] = issuer[job[v] + 1] => started'[i] < job[v]
    <3>1. v # w /\ pc[v] = "taken"
      BY <1>4, <2>1
    <3>2. CASE i = n
      BY <1>2, <1>3, <1>9, <3>1, <3>2
    <3>3. CASE i \in DOMAIN started
      <4>1. /\ started[i] # job[v]
            /\ enteredBy[i] = v /\ issuer[started[i] + 1] = issuer[job[v] + 1] => started[i] < job[v]
        BY <1>0, <3>1, <3>3 DEF WithWorkers
      <4> QED
        BY <1>2, <1>3, <3>3, <4>1
    <3> QED
      BY <1>2, <3>2, <3>3
  <2>2. ASSUME NEW v \in Workers, pc'[v] = "run"
        PROVE  \E i \in DOMAIN started' : started'[i] = job[v]
    <3>1. CASE v = w
      BY <1>2, <3>1
    <3>2. CASE v # w
      <4>1. PICK i \in DOMAIN started : started[i] = job[v]
        BY <1>0, <1>4, <2>2, <3>2 DEF WithWorkers
      <4> QED
        BY <1>2, <4>1
    <3> QED
      BY <3>1, <3>2
  <2>3. \A u, v \in Workers : job[u] = job[v] /\ job[u] # None => u = v
    BY <1>0 DEF WithWorkers
  <2> QED
    BY <1>0, <2>1, <2>2, <2>3 DEF WithWorkers
<1>11. EnteredInOrder'
  <2> SUFFICES ASSUME NEW i \in DOMAIN started', NEW j \in DOMAIN started'
               PROVE  /\ started'[i] = started'[j] => i = j
                      /\ i < j /\ enteredBy'[i] = enteredBy'[j]
                            /\ issuer[started'[i] + 1] = issuer[started'[j] + 1]
                         => started'[i] < started'[j]
    BY <1>0 DEF EnteredInOrder
  <2>1. CASE i \in DOMAIN started /\ j \in DOMAIN started
    <3>1. /\ started[i] = started[j] => i = j
          /\ i < j /\ enteredBy[i] = enteredBy[j] /\ issuer[started[i] + 1] = issuer[started[j] + 1]
             => started[i] < started[j]
      BY <1>0, <2>1 DEF EnteredInOrder
    <3> QED
      BY <1>2, <1>3, <2>1, <3>1
  <2>2. CASE i \in DOMAIN started /\ j = n
    BY <1>2, <1>3, <1>8, <2>2
  <2>3. CASE i = n /\ j \in DOMAIN started
    BY <1>2, <1>8, <2>3
  <2>4. CASE i = n /\ j = n
    BY <1>2, <2>4
  <2> QED
    BY <1>2, <2>1, <2>2, <2>3, <2>4
<1>12. Control'
  BY <1>4 DEF Enter, Inv, TypeOK, Control, ControlOK, QuietAfterShutdown, JobsOfJobsNotDropped
<1> QED
  BY <1>5, <1>7, <1>10, <1>11, <1>12 DEF Inv, Jobs

LEMMA FinishInv ==
    ASSUME Inv, NEW w \in Workers, Finish(w)
    PROVE  Inv'
<1> USE DEF Finish
<1>1. TypeOK'
  BY JobSystemAssumption DEF Inv, TypeOK, JobIds
<1>2. Jobs'
  <2>1. /\ \A v \in Workers : job'[v] = IF v = w THEN None ELSE job[v]
        /\ \A v \in Workers : pc'[v] = IF v = w THEN "drain" ELSE pc[v]
    BY DEF Inv, TypeOK
  <2>2. \E i \in DOMAIN started : started[i] = job[w]
    BY DEF Inv, Jobs, WithWorkers
  <2>3. Gone' = Gone
    BY <2>1, <2>2 DEF Gone
  <2>4. HeldByIssuer' /\ QueuedInOrder' /\ GoneBeforeClaimed' /\ NoneLost'
    BY <2>3 DEF Inv, Jobs, HeldByIssuer, TakenBy, QueuedInOrder, GoneBeforeClaimed, NoneLost
  <2>5. WithWorkers' /\ EnteredInOrder'
    BY <2>1 DEF Inv, Jobs, WithWorkers, EnteredInOrder
  <2> QED
    BY <2>4, <2>5 DEF Jobs
<1>3. Control'
  BY DEF Inv, TypeOK, Control, ControlOK, QuietAfterShutdown, JobsOfJobsNotDropped
<1> QED
  BY <1>1, <1>2, <1>3 DEF Inv

(* The invariant of the job system, for any number of workers and jobs.    *)
THEOREM JobsInvariant == Spec => []Inv
<1>1. Inv /\ [Next]_vars => Inv'
  <2> SUFFICES ASSUME Inv, [Next]_vars PROVE Inv'
    OBVIOUS
  <2>1. CASE UNCHANGED vars
    BY <2>1, JobsUntouched
       DEF Inv, TypeOK, Control, ControlOK, QuietAfterShutdown, JobsOfJobsNotDropped, vars
  <2>2. CASE Next
    BY <2>2, MainInv, LoopInv, ClaimIdInv, EnqueueInv, TakeInv, EnterInv, FinishInv
       DEF Next, WorkerStep, Threads
  <2> QED
    BY <2>1, <2>2
<1> QED
  BY <1>1, InitInv, PTL DEF Spec

(* Every reachable state is type correct: ids stay below the number given. *)
THEOREM JobsTypeOK == Spec => []TypeOK
  BY JobsInvariant, PTL DEF Inv

(* No two jobs that are claimed, queued, taken or running have one id,     *)
(* however the calls of Execute overlap.                                           *)
THEOREM JobsIdsUnique == Spec => []IdsUnique
<1>1. ASSUME Inv PROVE IdsUnique
  <2>1. \A t, u \in Threads : claimed[t] = claimed[u] /\ claimed[t] # None => t = u
    BY <1>1 DEF Inv, Jobs, HeldByIssuer, TakenBy
  <2>2. ASSUME NEW t \in Threads, NEW u \in Threads, NEW i \in DOMAIN jobPool[t]
        PROVE  jobPool[t][i] # claimed[u]
    <3>1. jobPool[t][i] \in Nat /\ None \notin Nat /\ TakenBy(t, jobPool[t][i])
      BY <1>1, Typed, JobSystemAssumption DEF Inv, Jobs, HeldByIssuer
    <3>2. claimed[u] # None => TakenBy(u, claimed[u])
      BY <1>1 DEF Inv, Jobs, HeldByIssuer
    <3>3. claimed[t] # None => jobPool[t][i] < claimed[t] /\ claimed[t] \in Nat
      BY <1>1, Typed DEF Inv, Jobs, QueuedInOrder
    <3> QED
      BY <3>1, <3>2, <3>3 DEF TakenBy
  <2>3. ASSUME NEW t \in Threads, NEW u \in Threads,
               NEW i \in DOMAIN jobPool[t], NEW j \in DOMAIN jobPool[u],
               jobPool[t][i] = jobPool[u][j]
        PROVE  t = u /\ i = j
    <3>1. t = u
      BY <1>1, <2>3 DEF Inv, Jobs, HeldByIssuer, TakenBy
    <3>2. /\ i < j => jobPool[t][i] < jobPool[t][j]
          /\ j < i => jobPool[t][j] < jobPool[t][i]
          /\ i \in Nat /\ j \in Nat
          /\ jobPool[t][i] \in Nat
      BY <1>1, <3>1, Typed DEF Inv, Jobs, QueuedInOrder
    <3> QED
      BY <2>3, <3>1, <3>2
  <2>4. \A v, w \in Workers : job[v] = job[w] /\ job[v] # None => v = w
    BY <1>1 DEF Inv, Jobs, WithWorkers
  <2> QED
    BY <2>1, <2>2, <2>3, <2>4 DEF IdsUnique
<1> QED
  BY <1>1, JobsInvariant, PTL

(* No job is entered twice, and none that is queued or in hand was.        *)
THEOREM JobsRunAtMostOnce == Spec => []RunsAtMostOnce
<1>1. ASSUME Inv PROVE RunsAtMostOnce
  <2>1. \A i, j \in DOMAIN started : started[i] = started[j] => i = j
    BY <1>1 DEF Inv, Jobs, EnteredInOrder
  <2>2. ASSUME NEW t \in Threads, NEW i \in DOMAIN jobPool[t], NEW j \in DOMAIN started
        PROVE  jobPool[t][i] # started[j]
    <3>1. /\ TakenBy(t, jobPool[t][i])
          /\ started[j] \in Nat
          /\ started[j] \in Gone
      BY <1>1, Typed, JobSystemAssumption DEF Inv, Jobs, HeldByIssuer, Gone
    <3>2. issuer[started[j] + 1] = t => started[j] < jobPool[t][i]
      BY <1>1, <3>1 DEF Inv, Jobs, QueuedInOrder
    <3> QED
      BY <3>1, <3>2 DEF TakenBy
  <2>3. \A j \in DOMAIN started : ~InHand(started[j])
    BY <1>1 DEF Inv, Jobs, WithWorkers, InHand
  <2> QED
    BY <2>1, <2>2, <2>3 DEF RunsAtMostOnce
<1> QED
  BY <1>1, JobsInvariant, PTL

(* One worker enters the jobs of a thread in the order of the calls; a job *)
(* overtakes only one that another worker has in hand, for an id below its *)
(* own is not queued and not claimed any more.                             *)
THEOREM JobsProducerOrder == Spec => []ProducerOrder
<1>1. ASSUME Inv PROVE ProducerOrder
  <2>1. \A i, j \in DOMAIN started :
           /\ i < j
           /\ enteredBy[i] = enteredBy[j]
           /\ issuer[started[i] + 1] = issuer[started[j] + 1]
           => started[i] < started[j]
    BY <1>1 DEF Inv, Jobs, EnteredInOrder
  <2>2. ASSUME NEW j \in DOMAIN started, NEW id \in 0 .. started[j] - 1,
               issuer[id + 1] = issuer[started[j] + 1]
        PROVE  InHand(id) \/ \E i \in DOMAIN started : started[i] = id
    <3>1. /\ started[j] \in Gone
          /\ started[j] \in Nat
          /\ started[j] < currentJobID
          /\ id \in 0 .. currentJobID - 1
          /\ id < started[j]
      <4>1. started[j] \in Nat /\ started[j] \in Gone
        BY <1>1, Typed, JobSystemAssumption DEF Inv, Gone
      <4>2. started[j] < currentJobID /\ currentJobID \in Nat
        BY <1>1, <4>1, Typed DEF Inv, Jobs, HeldByIssuer
      <4> QED
        BY <4>1, <4>2
    <3>2. \A t \in Threads : claimed[t] # id
      <4> SUFFICES ASSUME NEW t \in Threads, claimed[t] = id PROVE FALSE
        OBVIOUS
      <4>1. TakenBy(t, id) /\ id # None
        BY <1>1, <3>1, JobSystemAssumption DEF Inv, Jobs, HeldByIssuer
      <4>2. started[j] < id
        BY <1>1, <2>2, <3>1, <4>1 DEF Inv, Jobs, GoneBeforeClaimed, TakenBy
      <4> QED
        BY <3>1, <4>2
    <3>3. \A t \in Threads : \A i \in DOMAIN jobPool[t] : jobPool[t][i] # id
      <4> SUFFICES ASSUME NEW t \in Threads, NEW i \in DOMAIN jobPool[t], jobPool[t][i] = id
                   PROVE  FALSE
        OBVIOUS
      <4>1. TakenBy(t, id)
        BY <1>1 DEF Inv, Jobs, HeldByIssuer
      <4>2. started[j] < id
        BY <1>1, <2>2, <3>1, <4>1 DEF Inv, Jobs, QueuedInOrder, TakenBy
      <4> QED
        BY <3>1, <4>2
    <3>4. id \in Gone
      BY <1>1, <3>1, <3>2, <3>3 DEF Inv, Jobs, NoneLost
    <3>5. \A w \in Workers : job[w] = id => pc[w] \in {"taken", "run"}
      BY <1>1, <3>4 DEF Inv, TypeOK, Gone
    <3> QED
      BY <1>1, <3>4, <3>5 DEF Inv, Jobs, WithWorkers, Gone, InHand
  <2> QED
    BY <2>1, <2>2 DEF ProducerOrder
<1> QED
  BY <1>1, JobsInvariant, PTL

(* No worker is left when Shutdown has returned.                           *)
THEOREM JobsQuietAfterShutdown == Spec => []QuietAfterShutdown
  BY JobsInvariant, PTL DEF Inv, Control

(* A worker leaves no job behind that it has made.                         *)
THEOREM JobsOfJobsKept == Spec => []JobsOfJobsNotDropped
  BY JobsInvariant, PTL DEF Inv, Control
=============================================================================
