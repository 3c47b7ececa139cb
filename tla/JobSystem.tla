------------------------------ MODULE JobSystem ------------------------------
(***************************************************************************)
(* meJobSystem (core/me_job_system.{h,cpp}): worker threads that drain a   *)
(* moodycamel::ConcurrentQueue until Shutdown clears isRunning and joins   *)
(* them.  The main thread calls Initialize, Execute and Shutdown; a        *)
(* running job may call Execute too ("A job should be able to enqueue more *)
(* jobs inside itself").                                                   *)
(*                                                                         *)
(* The queue is external.  It is a FIFO per producing thread, with no      *)
(* order between producers, and try_dequeue returns false only after it    *)
(* has seen every producer's part empty, each at its own moment.           *)
(*                                                                         *)
(* A worker takes a job out of the queue and enters its func in two steps: *)
(* in between another worker may take and enter the next job.              *)
(*                                                                         *)
(* A job is its id.  issuer, started and enteredBy are history, for the    *)
(* properties: who called Execute for each id given out, the ids in the    *)
(* order their func was entered, and by which worker each was.             *)
(***************************************************************************)
EXTENDS Naturals, Sequences, FiniteSets

CONSTANTS
    Main,       \* the thread that owns the job system
    Workers,    \* the numThreads worker threads
    MAX_JOBS,   \* bound: Execute calls
    MAX_INITS,  \* bound: Initialize calls
    None        \* no job

ASSUME JobSystemAssumption ==
    /\ Main \notin Workers
    /\ IsFiniteSet(Workers)
    /\ Workers # {}
    /\ MAX_JOBS \in Nat
    /\ MAX_INITS \in Nat
    /\ None \notin Nat

VARIABLES
    isRunning,    \* meAtomicU32 isRunning
    currentJobID, \* meAtomicU32 currentJobID
    jobPool,      \* the queue, one FIFO per producing thread
    claimed,      \* per thread, an id taken by Execute and not yet enqueued
    pc,           \* per worker: "none", "check", "drain", "taken", "run", "exited"
    job,          \* per worker, the job it has taken or is running
    scanned,      \* per worker, the producers try_dequeue has seen empty
    mainPc,       \* "idle", or "join" inside Shutdown
    inits,        \* number of Initialize calls
    issuer, started, enteredBy

vars == <<isRunning, currentJobID, jobPool, claimed, pc, job, scanned, mainPc,
          inits, issuer, started, enteredBy>>

Threads == Workers \cup {Main}
JobIds  == 0 .. MAX_JOBS - 1

Init ==
    /\ isRunning = 0
    /\ currentJobID = 0
    /\ jobPool = [t \in Threads |-> <<>>]
    /\ claimed = [t \in Threads |-> None]
    /\ pc = [w \in Workers |-> "none"]
    /\ job = [w \in Workers |-> None]
    /\ scanned = [w \in Workers |-> {}]
    /\ mainPc = "idle"
    /\ inits = 0
    /\ issuer = <<>>
    /\ started = <<>>
    /\ enteredBy = <<>>

-----------------------------------------------------------------------------
(* The main thread.                                                        *)

(* Mutant: the threads are spawned before isRunning is stored.             *)
InitializeSpawnsFirst ==
    /\ mainPc = "idle" /\ claimed[Main] = None
    /\ isRunning = 0
    /\ inits < MAX_INITS
    /\ inits' = inits + 1
    /\ isRunning' = 1
    /\ pc' \in [Workers -> {"check", "exited"}]
    /\ UNCHANGED <<currentJobID, jobPool, claimed, job, scanned, mainPc, issuer, started, enteredBy>>

(* Initialize asserts that the system is not running, stores isRunning and *)
(* then spawns the workers.                                                *)
Initialize ==
    /\ mainPc = "idle" /\ claimed[Main] = None
    /\ isRunning = 0
    /\ inits < MAX_INITS
    /\ inits' = inits + 1
    /\ isRunning' = 1
    /\ pc' = [w \in Workers |-> "check"]
    /\ UNCHANGED <<currentJobID, jobPool, claimed, job, scanned, mainPc, issuer, started, enteredBy>>

(* Mutant: Shutdown reads isRunning without storing 0.                     *)
ShutdownOnlyReads ==
    /\ mainPc = "idle" /\ claimed[Main] = None
    /\ mainPc' = IF isRunning = 0 THEN "idle" ELSE "join"
    /\ UNCHANGED <<isRunning, currentJobID, jobPool, claimed, pc, job, scanned,
                   inits, issuer, started, enteredBy>>

(* Shutdown exchanges isRunning with 0; the second caller returns early,   *)
(* as the destructor does after an explicit Shutdown.                      *)
Shutdown ==
    /\ mainPc = "idle" /\ claimed[Main] = None
    /\ isRunning' = 0
    /\ mainPc' = IF isRunning = 0 THEN "idle" ELSE "join"
    /\ UNCHANGED <<currentJobID, jobPool, claimed, pc, job, scanned, inits, issuer, started, enteredBy>>

(* Mutant: the loop over the workers stops one short.                      *)
JoinAllButOne ==
    /\ mainPc = "join"
    /\ \E w \in Workers : \A v \in Workers \ {w} : pc[v] = "exited"
    /\ mainPc' = "idle"
    /\ UNCHANGED <<isRunning, currentJobID, jobPool, claimed, pc, job, scanned,
                   inits, issuer, started, enteredBy>>

(* Shutdown returns when every worker has been joined.                     *)
Join ==
    /\ mainPc = "join"
    /\ \A w \in Workers : pc[w] = "exited"
    /\ mainPc' = "idle"
    /\ pc' = [w \in Workers |-> "none"]
    /\ UNCHANGED <<isRunning, currentJobID, jobPool, claimed, job, scanned,
                   inits, issuer, started, enteredBy>>

-----------------------------------------------------------------------------
(* Execute, on the main thread or inside a job: an atomic add gives the    *)
(* id, and the job is enqueued in a second step.                           *)
MayExecute(t) == IF t = Main THEN mainPc = "idle" ELSE pc[t] = "run"

(* Mutant: the counter is loaded, not added to.                            *)
ClaimIdByLoad(t) ==
    /\ MayExecute(t) /\ claimed[t] = None
    /\ Len(issuer) < MAX_JOBS
    /\ claimed' = [claimed EXCEPT ![t] = currentJobID]
    /\ issuer' = Append(issuer, t)
    /\ UNCHANGED <<isRunning, currentJobID, jobPool, pc, job, scanned, mainPc, inits, started, enteredBy>>

ClaimId(t) ==
    /\ MayExecute(t) /\ claimed[t] = None
    /\ Len(issuer) < MAX_JOBS
    /\ claimed' = [claimed EXCEPT ![t] = currentJobID]
    /\ currentJobID' = currentJobID + 1
    /\ issuer' = Append(issuer, t)
    /\ UNCHANGED <<isRunning, jobPool, pc, job, scanned, mainPc, inits, started, enteredBy>>

(* Mutant: the newest job is put first.                                    *)
EnqueueFirst(t) ==
    /\ claimed[t] # None
    /\ jobPool' = [jobPool EXCEPT ![t] = <<claimed[t]>> \o @]
    /\ claimed' = [claimed EXCEPT ![t] = None]
    /\ UNCHANGED <<isRunning, currentJobID, pc, job, scanned, mainPc, inits, issuer, started, enteredBy>>

Enqueue(t) ==
    /\ claimed[t] # None
    /\ jobPool' = [jobPool EXCEPT ![t] = Append(@, claimed[t])]
    /\ claimed' = [claimed EXCEPT ![t] = None]
    /\ UNCHANGED <<isRunning, currentJobID, pc, job, scanned, mainPc, inits, issuer, started, enteredBy>>

-----------------------------------------------------------------------------
(* A worker.                                                               *)

(* while (isRunning)                                                       *)
Check(w) ==
    /\ pc[w] = "check"
    /\ pc' = [pc EXCEPT ![w] = IF isRunning = 1 THEN "drain" ELSE "exited"]
    /\ UNCHANGED <<isRunning, currentJobID, jobPool, claimed, job, scanned, mainPc,
                   inits, issuer, started, enteredBy>>

(* while (jobPool.try_dequeue(job)), looking at one producer ...           *)
Scan(w, p) ==
    /\ pc[w] = "drain"
    /\ p \notin scanned[w]
    /\ jobPool[p] = <<>>
    /\ scanned' = [scanned EXCEPT ![w] = @ \cup {p}]
    /\ UNCHANGED <<isRunning, currentJobID, jobPool, claimed, pc, job, mainPc,
                   inits, issuer, started, enteredBy>>

(* Mutant: the job is copied and stays in the queue.                       *)
TakeAndLeave(w, p) ==
    /\ pc[w] = "drain"
    /\ jobPool[p] # <<>>
    /\ Len(started) < MAX_JOBS + 1
    /\ job' = [job EXCEPT ![w] = Head(jobPool[p])]
    /\ pc' = [pc EXCEPT ![w] = "taken"]
    /\ scanned' = [scanned EXCEPT ![w] = {}]
    /\ UNCHANGED <<isRunning, currentJobID, jobPool, claimed, mainPc, inits,
                   issuer, started, enteredBy>>

(* ... that has a job: it is moved out of the queue.                       *)
Take(w, p) ==
    /\ pc[w] = "drain"
    /\ jobPool[p] # <<>>
    /\ job' = [job EXCEPT ![w] = Head(jobPool[p])]
    /\ jobPool' = [jobPool EXCEPT ![p] = Tail(@)]
    /\ pc' = [pc EXCEPT ![w] = "taken"]
    /\ scanned' = [scanned EXCEPT ![w] = {}]
    /\ UNCHANGED <<isRunning, currentJobID, claimed, mainPc, inits, issuer, started, enteredBy>>

(* job.func() is called.                                                   *)
Enter(w) ==
    /\ pc[w] = "taken"
    /\ pc' = [pc EXCEPT ![w] = "run"]
    /\ started' = Append(started, job[w])
    /\ enteredBy' = Append(enteredBy, w)
    /\ UNCHANGED <<isRunning, currentJobID, jobPool, claimed, job, scanned, mainPc, inits, issuer>>

(* Mutant: if (try_dequeue) where the code has while.                      *)
FinishOneJob(w) ==
    /\ pc[w] = "run" /\ claimed[w] = None
    /\ job' = [job EXCEPT ![w] = None]
    /\ pc' = [pc EXCEPT ![w] = "check"]
    /\ UNCHANGED <<isRunning, currentJobID, jobPool, claimed, scanned, mainPc,
                   inits, issuer, started, enteredBy>>

(* Mutant: the finished job stays in the worker.                           *)
FinishKeepsJob(w) ==
    /\ pc[w] = "run" /\ claimed[w] = None
    /\ pc' = [pc EXCEPT ![w] = "drain"]
    /\ UNCHANGED <<isRunning, currentJobID, jobPool, claimed, job, scanned, mainPc,
                   inits, issuer, started, enteredBy>>

(* func returns; the inner loop does not look at isRunning.                *)
Finish(w) ==
    /\ pc[w] = "run" /\ claimed[w] = None
    /\ job' = [job EXCEPT ![w] = None]
    /\ pc' = [pc EXCEPT ![w] = "drain"]
    /\ UNCHANGED <<isRunning, currentJobID, jobPool, claimed, scanned, mainPc,
                   inits, issuer, started, enteredBy>>

(* try_dequeue failed: clear the scratch memory, sleep, look again.        *)
Sleep(w) ==
    /\ pc[w] = "drain"
    /\ scanned[w] = Threads
    /\ scanned' = [scanned EXCEPT ![w] = {}]
    /\ pc' = [pc EXCEPT ![w] = "check"]
    /\ UNCHANGED <<isRunning, currentJobID, jobPool, claimed, job, mainPc,
                   inits, issuer, started, enteredBy>>

WorkerStep(w) ==
    \/ Check(w)
    \/ \E p \in Threads : Scan(w, p)
    \/ \E p \in Threads : Take(w, p)
    \/ Enter(w)
    \/ Finish(w)
    \/ Sleep(w)
    \/ Enqueue(w)

Next ==
    \/ Initialize
    \/ Shutdown
    \/ Join
    \/ Enqueue(Main)
    \/ \E t \in Threads : ClaimId(t)
    \/ \E w \in Workers : WorkerStep(w)

Spec == Init /\ [][Next]_vars

(* The OS schedules every worker, and the main thread while it is inside   *)
(* Execute or Shutdown; jobs return.  Nothing makes a caller call.         *)
FairSpec ==
    /\ Spec
    /\ \A w \in Workers : WF_vars(WorkerStep(w))
    /\ WF_vars(Join)
    /\ WF_vars(Enqueue(Main))

-----------------------------------------------------------------------------
TypeOK ==
    /\ isRunning \in {0, 1}
    /\ currentJobID \in 0 .. MAX_JOBS
    /\ jobPool \in [Threads -> Seq(JobIds)]
    /\ claimed \in [Threads -> JobIds \cup {None}]
    /\ pc \in [Workers -> {"none", "check", "drain", "taken", "run", "exited"}]
    /\ job \in [Workers -> JobIds \cup {None}]
    /\ \A w \in Workers : pc[w] \in {"taken", "run"} <=> job[w] # None
    /\ scanned \in [Workers -> SUBSET Threads]
    /\ mainPc \in {"idle", "join"}
    /\ inits \in 0 .. MAX_INITS
    /\ issuer \in Seq(Threads)
    /\ started \in Seq(JobIds)
    /\ enteredBy \in Seq(Workers)
    /\ Len(enteredBy) = Len(started)

(* me_job_system.h:50 "provides unique identifier for every job", however  *)
(* the Execute calls of several threads overlap: no two jobs that are      *)
(* claimed, queued, taken or running have one id.                          *)
IdsUnique ==
    /\ \A t, u \in Threads : claimed[t] = claimed[u] /\ claimed[t] # None => t = u
    /\ \A t, u \in Threads : \A i \in DOMAIN jobPool[t] :
          /\ jobPool[t][i] # claimed[u]
          /\ \A j \in DOMAIN jobPool[u] :
                jobPool[t][i] = jobPool[u][j] => t = u /\ i = j
    /\ \A v, w \in Workers : job[v] = job[w] /\ job[v] # None => v = w

(* A worker has taken the job and not called it yet.                       *)
InHand(id) == \E w \in Workers : pc[w] = "taken" /\ job[w] = id

(* No job is entered twice, by one worker or by two, and none that is      *)
(* queued or in a worker's hand was.                                       *)
RunsAtMostOnce ==
    /\ \A i, j \in DOMAIN started : started[i] = started[j] => i = j
    /\ \A t \in Threads : \A i \in DOMAIN jobPool[t] : \A j \in DOMAIN started :
          jobPool[t][i] # started[j]
    /\ \A j \in DOMAIN started : ~InHand(started[j])

(* What remains of the queue's order once several workers take from it.    *)
(* The jobs of one thread that one worker enters, it enters in the order   *)
(* of the Execute calls: with one worker, as meAssetSystem has             *)
(* (NUM_ASSET_COMPILER_THREADS), that is the order of its load and write   *)
(* jobs.  Between workers a job overtakes only an earlier one of its       *)
(* thread that another worker has in hand, never one still queued.         *)
ProducerOrder ==
    /\ \A i, j \in DOMAIN started :
          /\ i < j
          /\ enteredBy[i] = enteredBy[j]
          /\ issuer[started[i] + 1] = issuer[started[j] + 1]
          => started[i] < started[j]
    /\ \A j \in DOMAIN started : \A id \in 0 .. started[j] - 1 :
          issuer[id + 1] = issuer[started[j] + 1]
          => InHand(id) \/ \E i \in DOMAIN started : started[i] = id

(* Once Shutdown has returned no job is running: what the owner destroys   *)
(* next is not touched by a worker.                                        *)
QuietAfterShutdown ==
    isRunning = 0 /\ mainPc = "idle" => \A w \in Workers : pc[w] = "none"

(* A worker leaves only when the queue of the jobs it made is empty: a job *)
(* made inside a job is never dropped, though Shutdown may begin at any    *)
(* moment.  (Jobs the main thread enqueued may stay behind.)               *)
JobsOfJobsNotDropped ==
    \A w \in Workers : pc[w] \in {"none", "exited"} =>
        jobPool[w] = <<>> /\ claimed[w] = None

(* A job that was enqueued while the system runs is entered, unless a      *)
(* shutdown comes first.                                                   *)
QueuedJobRuns ==
    \A id \in JobIds :
        (isRunning = 1 /\ \E t \in Threads : \E i \in DOMAIN jobPool[t] : jobPool[t][i] = id)
            ~> (isRunning = 0 \/ \E i \in DOMAIN started : started[i] = id)

(* Shutdown returns.                                                       *)
ShutdownReturns == mainPc = "join" ~> mainPc = "idle"
=============================================================================
