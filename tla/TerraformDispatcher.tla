-------------------------- MODULE TerraformDispatcher --------------------------
(***************************************************************************)
(* bedrock::TerraformDispatcher, the thread pool that terraforms ready     *)
(* regions, heaviest first, while other regions are still being converted. *)
(* One mutex guards its fields and one condition variable is shared by the *)
(* workers and by the thread inside finish(); each critical section is one *)
(* step, and a thread that waits is in "waiting" until a notify_all or a   *)
(* spurious wakeup takes it out.                                           *)
(***************************************************************************)
EXTENDS RegionGrid

CONSTANTS
  Workers,   \* fWorkers
  Owner,     \* the thread that calls finish() and runs the destructor
  Weight     \* fWeight, the number of chunks of each region

ASSUME DispatcherAssumption ==
  /\ Workers # {} /\ IsFiniteSet(Workers)
  /\ Owner \notin Workers
  /\ Weight \in [Regions -> Nat]

VARIABLES
  queue,       \* fQueue; a region is enqueued at most once
  active,      \* fActive
  status,      \* fStatus: {} is Ok, {r} the error of region r
  finished,    \* fConversionsFinished
  stopping,    \* fStopping
  waiting,     \* the threads blocked on fCondition
  pc,          \* where each worker is in run()
  work,        \* the local "work" of each worker: {} or one region
  failed,      \* the local "status" of each worker is an error
  owner,       \* where the owner is
  accepted,    \* history: the regions enqueue() took
  refused,     \* history: the regions enqueue() did not take
  done         \* history: the regions fProcess and fComplete succeeded for

locals == <<pc, work, failed>>
history == <<accepted, refused, done>>
vars == <<queue, active, status, finished, stopping, waiting, pc, work, failed,
          owner, accepted, refused, done>>

Busy == {"process", "complete", "report"}

Init ==
  /\ queue = {}
  /\ active = 0
  /\ status = {}
  /\ finished = FALSE
  /\ stopping = FALSE
  /\ waiting = {}
  /\ pc = [w \in Workers |-> "idle"]
  /\ work = [w \in Workers |-> {}]
  /\ failed = [w \in Workers |-> FALSE]
  /\ owner = "open"
  /\ accepted = {}
  /\ refused = {}
  /\ done = {}

-------------------------------------------------------------------------------
(* Faulty variants of the definitions below, each a bug that a property    *)
(* must catch.                                                             *)
NotifyOne(others) ==
  \E t \in waiting \cup {Owner} : waiting' = (waiting \ {t}) \cup others

NotifyNobody(others) == waiting' = waiting \cup others

Peeked(r) == queue

QueueDropped(failure) == {}

LastError(failure) == failure

QueueEmptyOnly == queue = {}

MayExitFinished == queue = {} /\ finished

(* fCondition.notify_all(), after which the threads in "others" wait.      *)
NotifyAll(others) == waiting' = others

(* WorkLess: is a less urgent than b? *)
WorkLess(a, b) ==
  \/ Weight[a] < Weight[b]
  \/ Weight[a] = Weight[b] /\ Before(b, a)

Top == {r \in queue : \A s \in queue : s = r \/ WorkLess(s, r)}

(* enqueue(): takes all regions, or none after a failure. *)
Enqueue(regions) ==
  /\ IF status = {}
     THEN /\ queue' = queue \cup regions
          /\ accepted' = accepted \cup regions
          /\ NotifyAll({})
          /\ UNCHANGED refused
     ELSE /\ refused' = refused \cup regions
          /\ UNCHANGED <<queue, accepted, waiting>>
  /\ UNCHANGED <<active, status, finished, stopping, locals, owner, done>>

-------------------------------------------------------------------------------
(* The predicate of the worker's wait, and what makes it leave run().      *)
MustWake == stopping \/ queue # {} \/ finished

MayExit == stopping \/ (queue = {} /\ finished)

(* fActive++ and fQueue.pop() *)
Started == active + 1

Popped(r) == queue \ {r}

(* run(): the critical section before a region.                            *)
Wait(w) ==
  /\ pc[w] = "idle" /\ w \notin waiting
  /\ ~MustWake
  /\ waiting' = waiting \cup {w}
  /\ UNCHANGED <<queue, active, status, finished, stopping, locals, owner, history>>

Exit(w) ==
  /\ pc[w] = "idle" /\ w \notin waiting
  /\ MustWake /\ MayExit
  /\ pc' = [pc EXCEPT ![w] = "exited"]
  /\ UNCHANGED <<queue, active, status, finished, stopping, waiting, work, failed,
                 owner, history>>

(* The queue is not empty: pop the top, or clear the queue after an error. *)
Take(w) ==
  /\ pc[w] = "idle" /\ w \notin waiting
  /\ MustWake /\ ~MayExit
  /\ IF status = {}
     THEN \E r \in Top :
            /\ queue' = Popped(r)
            /\ work' = [work EXCEPT ![w] = {r}]
            /\ active' = Started
            /\ pc' = [pc EXCEPT ![w] = "process"]
            /\ UNCHANGED waiting
     ELSE /\ queue' = {}
          /\ IF active = 0 THEN NotifyAll({}) ELSE UNCHANGED waiting
          /\ pc' = [pc EXCEPT ![w] = "exited"]
          /\ UNCHANGED <<work, active>>
  /\ UNCHANGED <<status, finished, stopping, failed, owner, history>>

(* fProcess(region) returns, without the lock. *)
Process(w, ok) ==
  /\ pc[w] = "process"
  /\ failed' = [failed EXCEPT ![w] = ~ok]
  /\ pc' = [pc EXCEPT ![w] = IF ok THEN "complete" ELSE "report"]
  /\ UNCHANGED <<queue, active, status, finished, stopping, waiting, work, owner, history>>

(* fComplete(region) returns, without the lock. *)
Complete(w, ok) ==
  /\ pc[w] = "complete"
  /\ failed' = [failed EXCEPT ![w] = ~ok]
  /\ pc' = [pc EXCEPT ![w] = "report"]
  /\ done' = IF ok THEN done \cup work[w] ELSE done
  /\ UNCHANGED <<queue, active, status, finished, stopping, waiting, work, owner,
                 accepted, refused>>

(* The first error is kept and clears the queue. *)
FirstError(failure) == IF status = {} THEN failure ELSE status

QueueAfter(failure) == IF failure # {} /\ status = {} THEN {} ELSE queue

(* run(): the critical section after a region. *)
Report(w) ==
  LET failure == IF failed[w] THEN work[w] ELSE {}
  IN /\ pc[w] = "report"
     /\ active' = active - 1
     /\ status' = FirstError(failure)
     /\ queue' = QueueAfter(failure)
     /\ NotifyAll({})
     /\ pc' = [pc EXCEPT ![w] = "idle"]
     /\ work' = [work EXCEPT ![w] = {}]
     /\ failed' = [failed EXCEPT ![w] = FALSE]
     /\ UNCHANGED <<finished, stopping, owner, history>>

-------------------------------------------------------------------------------
(* The predicate finish() waits for. *)
Quiet == queue = {} /\ active = 0

BeginFinish ==
  /\ owner = "open"
  /\ finished' = TRUE
  /\ NotifyAll(IF Quiet THEN {} ELSE {Owner})
  /\ owner' = IF Quiet THEN "returned" ELSE "finishing"
  /\ UNCHANGED <<queue, active, status, stopping, locals, history>>

(* The owner evaluates the predicate again after a wakeup. *)
RetryFinish ==
  /\ owner = "finishing" /\ Owner \notin waiting
  /\ IF Quiet
     THEN owner' = "returned" /\ UNCHANGED waiting
     ELSE waiting' = waiting \cup {Owner} /\ UNCHANGED owner
  /\ UNCHANGED <<queue, active, status, finished, stopping, locals, history>>

(* The destructor: it stops the pool, unlocks, notifies and joins.         *)
Stop ==
  /\ owner \in {"open", "returned"}
  /\ stopping' = TRUE
  /\ queue' = {}
  /\ owner' = "stopped"
  /\ UNCHANGED <<active, status, finished, waiting, locals, history>>

NotifyStop ==
  /\ owner = "stopped"
  /\ NotifyAll({})
  /\ owner' = "joining"
  /\ UNCHANGED <<queue, active, status, finished, stopping, locals, history>>

Join ==
  /\ owner = "joining"
  /\ \A w \in Workers : pc[w] = "exited"
  /\ owner' = "gone"
  /\ UNCHANGED <<queue, active, status, finished, stopping, waiting, locals, history>>

(* A condition variable may wake a thread that nobody notified. *)
SpuriousWakeup ==
  /\ \E t \in waiting : waiting' = waiting \ {t}
  /\ UNCHANGED <<queue, active, status, finished, stopping, locals, owner, history>>

WorkerStep(w) ==
  \/ Wait(w)
  \/ Exit(w)
  \/ Take(w)
  \/ \E ok \in BOOLEAN : Process(w, ok) \/ Complete(w, ok)
  \/ Report(w)

(* The conversion threads enqueue regions while the pool is open, each     *)
(* region once, because the scheduler hands it out once.                   *)
ClientEnqueue ==
  /\ owner = "open"
  /\ \E regions \in SUBSET (Regions \ (accepted \cup refused)) : Enqueue(regions)

(* The pool is destroyed: nothing is left to run. *)
Gone == owner = "gone" /\ UNCHANGED vars

OwnerStep == RetryFinish \/ NotifyStop \/ Join

Next ==
  \/ ClientEnqueue
  \/ BeginFinish
  \/ Stop
  \/ OwnerStep
  \/ \E w \in Workers : WorkerStep(w)
  \/ SpuriousWakeup
  \/ Gone

(* Threads that can run do run, and fProcess and fComplete return.  Nobody *)
(* has to enqueue, to call finish() or to destroy the pool, and no thread  *)
(* may count on a spurious wakeup.                                         *)
Fairness ==
  /\ \A w \in Workers : WF_vars(WorkerStep(w))
  /\ WF_vars(OwnerStep)

Spec == Init /\ [][Next]_vars

FairSpec == Spec /\ Fairness

-------------------------------------------------------------------------------
(* One region per busy worker, at most one worker per unit of fActive, and  *)
(* fStopping set exactly from the destructor on.                           *)
TypeOK ==
  /\ accepted \subseteq Regions
  /\ refused \subseteq Regions
  /\ done \subseteq accepted
  /\ queue \subseteq accepted
  /\ work \in [Workers -> SUBSET accepted]
  /\ active \in 0..Cardinality(Workers)
  /\ status \subseteq Regions
  /\ waiting \subseteq Workers \cup {Owner}
  /\ pc \in [Workers -> Busy \cup {"idle", "exited"}]
  /\ failed \in [Workers -> BOOLEAN]
  /\ owner \in {"open", "finishing", "returned", "stopped", "joining", "gone"}
  /\ finished \in BOOLEAN
  /\ stopping \in BOOLEAN
  /\ stopping <=> owner \in {"stopped", "joining", "gone"}

BusyWorkers == {w \in Workers : pc[w] \in Busy}

(* fActive, on which finish() relies, counts the workers that hold a       *)
(* region, each worker one region and no region two workers.               *)
ActiveExact ==
  /\ active = Cardinality(BusyWorkers)
  /\ \A w \in Workers : IF w \in BusyWorkers THEN \E r \in Regions : work[w] = {r}
                                              ELSE work[w] = {}
  /\ \A v, w \in Workers : v # w => work[v] \cap work[w] = {}
  /\ \A w \in Workers : work[w] \cap queue = {}

(* A failure empties the queue for good, whatever was enqueued since the   *)
(* failing region was taken; the branch of run() that clears the queue     *)
(* after an error is therefore never taken.                                *)
ErrorEmptiesQueue == status # {} \/ stopping => queue = {}

(* While nothing failed and nobody stops the pool, every region that       *)
(* enqueue() accepted is queued, in the hands of a worker, or completed; a *)
(* worker reports success only for a region that is completed.             *)
NothingLost ==
  /\ \A w \in Workers : failed[w] => pc[w] = "report"
  /\ \A w \in Workers : pc[w] = "report" /\ ~failed[w] => work[w] \subseteq done
  /\ status = {} /\ ~stopping =>
       /\ refused = {}
       /\ \A r \in accepted : r \in queue \/ r \in done \/ \E w \in Workers : r \in work[w]

(* When finish() has returned no region is queued or in flight, and if it  *)
(* returned Ok every region that was ever offered is completed.            *)
FinishVerdict ==
  owner = "returned" =>
    /\ Quiet
    /\ status = {} => done = accepted /\ refused = {}

(* The first error is final: it is never replaced, and from then on, as    *)
(* from the moment the pool stops, no worker takes another region.         *)
NoWorkAfterError ==
  [][/\ status # {} => status' = status
     /\ status # {} \/ stopping => \A w \in Workers : work'[w] \subseteq work[w]]_vars

(* finish() returns: the worker that brings the pool to rest wakes it.     *)
FinishReturns == owner = "finishing" ~> owner = "returned"

(* The destructor returns: every worker hears of fStopping and exits.      *)
DestructorReturns == owner = "stopped" ~> owner = "gone"

===============================================================================
