----------------------- MODULE TerraformDispatcherProofs -----------------------
(***************************************************************************)
(* Proofs about TerraformDispatcher for any number of workers and regions. *)
(*                                                                         *)
(* FinishVerdict is not inductive: that a quiet pool has completed every   *)
(* accepted region needs NothingLost, which needs ErrorEmptiesQueue for    *)
(* the regions enqueued around a failure, and that fActive = 0 means that  *)
(* no worker holds a region is ActiveExact.                                *)
(***************************************************************************)
EXTENDS TerraformDispatcher, FiniteSetTheorems, TLAPS

IInv == TypeOK /\ ActiveExact /\ ErrorEmptiesQueue /\ NothingLost /\ FinishVerdict

(* Any set of workers is finite and no larger than the pool. *)
LEMMA WorkerCount ==
  ASSUME NEW S \in SUBSET Workers
  PROVE  /\ IsFiniteSet(S)
         /\ Cardinality(S) \in 0..Cardinality(Workers)
         /\ Cardinality(S) = 0 <=> S = {}
BY DispatcherAssumption, FS_Subset, FS_CardinalityType, FS_EmptySet

LEMMA InitIInv == Init => IInv
<1> SUFFICES ASSUME Init PROVE IInv
  OBVIOUS
<1>1. BusyWorkers = {}
  BY DEF Init, BusyWorkers, Busy
<1>2. Cardinality(BusyWorkers) = 0 /\ 0 \in 0..Cardinality(Workers)
  BY <1>1, WorkerCount
<1>3. TypeOK
  <2>1. pc \in [Workers -> Busy \cup {"idle", "exited"}]
    BY DEF Init
  <2>2. work \in [Workers -> SUBSET accepted] /\ failed \in [Workers -> BOOLEAN]
    BY DEF Init
  <2>3. QED
    BY <1>2, <2>1, <2>2 DEF Init, TypeOK
<1>4. ActiveExact
  BY <1>1, <1>2 DEF Init, ActiveExact
<1>5. QED
  BY <1>3, <1>4 DEF Init, IInv, ErrorEmptiesQueue, NothingLost, FinishVerdict

(* Steps that change neither the workers nor what they hold. *)
LEMMA SameBusy ==
  ASSUME UNCHANGED pc
  PROVE  BusyWorkers' = BusyWorkers
BY DEF BusyWorkers

LEMMA EnqueueIInv ==
  ASSUME IInv, ClientEnqueue
  PROVE  IInv'
<1> USE DEF IInv
<1>1. PICK regions \in SUBSET (Regions \ (accepted \cup refused)) : Enqueue(regions)
  BY DEF ClientEnqueue
<1>2. owner = "open" /\ ~stopping
  BY DEF ClientEnqueue, TypeOK
<1>3. TypeOK'
  BY <1>1, <1>2 DEF Enqueue, NotifyAll, TypeOK, locals
<1>4. ActiveExact'
  <2>1. BusyWorkers' = BusyWorkers
    BY <1>1, SameBusy DEF Enqueue, locals
  <2>2. \A w \in Workers : work[w] \subseteq accepted
    BY DEF TypeOK
  <2>3. \A w \in Workers : work[w] \cap queue' = {}
    BY <1>1, <2>2 DEF Enqueue, ActiveExact
  <2>4. QED
    BY <1>1, <2>1, <2>3 DEF Enqueue, locals, ActiveExact
<1>5. ErrorEmptiesQueue'
  BY <1>1, <1>2 DEF Enqueue, ErrorEmptiesQueue
<1>6. NothingLost'
  BY <1>1 DEF Enqueue, locals, NothingLost
<1>7. FinishVerdict'
  BY <1>1, <1>2 DEF Enqueue, FinishVerdict
<1>8. QED
  BY <1>3, <1>4, <1>5, <1>6, <1>7

-------------------------------------------------------------------------------
(* What a worker does when nothing but its place in run() changes.         *)
LEMMA WaitIInv ==
  ASSUME IInv, NEW w \in Workers, Wait(w)
  PROVE  IInv'
<1>1. TypeOK'
  BY DEF IInv, Wait, TypeOK, locals, history
<1>2. BusyWorkers' = BusyWorkers
  BY SameBusy DEF Wait, locals
<1>3. QED
  BY <1>1, <1>2 DEF IInv, Wait, locals, history, ActiveExact, ErrorEmptiesQueue,
                    NothingLost, FinishVerdict, Quiet

LEMMA ExitIInv ==
  ASSUME IInv, NEW w \in Workers, Exit(w)
  PROVE  IInv'
<1>1. pc \in [Workers -> Busy \cup {"idle", "exited"}] /\ pc[w] = "idle"
  BY DEF IInv, TypeOK, Exit
<1>2. pc' \in [Workers -> Busy \cup {"idle", "exited"}] /\ BusyWorkers' = BusyWorkers
  BY <1>1 DEF Exit, BusyWorkers, Busy
<1>3. TypeOK'
  BY <1>2 DEF IInv, Exit, TypeOK, history
<1>4. ActiveExact'
  BY <1>2 DEF IInv, Exit, ActiveExact, history
<1>5. NothingLost'
  BY <1>1 DEF IInv, Exit, NothingLost, history
<1>6. QED
  BY <1>3, <1>4, <1>5 DEF IInv, Exit, history, ErrorEmptiesQueue, FinishVerdict, Quiet

(* A worker takes a region: the error branch is impossible here.           *)
LEMMA TakeIInv ==
  ASSUME IInv, NEW w \in Workers, Take(w)
  PROVE  IInv'
<1> USE DEF IInv
<1>1. /\ pc[w] = "idle" /\ queue # {} /\ status = {} /\ ~stopping
      /\ UNCHANGED <<status, finished, stopping, failed, owner, history>>
  BY DEF Take, MustWake, MayExit, ErrorEmptiesQueue
<1>2. PICK r \in Top : /\ queue' = queue \ {r}
                       /\ work' = [work EXCEPT ![w] = {r}]
                       /\ active' = active + 1
                       /\ pc' = [pc EXCEPT ![w] = "process"]
                       /\ UNCHANGED waiting
  BY <1>1 DEF Take, Popped, Started
<1>3. r \in queue /\ r \in accepted /\ r \in Regions
  BY DEF Top, TypeOK
<1>4. w \notin BusyWorkers /\ BusyWorkers' = BusyWorkers \cup {w} /\ work[w] = {}
  BY <1>1, <1>2 DEF BusyWorkers, Busy, TypeOK, ActiveExact
<1>5. active' = Cardinality(BusyWorkers') /\ active' \in 0..Cardinality(Workers)
  <2>1. Cardinality(BusyWorkers \cup {w}) = Cardinality(BusyWorkers) + 1
    BY <1>4, WorkerCount, FS_AddElement DEF BusyWorkers
  <2>2. Cardinality(BusyWorkers') \in 0..Cardinality(Workers)
    BY WorkerCount DEF BusyWorkers
  <2>3. QED
    BY <1>2, <1>4, <2>1, <2>2 DEF ActiveExact
<1>6. TypeOK'
  <2>1. pc' \in [Workers -> Busy \cup {"idle", "exited"}]
    BY <1>2 DEF TypeOK, Busy
  <2>2. work' \in [Workers -> SUBSET accepted']
    BY <1>1, <1>2, <1>3 DEF TypeOK, history
  <2>3. QED
    BY <1>1, <1>2, <1>5, <2>1, <2>2 DEF TypeOK, history
<1>7. ActiveExact'
  <2>1. \A v \in Workers : work'[v] = IF v = w THEN {r} ELSE work[v]
    BY <1>2 DEF TypeOK
  <2>2. \A v \in Workers : IF v \in BusyWorkers' THEN \E s \in Regions : work'[v] = {s}
                                                 ELSE work'[v] = {}
    BY <1>3, <1>4, <2>1 DEF ActiveExact
  <2>3. \A v \in Workers : r \notin work[v]
    BY <1>3 DEF ActiveExact
  <2>4. \A u, v \in Workers : u # v => work'[u] \cap work'[v] = {}
    BY <2>1, <2>3 DEF ActiveExact
  <2>5. \A v \in Workers : work'[v] \cap queue' = {}
    BY <1>2, <2>1 DEF ActiveExact
  <2>6. QED
    BY <1>5, <2>2, <2>4, <2>5 DEF ActiveExact
<1>8. NothingLost'
  <2>1. \A v \in Workers : work[v] \subseteq work'[v]
    BY <1>2, <1>4 DEF TypeOK
  <2>2. r \in work'[w]
    BY <1>2 DEF TypeOK
  <2>3. \A s \in accepted' : s \in queue' \/ s \in done' \/ \E v \in Workers : s \in work'[v]
    BY <1>1, <1>2, <2>1, <2>2 DEF NothingLost, history
  <2>4. \A v \in Workers : failed'[v] => pc'[v] = "report"
    BY <1>1, <1>2 DEF NothingLost, TypeOK
  <2>5. \A v \in Workers : pc'[v] = "report" /\ ~failed'[v] => work'[v] \subseteq done'
    BY <1>1, <1>2 DEF NothingLost, TypeOK, history
  <2>6. QED
    BY <1>1, <2>3, <2>4, <2>5 DEF NothingLost, history
<1>9. ErrorEmptiesQueue'
  BY <1>1 DEF ErrorEmptiesQueue
<1>10. FinishVerdict'
  BY <1>1 DEF FinishVerdict, Quiet
<1>11. QED
  BY <1>6, <1>7, <1>8, <1>9, <1>10

-------------------------------------------------------------------------------
(* Moving a busy worker to another busy place changes no count. *)
LEMMA StayBusy ==
  ASSUME TypeOK, NEW w \in Workers, pc[w] \in Busy, NEW place \in Busy,
         pc' = [pc EXCEPT ![w] = place]
  PROVE  /\ BusyWorkers' = BusyWorkers
         /\ pc' \in [Workers -> Busy \cup {"idle", "exited"}]
<1>1. pc \in [Workers -> Busy \cup {"idle", "exited"}]
  BY DEF TypeOK
<1>2. QED
  BY <1>1 DEF BusyWorkers

LEMMA ProcessIInv ==
  ASSUME IInv, NEW w \in Workers, NEW ok \in BOOLEAN, Process(w, ok)
  PROVE  IInv'
<1> USE DEF IInv
<1>1. /\ pc[w] = "process"
      /\ failed' = [failed EXCEPT ![w] = ~ok]
      /\ pc' = [pc EXCEPT ![w] = IF ok THEN "complete" ELSE "report"]
      /\ UNCHANGED <<queue, active, status, finished, stopping, waiting, work, owner, history>>
  BY DEF Process
<1>2. BusyWorkers' = BusyWorkers /\ pc' \in [Workers -> Busy \cup {"idle", "exited"}]
  BY <1>1, StayBusy DEF Busy
<1>3. failed \in [Workers -> BOOLEAN] /\ failed' \in [Workers -> BOOLEAN]
  BY <1>1 DEF TypeOK
<1>4. TypeOK'
  BY <1>1, <1>2, <1>3 DEF TypeOK, history
<1>5. ActiveExact'
  BY <1>1, <1>2 DEF ActiveExact, history
<1>6. NothingLost'
  <2>1. pc \in [Workers -> Busy \cup {"idle", "exited"}]
    BY DEF TypeOK
  <2>2. \A v \in Workers : failed'[v] => pc'[v] = "report"
    BY <1>1, <1>3, <2>1 DEF NothingLost
  <2>3. \A v \in Workers : pc'[v] = "report" /\ ~failed'[v] => work'[v] \subseteq done'
    BY <1>1, <1>3, <2>1 DEF NothingLost, history
  <2>4. QED
    BY <1>1, <2>2, <2>3 DEF NothingLost, history
<1>7. QED
  BY <1>1, <1>4, <1>5, <1>6 DEF history, ErrorEmptiesQueue, FinishVerdict, Quiet

LEMMA CompleteIInv ==
  ASSUME IInv, NEW w \in Workers, NEW ok \in BOOLEAN, Complete(w, ok)
  PROVE  IInv'
<1> USE DEF IInv
<1>1. /\ pc[w] = "complete"
      /\ failed' = [failed EXCEPT ![w] = ~ok]
      /\ pc' = [pc EXCEPT ![w] = "report"]
      /\ done' = IF ok THEN done \cup work[w] ELSE done
      /\ UNCHANGED <<queue, active, status, finished, stopping, waiting, work, owner,
                     accepted, refused>>
  BY DEF Complete
<1>2. BusyWorkers' = BusyWorkers /\ pc' \in [Workers -> Busy \cup {"idle", "exited"}]
  BY <1>1, StayBusy DEF Busy
<1>3. failed \in [Workers -> BOOLEAN] /\ failed' \in [Workers -> BOOLEAN]
  BY <1>1 DEF TypeOK
<1>4. done \subseteq done' /\ done' \subseteq accepted /\ (ok => work[w] \subseteq done')
  BY <1>1 DEF TypeOK
<1>5. TypeOK'
  BY <1>1, <1>2, <1>3, <1>4 DEF TypeOK
<1>6. ActiveExact'
  BY <1>1, <1>2 DEF ActiveExact
<1>7. NothingLost'
  <2>1. pc \in [Workers -> Busy \cup {"idle", "exited"}]
    BY DEF TypeOK
  <2>2. \A v \in Workers : failed'[v] => pc'[v] = "report"
    BY <1>1, <1>3, <2>1 DEF NothingLost
  <2>3. \A v \in Workers : pc'[v] = "report" /\ ~failed'[v] => work'[v] \subseteq done'
    BY <1>1, <1>3, <1>4, <2>1 DEF NothingLost
  <2>4. QED
    BY <1>1, <1>4, <2>2, <2>3 DEF NothingLost
<1>8. FinishVerdict'
  <2>1. w \in BusyWorkers
    BY <1>1 DEF BusyWorkers, Busy
  <2>2. active # 0
    BY <2>1, WorkerCount DEF ActiveExact, BusyWorkers
  <2>3. QED
    BY <1>1, <2>2 DEF FinishVerdict, Quiet
<1>9. QED
  BY <1>1, <1>5, <1>6, <1>7, <1>8 DEF ErrorEmptiesQueue

LEMMA ReportIInv ==
  ASSUME IInv, NEW w \in Workers, Report(w)
  PROVE  IInv'
<1> DEFINE failure == IF failed[w] THEN work[w] ELSE {}
<1> USE DEF IInv
<1>1. /\ pc[w] = "report"
      /\ active' = active - 1
      /\ status' = FirstError(failure)
      /\ queue' = QueueAfter(failure)
      /\ waiting' = {}
      /\ pc' = [pc EXCEPT ![w] = "idle"]
      /\ work' = [work EXCEPT ![w] = {}]
      /\ failed' = [failed EXCEPT ![w] = FALSE]
      /\ UNCHANGED <<finished, stopping, owner, history>>
  BY DEF Report, NotifyAll
<1>2. w \in BusyWorkers /\ BusyWorkers' = BusyWorkers \ {w}
  BY <1>1 DEF BusyWorkers, Busy, TypeOK
<1>3. PICK r \in Regions : work[w] = {r}
  BY <1>2 DEF ActiveExact
<1>4. /\ active' = Cardinality(BusyWorkers') /\ active' \in 0..Cardinality(Workers)
      /\ active # 0
  <2>1. Cardinality(BusyWorkers \ {w}) = Cardinality(BusyWorkers) - 1
    BY <1>2, WorkerCount, FS_RemoveElement DEF BusyWorkers
  <2>2. Cardinality(BusyWorkers') \in 0..Cardinality(Workers)
    BY WorkerCount DEF BusyWorkers
  <2>3. Cardinality(BusyWorkers) \in Nat /\ Cardinality(BusyWorkers) # 0
    BY <1>2, WorkerCount DEF BusyWorkers
  <2>4. QED
    BY <1>1, <1>2, <2>1, <2>2, <2>3 DEF ActiveExact
<1>5. queue' \subseteq queue /\ status' \subseteq Regions
  BY <1>1, <1>3 DEF QueueAfter, FirstError, TypeOK
<1>6. \A v \in Workers : /\ work'[v] = IF v = w THEN {} ELSE work[v]
                         /\ pc'[v] = IF v = w THEN "idle" ELSE pc[v]
                         /\ failed'[v] = IF v = w THEN FALSE ELSE failed[v]
  BY <1>1 DEF TypeOK
<1>7. TypeOK'
  <2>1. pc' \in [Workers -> Busy \cup {"idle", "exited"}]
    BY <1>1 DEF TypeOK
  <2>2. work' \in [Workers -> SUBSET accepted'] /\ failed' \in [Workers -> BOOLEAN]
    BY <1>1 DEF TypeOK, history
  <2>3. QED
    BY <1>1, <1>4, <1>5, <2>1, <2>2 DEF TypeOK, history
<1>8. ActiveExact'
  BY <1>2, <1>4, <1>5, <1>6 DEF ActiveExact
<1>9. ErrorEmptiesQueue'
  BY <1>1, <1>5 DEF ErrorEmptiesQueue, FirstError, QueueAfter
<1>10. NothingLost'
  <2>1. \A v \in Workers : failed'[v] => pc'[v] = "report"
    BY <1>6 DEF NothingLost
  <2>2. ASSUME NEW v \in Workers, pc'[v] = "report", ~failed'[v]
        PROVE  work'[v] \subseteq done'
    <3>1. v # w /\ pc[v] = "report" /\ ~failed[v] /\ work'[v] = work[v]
      BY <1>6, <2>2
    <3>2. work[v] \subseteq done /\ done' = done
      BY <1>1, <3>1 DEF NothingLost, history
    <3>3. QED
      BY <3>1, <3>2
  <2>3. status' = {} => status = {} /\ ~failed[w] /\ queue' = queue
    BY <1>1, <1>3 DEF FirstError, QueueAfter
  <2>4. ~failed[w] => work[w] \subseteq done
    BY <1>1 DEF NothingLost
  <2>5. status' = {} /\ ~stopping' =>
          \A s \in accepted' : s \in queue' \/ s \in done' \/ \E v \in Workers : s \in work'[v]
    BY <1>1, <1>6, <2>3, <2>4 DEF NothingLost, history
  <2>6. status' = {} /\ ~stopping' => refused' = {}
    BY <1>1, <2>3 DEF NothingLost, history
  <2>7. QED
    BY <2>1, <2>2, <2>5, <2>6 DEF NothingLost
<1>11. FinishVerdict'
  BY <1>1, <1>4 DEF FinishVerdict, Quiet
<1>12. QED
  BY <1>7, <1>8, <1>9, <1>10, <1>11

-------------------------------------------------------------------------------
(* The owner's steps change no worker. *)
LEMMA BeginFinishIInv ==
  ASSUME IInv, BeginFinish
  PROVE  IInv'
<1> USE DEF IInv
<1>1. /\ owner = "open" /\ finished' = TRUE
      /\ waiting' = IF Quiet THEN {} ELSE {Owner}
      /\ owner' = IF Quiet THEN "returned" ELSE "finishing"
      /\ UNCHANGED <<queue, active, status, stopping, locals, history>>
  BY DEF BeginFinish, NotifyAll
<1>2. BusyWorkers' = BusyWorkers
  BY <1>1, SameBusy DEF locals
<1>3. TypeOK'
  BY <1>1 DEF TypeOK, locals, history
<1>4. ActiveExact' /\ ErrorEmptiesQueue' /\ NothingLost'
  BY <1>1, <1>2 DEF ActiveExact, ErrorEmptiesQueue, NothingLost, locals, history
<1>5. FinishVerdict'
  <2>1. owner' = "returned" => Quiet /\ queue = {} /\ BusyWorkers = {}
    BY <1>1, WorkerCount DEF Quiet, ActiveExact, BusyWorkers
  <2>2. BusyWorkers = {} => \A w \in Workers : work[w] = {}
    BY DEF ActiveExact
  <2>3. ~stopping
    BY <1>1 DEF TypeOK
  <2>4. QED
    BY <1>1, <2>1, <2>2, <2>3 DEF FinishVerdict, NothingLost, TypeOK, Quiet, history
<1>6. QED
  BY <1>3, <1>4, <1>5

LEMMA RetryFinishIInv ==
  ASSUME IInv, RetryFinish
  PROVE  IInv'
<1> USE DEF IInv
<1>1. /\ owner = "finishing" /\ owner' \in {"finishing", "returned"}
      /\ owner' = "returned" => Quiet
      /\ waiting' \subseteq waiting \cup {Owner}
      /\ UNCHANGED <<queue, active, status, finished, stopping, locals, history>>
  BY DEF RetryFinish
<1>2. BusyWorkers' = BusyWorkers
  BY <1>1, SameBusy DEF locals
<1>3. TypeOK'
  BY <1>1 DEF TypeOK, locals, history
<1>4. ActiveExact' /\ ErrorEmptiesQueue' /\ NothingLost'
  BY <1>1, <1>2 DEF ActiveExact, ErrorEmptiesQueue, NothingLost, locals, history
<1>5. FinishVerdict'
  <2>1. owner' = "returned" => Quiet /\ queue = {} /\ BusyWorkers = {}
    BY <1>1, WorkerCount DEF Quiet, ActiveExact, BusyWorkers
  <2>2. BusyWorkers = {} => \A w \in Workers : work[w] = {}
    BY DEF ActiveExact
  <2>3. ~stopping
    BY <1>1 DEF TypeOK
  <2>4. QED
    BY <1>1, <2>1, <2>2, <2>3 DEF FinishVerdict, NothingLost, TypeOK, Quiet, history
<1>6. QED
  BY <1>3, <1>4, <1>5

LEMMA StopIInv ==
  ASSUME IInv, Stop
  PROVE  IInv'
<1> USE DEF IInv, Stop
<1>1. BusyWorkers' = BusyWorkers
  BY SameBusy DEF locals
<1>2. TypeOK'
  BY DEF TypeOK, locals, history
<1>3. ActiveExact'
  BY <1>1 DEF ActiveExact, locals
<1>4. NothingLost'
  BY DEF NothingLost, locals, history
<1>5. QED
  BY <1>2, <1>3, <1>4 DEF ErrorEmptiesQueue, FinishVerdict

(* Steps that only wake threads up or move the owner on after fStopping.   *)
LEMMA QuietStepIInv ==
  ASSUME IInv,
         UNCHANGED <<queue, active, status, finished, stopping, locals, history>>,
         waiting' \subseteq waiting,
         \/ owner' = owner
         \/ owner \in {"stopped", "joining"} /\ owner' \in {"joining", "gone"}
  PROVE  IInv'
<1> USE DEF IInv
<1>1. BusyWorkers' = BusyWorkers
  BY SameBusy DEF locals
<1>2. TypeOK'
  BY DEF TypeOK, locals, history
<1>3. ActiveExact' /\ ErrorEmptiesQueue' /\ NothingLost'
  BY <1>1 DEF ActiveExact, ErrorEmptiesQueue, NothingLost, locals, history
<1>4. FinishVerdict'
  BY DEF FinishVerdict, Quiet, history
<1>5. QED
  BY <1>2, <1>3, <1>4

LEMMA StepIInv == IInv /\ [Next]_vars => IInv'
<1> SUFFICES ASSUME IInv, [Next]_vars PROVE IInv'
  OBVIOUS
<1>1. CASE ClientEnqueue
  BY <1>1, EnqueueIInv
<1>2. CASE BeginFinish
  BY <1>2, BeginFinishIInv
<1>3. CASE Stop
  BY <1>3, StopIInv
<1>4. CASE RetryFinish
  BY <1>4, RetryFinishIInv
<1>5. CASE NotifyStop
  BY <1>5, QuietStepIInv DEF NotifyStop, NotifyAll
<1>6. CASE Join
  BY <1>6, QuietStepIInv DEF Join
<1>7. ASSUME NEW w \in Workers, WorkerStep(w) PROVE IInv'
  BY <1>7, WaitIInv, ExitIInv, TakeIInv, ProcessIInv, CompleteIInv, ReportIInv DEF WorkerStep
<1>8. CASE SpuriousWakeup
  BY <1>8, QuietStepIInv DEF SpuriousWakeup
<1>9. CASE Gone \/ UNCHANGED vars
  BY <1>9, QuietStepIInv DEF Gone, vars, locals, history
<1>10. QED
  BY <1>1, <1>2, <1>3, <1>4, <1>5, <1>6, <1>7, <1>8, <1>9 DEF Next, OwnerStep

(* The inductive invariant holds in every reachable state. *)
LEMMA Invariance == Spec => []IInv
BY InitIInv, StepIInv, PTL DEF Spec

(* The fields of a pool of any size have their types. *)
THEOREM TypeCorrect == Spec => []TypeOK
<1>1. IInv => TypeOK
  BY DEF IInv
<1>2. QED
  BY <1>1, Invariance, PTL

(* fActive is the number of workers that hold a region.                    *)
THEOREM ActiveCorrect == Spec => []ActiveExact
<1>1. IInv => ActiveExact
  BY DEF IInv
<1>2. QED
  BY <1>1, Invariance, PTL

(* After an error the queue stays empty: the clearing branch is dead code. *)
THEOREM DeadBranch == Spec => []ErrorEmptiesQueue
<1>1. IInv => ErrorEmptiesQueue
  BY DEF IInv
<1>2. QED
  BY <1>1, Invariance, PTL

(* An accepted region is never forgotten while the pool is healthy.        *)
THEOREM NothingLostCorrect == Spec => []NothingLost
<1>1. IInv => NothingLost
  BY DEF IInv
<1>2. QED
  BY <1>1, Invariance, PTL

(* When finish() returns Ok, all regions ever offered are completed.       *)
THEOREM FinishCorrect == Spec => []FinishVerdict
<1>1. IInv => FinishVerdict
  BY DEF IInv
<1>2. QED
  BY <1>1, Invariance, PTL

(* The first error stays, and no worker takes a region after it.           *)
THEOREM NoWorkAfterErrorCorrect == Spec => NoWorkAfterError
<1> DEFINE A == /\ status # {} => status' = status
                /\ status # {} \/ stopping =>
                     \A w \in Workers : work'[w] \subseteq work[w]
<1>1. IInv /\ [Next]_vars => [A]_vars
  <2> SUFFICES ASSUME IInv, Next PROVE A
    OBVIOUS
  <2> USE DEF IInv
  <2>1. work \in [Workers -> SUBSET accepted]
    BY DEF TypeOK
  <2>2. ASSUME NEW w \in Workers, WorkerStep(w) PROVE A
    <3>1. CASE Wait(w) \/ Exit(w) \/ \E ok \in BOOLEAN : Process(w, ok) \/ Complete(w, ok)
      BY <3>1 DEF Wait, Exit, Process, Complete, locals
    <3>2. CASE Take(w)
      BY <3>2 DEF Take, MustWake, MayExit, ErrorEmptiesQueue
    <3>3. CASE Report(w)
      BY <2>1, <3>3 DEF Report, FirstError
    <3>4. QED
      BY <2>2, <3>1, <3>2, <3>3 DEF WorkerStep
  <2>3. ASSUME UNCHANGED <<status, work>> PROVE A
    BY <2>3
  <2>4. CASE ~\E w \in Workers : WorkerStep(w)
    <3>1. UNCHANGED <<status, work>>
      BY <2>4 DEF Next, OwnerStep, ClientEnqueue, Enqueue, BeginFinish, Stop, RetryFinish,
                  NotifyStop, Join, SpuriousWakeup, Gone, vars, locals
    <3>2. QED
      BY <2>3, <3>1
  <2>5. QED
    BY <2>2, <2>4
<1>2. QED
  BY <1>1, Invariance, PTL DEF Spec, NoWorkAfterError

===============================================================================
