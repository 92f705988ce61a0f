------------------------------- MODULE Parallel -------------------------------
(***************************************************************************)
(* Parallel::Reduce, Parallel::Map and Parallel::Process: a fork and join  *)
(* over a vector of works.  The workers, one of which is the caller, share *)
(* an atomic index, a cancel flag, a latch and, under a mutex, the first   *)
(* error and the total.  Atomic operations, critical sections and calls of *)
(* func are one step each.                                                 *)
(*                                                                         *)
(* The value being reduced is the set of works whose results it contains.  *)
(* Process is a Reduce of integers nobody looks at.                        *)
(***************************************************************************)
EXTENDS Integers, FiniteSets

CONSTANTS
  N,             \* works.size()
  Concurrency    \* the argument, which may be 0

ASSUME ParallelAssumption == N \in Nat /\ Concurrency \in Nat

Larger(a, b) == IF a < b THEN b ELSE a
Smaller(a, b) == IF a < b THEN a ELSE b

WorkerCount == Smaller(Larger(1, Concurrency), Larger(1, N))

Works == 0..N-1
Workers == 0..WorkerCount-1
Main == 0   \* the calling thread, which runs the action too

VARIABLES
  kind,        \* which function was called
  nextIndex,   \* atomic_size_t
  cancel,      \* atomic_bool
  status,      \* {} is Ok, {i} the error of work i
  total,       \* Reduce: the joined sums; Map: the slots of "out" written
  latch,
  pc,          \* where each worker is in the action
  index,       \* the local "index" of each worker
  sum,         \* the local "sum" of each worker
  ran,         \* history: the works func was called for
  bad          \* history: the works func failed for

vars == <<kind, nextIndex, cancel, status, total, latch, pc, index, sum, ran, bad>>

Init ==
  /\ kind \in {"Reduce", "Map"}
  /\ nextIndex = 0
  /\ cancel = FALSE
  /\ status = {}
  /\ total = {}
  /\ latch = WorkerCount
  /\ pc = [w \in Workers |-> "check"]
  /\ index = [w \in Workers |-> 0]
  /\ sum = [w \in Workers |-> {}]
  /\ ran = {}
  /\ bad = {}

Go(w, from, to) ==
  /\ pc[w] = from
  /\ pc' = [pc EXCEPT ![w] = to]

-------------------------------------------------------------------------------
(* Faulty variants of the definitions below, each a bug that a property    *)
(* must catch.                                                             *)
FetchOnly == nextIndex

LeaveWithoutMerge == "arrive"

ErrorDropped(i) == status

KeepLatch == IF cancel THEN latch ELSE latch - 1

(* while (!cancel) *)
Stops == cancel

AfterLoop == IF kind = "Reduce" THEN "merge" ELSE "arrive"

Check(w) ==
  /\ Go(w, "check", IF Stops THEN AfterLoop ELSE "claim")
  /\ UNCHANGED <<kind, nextIndex, cancel, status, total, latch, index, sum, ran, bad>>

(* nextIndex.fetch_add(1) and the comparison with works.size() *)
Incremented == nextIndex + 1

InRange(i) == i < N

Claim(w) ==
  /\ Go(w, "claim", IF InRange(nextIndex) THEN "call" ELSE AfterLoop)
  /\ index' = [index EXCEPT ![w] = nextIndex]
  /\ nextIndex' = Incremented
  /\ UNCHANGED <<kind, cancel, status, total, latch, sum, ran, bad>>

(* func(works[index]); its result is joined, or stored, before its status  *)
(* is looked at.                                                           *)
Call(w, ok) ==
  /\ Go(w, "call", IF ok THEN "check" ELSE "fail")
  /\ IF kind = "Reduce"
     THEN sum' = [sum EXCEPT ![w] = @ \cup {index[w]}] /\ UNCHANGED total
     ELSE total' = total \cup {index[w]} /\ UNCHANGED sum
  /\ ran' = ran \cup {index[w]}
  /\ bad' = IF ok THEN bad ELSE bad \cup {index[w]}
  /\ UNCHANGED <<kind, nextIndex, cancel, status, latch, index>>

(* The critical section of a failure: the first error is kept. *)
FirstErrorOf(i) == IF status = {} THEN {i} ELSE status

Fail(w) ==
  /\ Go(w, "fail", AfterLoop)
  /\ status' = FirstErrorOf(index[w])
  /\ cancel' = TRUE
  /\ UNCHANGED <<kind, nextIndex, total, latch, index, sum, ran, bad>>

(* The critical section join(sum, total) of Reduce. *)
Merge(w) ==
  /\ Go(w, "merge", "arrive")
  /\ total' = total \cup sum[w]
  /\ UNCHANGED <<kind, nextIndex, cancel, status, latch, index, sum, ran, bad>>

CountedDown == latch - 1

(* latch.count_down(); a thread then ends, the caller waits. *)
Arrive(w) ==
  /\ Go(w, "arrive", IF w = Main THEN "await" ELSE "ended")
  /\ latch' = CountedDown
  /\ UNCHANGED <<kind, nextIndex, cancel, status, total, index, sum, ran, bad>>

Await ==
  /\ Go(Main, "await", "join")
  /\ latch = 0
  /\ UNCHANGED <<kind, nextIndex, cancel, status, total, latch, index, sum, ran, bad>>

JoinThreads ==
  /\ Go(Main, "join", "returned")
  /\ \A w \in Workers \ {Main} : pc[w] = "ended"
  /\ UNCHANGED <<kind, nextIndex, cancel, status, total, latch, index, sum, ran, bad>>

(* The call has returned. *)
Returned == pc[Main] = "returned"

Finished == Returned /\ UNCHANGED vars

WorkerStep(w) ==
  \/ Check(w)
  \/ Claim(w)
  \/ \E ok \in BOOLEAN : Call(w, ok)
  \/ Fail(w)
  \/ Merge(w)
  \/ Arrive(w)

Next ==
  \/ \E w \in Workers : WorkerStep(w)
  \/ Await
  \/ JoinThreads
  \/ Finished

Spec == Init /\ [][Next]_vars

(* Threads that can run do run, and func returns. *)
FairSpec ==
  /\ Spec
  /\ \A w \in Workers : WF_vars(WorkerStep(w))
  /\ WF_vars(Await \/ JoinThreads)

-------------------------------------------------------------------------------
Places == {"check", "claim", "call", "fail", "merge", "arrive", "await", "join",
           "ended", "returned"}

(* Shared and local variables of the loop; the status names a work that    *)
(* really failed and only results of works that ran are joined.            *)
TypeOK ==
  /\ kind \in {"Reduce", "Map"}
  /\ nextIndex \in Nat
  /\ cancel \in BOOLEAN
  /\ status \in {{}} \cup {{i} : i \in bad}
  /\ total \subseteq ran
  /\ latch \in Int
  /\ pc \in [Workers -> Places]
  /\ index \in [Workers -> Nat]
  /\ sum \in [Workers -> SUBSET ran]
  /\ ran \subseteq Works
  /\ bad \subseteq ran

(* A work is in at most one place: not yet claimed, in the hands of one    *)
(* worker, or in one sum; no result is joined into the total twice.        *)
EachWorkOnce ==
  /\ \A i \in ran : i < nextIndex
  /\ \A w \in Workers : pc[w] = "call" => index[w] \in Works \ ran /\ index[w] < nextIndex
  /\ \A v, w \in Workers : v # w =>
       /\ sum[v] \cap sum[w] = {}
       /\ pc[v] = "call" /\ pc[w] = "call" => index[v] # index[w]
  /\ kind = "Reduce" =>
       \A w \in Workers : pc[w] \in {"check", "claim", "call", "fail", "merge"} =>
         total \cap sum[w] = {}

InLoop == {"check", "claim", "call", "fail", "merge"}
Left == {"merge", "arrive", "await", "join", "ended", "returned"}

(* No result is dropped and no error is forgotten, on any way out of the   *)
(* loop: a claimed work is run, a result stays in the sum of a worker that *)
(* has yet to merge until it is in the total, a worker leaves the loop     *)
(* only when nothing is left or an error is on record, and when the call   *)
(* returns all other threads have ended.                                   *)
ResultsAccounted ==
  /\ \A i \in Works : i < nextIndex =>
       i \in ran \/ \E w \in Workers : pc[w] = "call" /\ index[w] = i
  /\ \A w \in Workers :
       /\ pc[w] = "fail" => index[w] \in bad
       /\ pc[w] = "merge" => kind = "Reduce"
       /\ pc[w] \in Left => status # {} \/ N <= nextIndex
       /\ pc[w] \in {"await", "join", "returned"} => w = Main
       /\ pc[w] = "ended" => w # Main
       /\ Returned /\ w # Main => pc[w] = "ended"
  /\ bad # {} => status # {} \/ \E w \in Workers : pc[w] = "fail"
  /\ cancel => status # {}
  /\ kind = "Map" => total = ran
  /\ kind = "Reduce" =>
       \A i \in ran : i \in total \/ \E w \in Workers : i \in sum[w] /\ pc[w] \in InLoop

(* The call implements its contract: it returns the join of exactly the    *)
(* works that ran, and either all of them ran or an error is reported.     *)
Contract ==
  INSTANCE ParallelContract WITH
    answer <- IF Returned THEN {[total |-> total, status |-> status]} ELSE {}

ContractSpec == Contract!Spec

(* Every call returns, whatever fails: the latch reaches zero and every    *)
(* thread ends.                                                            *)
CallReturns == <>Returned

===============================================================================
