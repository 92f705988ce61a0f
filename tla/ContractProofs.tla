---------------------------- MODULE ContractProofs ----------------------------
(***************************************************************************)
(* Proofs about the two components that the compositions see only through  *)
(* their abstract specifications: Parallel, for every number of works and  *)
(* every concurrency, and TerraformRegionScheduler, for every finite set   *)
(* of regions.  Init, Next, Spec and TypeOK are those of Parallel.         *)
(*                                                                         *)
(* The invariant of Parallel is TypeOK with EachWorkOnce and               *)
(* ResultsAccounted: who holds a work, and where its result is until it    *)
(* reaches the total.                                                      *)
(*                                                                         *)
(* The invariant of the scheduler says what each counter counts.  It       *)
(* implies that the nullopt returns inside the loops are unreachable:      *)
(* while a region is unconverted it is itself one of the dependencies of   *)
(* each neighbour, so none of their counters is zero and none of them is   *)
(* scheduled.                                                              *)
(***************************************************************************)
EXTENDS Parallel, TerraformRegionScheduler, FiniteSetTheorems, TLAPS

-------------------------------------------------------------------------------
(* Parallel.                                                               *)

IInv == TypeOK /\ EachWorkOnce /\ ResultsAccounted

(* There is always the calling thread: the counts of _parallel.hpp never   *)
(* give a latch of zero.                                                   *)
LEMMA MainWorks == WorkerCount \in Nat \ {0} /\ Main \in Workers
BY ParallelAssumption DEF WorkerCount, Smaller, Larger, Main, Workers

LEMMA InitInvariant == Init => IInv
<1> SUFFICES ASSUME Init PROVE IInv
  OBVIOUS
<1> USE DEF Init
<1>1. TypeOK
  <2>1. sum \in [Workers -> SUBSET ran]
    OBVIOUS
  <2>2. ran \subseteq Works /\ bad \subseteq ran /\ total \subseteq ran
    OBVIOUS
  <2>3. status \in {{}} \cup {{i} : i \in bad}
    OBVIOUS
  <2>4. pc \in [Workers -> Places] /\ index \in [Workers -> Nat]
    BY DEF Places
  <2>5. kind \in {"Reduce", "Map"} /\ nextIndex \in Nat /\ cancel \in BOOLEAN
    OBVIOUS
  <2>6. latch \in Int
    BY MainWorks
  <2> QED
    BY ONLY <2>1, <2>2, <2>3, <2>4, <2>5, <2>6 DEF TypeOK
<1>2. EachWorkOnce
  BY DEF EachWorkOnce
<1>3. ResultsAccounted
  BY MainWorks DEF ResultsAccounted, Left, Returned, Works
<1> QED
  BY <1>1, <1>2, <1>3 DEF IInv

LEMMA TypeStep == IInv /\ [Next]_vars => TypeOK'
<1> SUFFICES ASSUME IInv, [Next]_vars PROVE TypeOK'
  OBVIOUS
<1> USE MainWorks DEF IInv, TypeOK, Places
<1>1. ASSUME NEW w \in Workers, Check(w) PROVE TypeOK'
  BY <1>1 DEF Check, Go, AfterLoop
<1>2. ASSUME NEW w \in Workers, Claim(w) PROVE TypeOK'
  BY <1>2 DEF Claim, Go, AfterLoop, Incremented
<1>3. ASSUME NEW w \in Workers, NEW ok \in BOOLEAN, Call(w, ok) PROVE TypeOK'
  <2>1. index[w] \in Works
    BY <1>3 DEF Call, Go, EachWorkOnce
  <2>2. ran' \subseteq Works /\ bad' \subseteq ran' /\ total' \subseteq ran'
    BY <1>3, <2>1 DEF Call
  <2>3. sum' \in [Workers -> SUBSET ran']
    BY <1>3, <2>1 DEF Call
  <2>4. status' \in {{}} \cup {{i} : i \in bad'}
    BY <1>3 DEF Call
  <2>5. pc' \in [Workers -> Places]
    BY <1>3 DEF Call, Go
  <2> QED
    BY <1>3, <2>2, <2>3, <2>4, <2>5 DEF Call
<1>4. ASSUME NEW w \in Workers, Fail(w) PROVE TypeOK'
  <2>1. index[w] \in bad
    BY <1>4 DEF Fail, Go, ResultsAccounted
  <2> QED
    BY <1>4, <2>1 DEF Fail, Go, FirstErrorOf, AfterLoop
<1>5. ASSUME NEW w \in Workers, Merge(w) PROVE TypeOK'
  BY <1>5 DEF Merge, Go
<1>6. ASSUME NEW w \in Workers, Arrive(w) PROVE TypeOK'
  BY <1>6 DEF Arrive, Go, CountedDown
<1>7. CASE Await
  BY <1>7 DEF Await, Go
<1>8. CASE JoinThreads
  BY <1>8 DEF JoinThreads, Go
<1>9. CASE UNCHANGED vars
  BY <1>9 DEF vars
<1> QED
  BY <1>1, <1>2, <1>3, <1>4, <1>5, <1>6, <1>7, <1>8, <1>9
     DEF Next, WorkerStep, Finished

LEMMA OnceStep == IInv /\ [Next]_vars => EachWorkOnce'
<1> SUFFICES ASSUME IInv, [Next]_vars PROVE EachWorkOnce'
  OBVIOUS
<1> USE MainWorks DEF IInv, TypeOK, EachWorkOnce
<1>1. ASSUME NEW w \in Workers, Check(w) PROVE EachWorkOnce'
  BY <1>1 DEF Check, Go, AfterLoop
<1>2. ASSUME NEW w \in Workers, Claim(w) PROVE EachWorkOnce'
  <2>1. /\ nextIndex' = nextIndex + 1
        /\ index' = [index EXCEPT ![w] = nextIndex]
        /\ UNCHANGED <<kind, total, sum, ran>>
        /\ \A v \in Workers \ {w} : pc'[v] = pc[v] /\ index'[v] = index[v]
    BY <1>2 DEF Claim, Go, Incremented
  <2>2. pc'[w] = "call" => nextIndex \in Works \ ran /\ index'[w] = nextIndex
    <3>1. nextIndex \notin ran /\ index'[w] = nextIndex
      BY <2>1
    <3>2. pc'[w] = "call" => nextIndex < N
      BY <1>2 DEF Claim, Go, InRange, AfterLoop
    <3> QED
      BY <3>1, <3>2, ParallelAssumption DEF Works
  <2>3. pc[w] = "claim"
    BY <1>2 DEF Claim, Go
  <2>4. \A i \in ran' : i < nextIndex'
    BY <2>1, ParallelAssumption DEF Works
  <2>5. \A v \in Workers : pc'[v] = "call" => index'[v] \in Works \ ran' /\ index'[v] < nextIndex'
    BY <2>1, <2>2
  <2>6. \A u, v \in Workers : u # v =>
          /\ sum'[u] \cap sum'[v] = {}
          /\ pc'[u] = "call" /\ pc'[v] = "call" => index'[u] # index'[v]
    BY <2>1, <2>2
  <2>7. kind' = "Reduce" =>
          \A v \in Workers : pc'[v] \in {"check", "claim", "call", "fail", "merge"} =>
            total' \cap sum'[v] = {}
    BY <2>1, <2>3
  <2> QED
    BY ONLY <2>4, <2>5, <2>6, <2>7 DEF EachWorkOnce
<1>3. ASSUME NEW w \in Workers, NEW ok \in BOOLEAN, Call(w, ok) PROVE EachWorkOnce'
  <2>1. /\ pc[w] = "call" /\ pc'[w] # "call"
        /\ index[w] \in Works \ ran /\ index[w] < nextIndex
        /\ \A v \in Workers \ {w} : pc'[v] = pc[v] /\ sum'[v] = sum[v]
        /\ ran' = ran \cup {index[w]}
        /\ UNCHANGED <<kind, nextIndex, index>>
    BY <1>3 DEF Call, Go
  <2>2. /\ sum'[w] = sum[w] \/ sum'[w] = sum[w] \cup {index[w]}
        /\ kind = "Reduce" => total' = total
    BY <1>3 DEF Call
  <2>3. \A v \in Workers : sum[v] \subseteq ran
    OBVIOUS
  <2>4. \A v, u \in Workers : v # u => sum'[v] \cap sum'[u] = {}
    BY <2>1, <2>2, <2>3
  <2>5. \A v \in Workers : pc'[v] = "call" => index'[v] \in Works \ ran' /\ index'[v] < nextIndex'
    BY <2>1
  <2>6. kind' = "Reduce" =>
          \A v \in Workers : pc'[v] \in {"check", "claim", "call", "fail", "merge"} =>
            total' \cap sum'[v] = {}
    BY <2>1, <2>2, <2>3
  <2> QED
    BY <2>1, <2>4, <2>5, <2>6
<1>4. ASSUME NEW w \in Workers, Fail(w) PROVE EachWorkOnce'
  BY <1>4 DEF Fail, Go, AfterLoop
<1>5. ASSUME NEW w \in Workers, Merge(w) PROVE EachWorkOnce'
  BY <1>5 DEF Merge, Go
<1>6. ASSUME NEW w \in Workers, Arrive(w) PROVE EachWorkOnce'
  BY <1>6 DEF Arrive, Go
<1>7. CASE Await
  BY <1>7 DEF Await, Go
<1>8. CASE JoinThreads
  BY <1>8 DEF JoinThreads, Go
<1>9. CASE UNCHANGED vars
  BY <1>9 DEF vars
<1> QED
  BY <1>1, <1>2, <1>3, <1>4, <1>5, <1>6, <1>7, <1>8, <1>9
     DEF Next, WorkerStep, Finished

LEMMA AccountStep == IInv /\ [Next]_vars => ResultsAccounted'
<1> SUFFICES ASSUME IInv, [Next]_vars PROVE ResultsAccounted'
  OBVIOUS
<1> USE MainWorks DEF IInv, TypeOK, ResultsAccounted, Left, InLoop, Returned
<1>1. ASSUME NEW w \in Workers, Check(w) PROVE ResultsAccounted'
  BY <1>1 DEF Check, Go, AfterLoop, Stops
<1>2. ASSUME NEW w \in Workers, Claim(w) PROVE ResultsAccounted'
  <2>1. /\ nextIndex' = nextIndex + 1
        /\ index' = [index EXCEPT ![w] = nextIndex]
        /\ UNCHANGED <<kind, cancel, status, total, sum, ran, bad>>
        /\ pc[w] = "claim"
        /\ pc' = [pc EXCEPT ![w] = IF nextIndex < N THEN "call" ELSE AfterLoop]
    BY <1>2 DEF Claim, Go, Incremented, InRange
  <2>2. \A i \in Works : i < nextIndex' =>
          i \in ran' \/ \E v \in Workers : pc'[v] = "call" /\ index'[v] = i
    <3> SUFFICES ASSUME NEW i \in Works, i < nextIndex'
                 PROVE i \in ran' \/ \E v \in Workers : pc'[v] = "call" /\ index'[v] = i
      OBVIOUS
    <3>1. CASE i < nextIndex
      BY <2>1, <3>1
    <3>2. CASE i = nextIndex
      BY <2>1, <3>2, ParallelAssumption DEF Works
    <3> QED
      BY <2>1, <3>1, <3>2, ParallelAssumption DEF Works
  <2>3. nextIndex >= N \/ pc'[w] = "call"
    BY <2>1, ParallelAssumption
  <2>4. pc'[w] \in {"call", "merge", "arrive"} /\ (pc'[w] = "merge" => kind = "Reduce")
        /\ (kind = "Reduce" => pc'[w] \in {"call", "merge"})
    BY <2>1 DEF AfterLoop
  <2>5. \A v \in Workers \ {w} : pc'[v] = pc[v] /\ index'[v] = index[v]
    BY <2>1
  <2>6. \A v \in Workers : pc'[v] \in Left => status' # {} \/ N <= nextIndex'
    BY <2>1, <2>3, <2>4, <2>5, ParallelAssumption
  <2> QED
    BY <2>1, <2>2, <2>4, <2>5, <2>6
<1>3. ASSUME NEW w \in Workers, NEW ok \in BOOLEAN, Call(w, ok) PROVE ResultsAccounted'
  <2>1. /\ pc[w] = "call" /\ pc'[w] = IF ok THEN "check" ELSE "fail"
        /\ \A v \in Workers \ {w} : pc'[v] = pc[v] /\ sum'[v] = sum[v]
        /\ ran' = ran \cup {index[w]}
        /\ bad' = IF ok THEN bad ELSE bad \cup {index[w]}
        /\ UNCHANGED <<kind, nextIndex, cancel, status, index>>
    BY <1>3 DEF Call, Go
  <2>2. /\ kind = "Reduce" => sum'[w] = sum[w] \cup {index[w]} /\ total' = total
        /\ kind = "Map" => sum' = sum /\ total' = total \cup {index[w]}
    BY <1>3 DEF Call
  <2>3. kind' = "Reduce" =>
          \A i \in ran' : i \in total' \/ \E v \in Workers : i \in sum'[v] /\ pc'[v] \in InLoop
    BY <2>1, <2>2
  <2>4. \A i \in Works : i < nextIndex' =>
          i \in ran' \/ \E v \in Workers : pc'[v] = "call" /\ index'[v] = i
    BY <2>1
  <2>5. bad' # {} => status' # {} \/ \E v \in Workers : pc'[v] = "fail"
    BY <2>1
  <2> QED
    BY <2>1, <2>2, <2>3, <2>4, <2>5
<1>4. ASSUME NEW w \in Workers, Fail(w) PROVE ResultsAccounted'
  BY <1>4 DEF Fail, Go, AfterLoop, FirstErrorOf
<1>5. ASSUME NEW w \in Workers, Merge(w) PROVE ResultsAccounted'
  BY <1>5 DEF Merge, Go
<1>6. ASSUME NEW w \in Workers, Arrive(w) PROVE ResultsAccounted'
  BY <1>6 DEF Arrive, Go
<1>7. CASE Await
  BY <1>7 DEF Await, Go
<1>8. CASE JoinThreads
  BY <1>8 DEF JoinThreads, Go
<1>9. CASE UNCHANGED vars
  BY <1>9 DEF vars
<1> QED
  BY <1>1, <1>2, <1>3, <1>4, <1>5, <1>6, <1>7, <1>8, <1>9
     DEF Next, WorkerStep, Finished

(* The inductive invariant holds in every reachable state. *)
THEOREM InvariantHolds == Spec => []IInv
<1>1. IInv /\ [Next]_vars => IInv'
  BY TypeStep, OnceStep, AccountStep DEF IInv
<1> QED
  BY <1>1, InitInvariant, PTL DEF Spec

(* The values every variable can take, whatever is called and fails. *)
THEOREM TypeCorrect == Spec => []TypeOK
BY InvariantHolds, PTL DEF IInv

(* No work is run twice and no result joined twice. *)
THEOREM EachWorkOnceCorrect == Spec => []EachWorkOnce
BY InvariantHolds, PTL DEF IInv

(* No result is dropped, no error forgotten, no thread left behind. *)
THEOREM ResultsAccountedCorrect == Spec => []ResultsAccounted
BY InvariantHolds, PTL DEF IInv

-------------------------------------------------------------------------------
LEMMA ContractInit == Init => Contract!Init
BY MainWorks DEF Init, Returned, Contract!Init

LEMMA ContractStep == IInv /\ [Next]_vars => [Contract!Next]_(Contract!vars)
<1> SUFFICES ASSUME IInv, [Next]_vars PROVE [Contract!Next]_(Contract!vars)
  OBVIOUS
<1> USE MainWorks DEF IInv, TypeOK
<1>1. ASSUME NEW w \in Workers, pc[w] \in InLoop \cup {"arrive"},
             NEW to \in Places \ {"returned"}, pc' = [pc EXCEPT ![w] = to]
      PROVE ~Returned /\ ~Returned'
  BY <1>1 DEF Returned, InLoop, ResultsAccounted, Places
<1>2. ASSUME NEW w \in Workers, Check(w) \/ Claim(w) \/ Fail(w) \/ Merge(w) \/ Arrive(w)
      PROVE UNCHANGED Contract!vars
  <2>1. UNCHANGED <<ran, bad>>
    BY <1>2 DEF Check, Claim, Fail, Merge, Arrive
  <2>2. /\ pc[w] \in InLoop \cup {"arrive"}
        /\ \E to \in Places \ {"returned"} : pc' = [pc EXCEPT ![w] = to]
    BY <1>2 DEF Check, Claim, Fail, Merge, Arrive, Go, AfterLoop, InLoop, Places
  <2>3. ~Returned /\ ~Returned'
    BY <2>2, <1>1
  <2> QED
    BY <2>1, <2>3 DEF Contract!vars
<1>3. ASSUME NEW w \in Workers, NEW ok \in BOOLEAN, Call(w, ok) PROVE Contract!Next
  <2>1. index[w] \in Works \ ran
    BY <1>3 DEF Call, Go, EachWorkOnce
  <2>2. ~Returned /\ ~Returned'
    BY <1>3, <1>1 DEF Call, Go, InLoop, Places
  <2>3. ran' = ran \cup {index[w]} /\ bad' \in {bad, bad \cup {index[w]}}
    BY <1>3 DEF Call
  <2>4. Contract!Run(index[w])
    BY <2>1, <2>2, <2>3 DEF Contract!Run, Contract!Works, Works
  <2> QED
    BY <2>1, <2>4 DEF Contract!Next, Contract!Works, Works
<1>4. CASE Await
  BY <1>4 DEF Await, Go, Returned, Contract!vars, Places
<1>5. CASE JoinThreads
  <2>1. /\ ~Returned /\ Returned'
        /\ \A w \in Workers : pc[w] \in {"join", "ended"}
        /\ UNCHANGED <<ran, bad, total, status>>
    BY <1>5 DEF JoinThreads, Go, Returned
  <2>2. total = ran
    BY <2>1 DEF ResultsAccounted, InLoop
  <2>3. status = {} => ran = Works /\ bad = {}
    <3> SUFFICES ASSUME status = {} PROVE ran = Works /\ bad = {}
      OBVIOUS
    <3>1. bad = {}
      BY <2>1 DEF ResultsAccounted
    <3>2. N <= nextIndex
      BY <2>1 DEF ResultsAccounted, Left
    <3>3. \A i \in Works : i < nextIndex
      BY <3>2, ParallelAssumption DEF Works
    <3>4. \A i \in Works : i \in ran
      BY <3>3, <2>1 DEF ResultsAccounted
    <3> QED
      BY <3>1, <3>4
  <2>4. Contract!Return
    BY <2>1, <2>2, <2>3 DEF Contract!Return, Contract!Works, Works
  <2> QED
    BY <2>4 DEF Contract!Next
<1>6. CASE UNCHANGED vars
  BY <1>6 DEF vars, Returned, Contract!vars
<1> QED
  BY <1>2, <1>3, <1>4, <1>5, <1>6 DEF Next, WorkerStep, Finished

(* Every behaviour of the workers, the latch and the mutex is a behaviour  *)
(* of the contract: the caller gets the join of exactly the works that     *)
(* ran, all of them unless an error is returned.                           *)
THEOREM ParallelImplementsContract == Spec => ContractSpec
<1>1. []IInv /\ Init /\ [][Next]_vars => Contract!Spec
  BY ContractInit, ContractStep, PTL DEF Contract!Spec
<1> QED
  BY <1>1, InvariantHolds, PTL DEF Spec, ContractSpec

-------------------------------------------------------------------------------
(* TerraformRegionScheduler.                                               *)

(* Neighbourhood is symmetric, so the regions that r reads are the regions *)
(* that read r: the two loops of the constructor count the same sets.      *)
LEMMA HoodSymmetric ==
  ASSUME NEW r \in Regions, NEW t \in Regions
  PROVE  t \in Hood(r) <=> r \in Hood(t)
<1>1. r.fX \in Int /\ r.fZ \in Int /\ t.fX \in Int /\ t.fZ \in Int
  BY RegionsAssumption
<1>2. QED
  BY <1>1 DEF Hood, Adjacent

(* A region is in its own neighbourhood. *)
LEMMA HoodReflexive ==
  ASSUME NEW r \in Regions
  PROVE  r \in Hood(r)
<1>1. r.fX \in Int /\ r.fZ \in Int
  BY RegionsAssumption
<1>2. QED
  BY <1>1 DEF Hood, Adjacent

(* A neighbourhood has at most nine regions, which uint8_t can count. *)
LEMMA HoodBound ==
  ASSUME NEW r \in Regions
  PROVE  /\ IsFiniteSet(Hood(r))
         /\ Cardinality(Hood(r)) \in 0..9
<1> DEFINE Slot(s) == 3 * (s.fZ - r.fZ + 1) + (s.fX - r.fX + 1)
           slot == [s \in Hood(r) |-> Slot(s)]
<1>1. \A s \in Regions : s.fX \in Int /\ s.fZ \in Int /\ s = [fX |-> s.fX, fZ |-> s.fZ]
  BY RegionsAssumption
<1>2. \A s \in Hood(r) : Slot(s) \in 0..8
  BY <1>1 DEF Hood, Adjacent
<1>3. \A s, u \in Hood(r) : Slot(s) = Slot(u) => s.fX = u.fX /\ s.fZ = u.fZ
  <2>1. \A a, b, c, d \in Int : /\ a \in -1..1 /\ b \in -1..1 /\ c \in -1..1 /\ d \in -1..1
                                /\ 3 * (a + 1) + (b + 1) = 3 * (c + 1) + (d + 1)
                                => a = c /\ b = d
    OBVIOUS
  <2>2. SUFFICES ASSUME NEW s \in Hood(r), NEW u \in Hood(r), Slot(s) = Slot(u)
                 PROVE  s.fX = u.fX /\ s.fZ = u.fZ
    OBVIOUS
  <2>3. /\ r.fX \in Int /\ r.fZ \in Int /\ s.fX \in Int
        /\ s.fZ \in Int /\ u.fX \in Int /\ u.fZ \in Int
    BY <1>1 DEF Hood
  <2>4. /\ s.fX - r.fX \in -1..1 /\ s.fZ - r.fZ \in -1..1
        /\ u.fX - r.fX \in -1..1 /\ u.fZ - r.fZ \in -1..1
    BY <2>3 DEF Hood, Adjacent
  <2>5. s.fZ - r.fZ = u.fZ - r.fZ /\ s.fX - r.fX = u.fX - r.fX
    BY <2>1, <2>2, <2>4
  <2>6. QED
    BY <2>3, <2>5
<1>4. \A s, u \in Hood(r) : Slot(s) = Slot(u) => s = u
  BY <1>1, <1>3 DEF Hood
<1>5. slot \in Injection(Hood(r), 0..8)
  BY <1>2, <1>4 DEF Injection, IsInjective
<1>6. IsFiniteSet(0..8) /\ Cardinality(0..8) = 9
  <2>1. 0 \in Int /\ 8 \in Int /\ ~(0 > 8) /\ 8 - 0 + 1 = 9
    OBVIOUS
  <2>2. IsFiniteSet(0..8) /\ Cardinality(0..8) = IF 0 > 8 THEN 0 ELSE 8 - 0 + 1
    BY <2>1, FS_Interval, Zenon
  <2>3. QED
    BY <2>1, <2>2
<1>7. IsFiniteSet(Hood(r)) /\ Cardinality(Hood(r)) <= 9
  BY <1>5, <1>6, FS_Injection
<1>8. QED
  BY <1>7, FS_CardinalityType

-------------------------------------------------------------------------------
Pending(flag, r) == {s \in Hood(r) : ~flag[s]}

(* Raising one flag takes one region out of the pending set of exactly the *)
(* neighbours of that region.                                              *)
LEMMA RaiseFlag ==
  ASSUME NEW flag \in [Regions -> BOOLEAN], NEW r \in Regions, ~flag[r], NEW t \in Regions
  PROVE  LET raised == [flag EXCEPT ![r] = TRUE]
         IN /\ Cardinality(Pending(raised, t)) \in Nat
            /\ t \in Hood(r) =>
                 /\ Cardinality(Pending(flag, t)) \in 1..9
                 /\ Cardinality(Pending(raised, t)) = Cardinality(Pending(flag, t)) - 1
            /\ t \notin Hood(r) =>
                 Cardinality(Pending(raised, t)) = Cardinality(Pending(flag, t))
<1> DEFINE raised == [flag EXCEPT ![r] = TRUE]
<1>1. /\ IsFiniteSet(Hood(t)) /\ Cardinality(Hood(t)) \in 0..9
      /\ Hood(t) \subseteq Regions
  BY HoodBound DEF Hood
<1>2. /\ IsFiniteSet(Pending(flag, t))
      /\ Cardinality(Pending(flag, t)) \in Nat
      /\ Cardinality(Pending(flag, t)) <= Cardinality(Hood(t))
  <2>1. Pending(flag, t) \in SUBSET Hood(t)
    BY DEF Pending
  <2>2. QED
    BY <1>1, <2>1, FS_Subset, FS_CardinalityType
<1>3. IsFiniteSet(Pending(raised, t)) /\ Cardinality(Pending(raised, t)) \in Nat
  <2>1. Pending(raised, t) \in SUBSET Hood(t)
    BY DEF Pending
  <2>2. QED
    BY <1>1, <2>1, FS_Subset, FS_CardinalityType
<1>4. CASE t \in Hood(r)
  <2>1. r \in Hood(t)
    BY <1>4, HoodSymmetric
  <2>2. r \in Pending(flag, t)
    BY <2>1 DEF Pending
  <2>3. Pending(raised, t) = Pending(flag, t) \ {r}
    BY <1>1 DEF Pending
  <2>4. Cardinality(Pending(raised, t)) = Cardinality(Pending(flag, t)) - 1
    BY <1>2, <2>2, <2>3, FS_RemoveElement
  <2>5. QED
    BY <1>1, <1>2, <1>3, <1>4, <2>4
<1>5. CASE t \notin Hood(r)
  <2>1. r \notin Hood(t)
    BY <1>5, HoodSymmetric
  <2>2. Pending(raised, t) = Pending(flag, t)
    BY <1>1, <2>1 DEF Pending
  <2>3. QED
    BY <1>3, <1>5, <2>2
<1>6. QED
  BY <1>4, <1>5

(* A pending set is empty exactly when all flags of the neighbourhood are  *)
(* up.                                                                     *)
LEMMA PendingEmpty ==
  ASSUME NEW flag, NEW t \in Regions
  PROVE  /\ Cardinality(Pending(flag, t)) \in 0..9
         /\ Cardinality(Pending(flag, t)) = 0 <=> \A s \in Hood(t) : flag[s]
<1>1. IsFiniteSet(Hood(t)) /\ Cardinality(Hood(t)) \in 0..9
  BY HoodBound
<1>2. Pending(flag, t) \in SUBSET Hood(t)
  BY DEF Pending
<1>3. IsFiniteSet(Pending(flag, t)) /\ Cardinality(Pending(flag, t)) \in 0..9
  BY <1>1, <1>2, FS_Subset, FS_CardinalityType
<1>4. Cardinality(Pending(flag, t)) = 0 <=> Pending(flag, t) = {}
  BY <1>3, FS_EmptySet
<1>5. QED
  BY <1>3, <1>4 DEF Pending

-------------------------------------------------------------------------------
(* The completed regions of a finite dimension are counted one by one.     *)
LEMMA CompletedCount ==
  ASSUME NEW flag \in [Regions -> BOOLEAN]
  PROVE  LET done == {r \in Regions : flag[r]}
         IN /\ Cardinality(done) \in 0..Cardinality(Regions)
            /\ Cardinality(done) = Cardinality(Regions) <=> \A r \in Regions : flag[r]
            /\ \A r \in Regions : ~flag[r] =>
                 Cardinality({s \in Regions : [flag EXCEPT ![r] = TRUE][s]})
                   = Cardinality(done) + 1
<1> DEFINE done == {r \in Regions : flag[r]}
<1>1. IsFiniteSet(Regions) /\ Cardinality(Regions) \in Nat
  BY RegionsAssumption, FS_CardinalityType
<1>2. done \in SUBSET Regions
  OBVIOUS
<1>3. /\ IsFiniteSet(done) /\ Cardinality(done) \in Nat
      /\ Cardinality(done) <= Cardinality(Regions)
      /\ Cardinality(done) = Cardinality(Regions) => done = Regions
  BY <1>1, <1>2, FS_Subset, FS_CardinalityType
<1>4. ASSUME NEW r \in Regions, ~flag[r]
      PROVE  Cardinality({s \in Regions : [flag EXCEPT ![r] = TRUE][s]}) = Cardinality(done) + 1
  <2>1. {s \in Regions : [flag EXCEPT ![r] = TRUE][s]} = done \cup {r}
    OBVIOUS
  <2>2. r \notin done
    BY <1>4
  <2>3. Cardinality(done \cup {r}) = Cardinality(done) + 1
    BY <1>3, <2>2, FS_AddElement
  <2>4. QED
    BY <2>1, <2>3
<1>5. done = Regions <=> \A r \in Regions : flag[r]
  OBVIOUS
<1>6. QED
  BY <1>1, <1>3, <1>4, <1>5

(* What is inductive; the rest of AllCompletedExact follows from it.       *)
CompletionExact ==
  /\ completedCount = Cardinality({r \in Regions : completed[r]})
  /\ \A r \in Regions : completed[r] => scheduled[r]

SchedulerInv == SchedulerTypeOK /\ CountersExact /\ CompletionExact

LEMMA AllCompletedFollows == SchedulerInv => AllCompletedExact
<1> SUFFICES ASSUME SchedulerInv PROVE AllCompletedExact
  OBVIOUS
<1> USE DEF SchedulerInv
<1>1. AllCompleted <=> \A r \in Regions : completed[r]
  BY CompletedCount DEF AllCompleted, SchedulerTypeOK, CompletionExact
<1>2. ASSUME AllCompleted, NEW r \in Regions
      PROVE  dependencies[r] = 0 /\ consumers[r] = 0
  <2>1. \A s \in Hood(r) : s \in Regions /\ completed[s] /\ converted[s]
    BY <1>1, <1>2, HoodReflexive DEF Hood, CountersExact, CompletionExact
  <2>2. /\ Cardinality(Pending(converted, r)) = 0
        /\ Cardinality(Pending(completed, r)) = 0
    BY <2>1, PendingEmpty
  <2>3. QED
    BY <2>2 DEF CountersExact, Pending
<1>3. QED
  BY <1>1, <1>2 DEF AllCompletedExact, CompletionExact

(* A region that may be converted is unconverted, hence a pending          *)
(* dependency of all its neighbours: the loop of markConverted runs to its *)
(* end.  The same holds for markCompleted and the consumers.               *)
LEMMA LoopsRunToTheEnd ==
  ASSUME SchedulerInv, NEW r \in Regions
  PROVE  /\ ~converted[r] => ConversionStops(r) = {}
         /\ ~completed[r] => CompletionStops(r) = {}
         /\ Reached(r, {}) = Hood(r)
         /\ FirstOf({}) = {}
<1>1. ASSUME ~converted[r], NEW t \in Hood(r)
      PROVE  dependencies[t] # 0 /\ ~scheduled[t]
  <2>1. t \in Regions /\ r \in Hood(t)
    BY <1>1, HoodSymmetric DEF Hood
  <2>2. ~\A s \in Hood(t) : converted[s]
    BY <1>1, <2>1
  <2>3. Cardinality(Pending(converted, t)) # 0
    BY <2>1, <2>2, PendingEmpty
  <2>4. QED
    BY <2>1, <2>2, <2>3 DEF SchedulerInv, CountersExact, Pending
<1>2. ASSUME ~completed[r], NEW t \in Hood(r)
      PROVE  consumers[t] # 0
  <2>1. t \in Regions /\ r \in Hood(t)
    BY <1>2, HoodSymmetric DEF Hood
  <2>2. Cardinality(Pending(completed, t)) # 0
    BY <1>2, <2>1, PendingEmpty
  <2>3. QED
    BY <2>1, <2>2 DEF SchedulerInv, CountersExact, Pending
<1>3. QED
  BY <1>1, <1>2 DEF ConversionStops, CompletionStops, Reached, FirstOf

-------------------------------------------------------------------------------
LEMMA InitInv == SchedulerInit => SchedulerInv
<1> SUFFICES ASSUME SchedulerInit PROVE SchedulerInv
  OBVIOUS
<1> USE DEF SchedulerInit
<1>1. ASSUME NEW r \in Regions
      PROVE  /\ Cardinality(Hood(r)) \in 0..9
             /\ {t \in Regions : r \in Hood(t)} = Hood(r)
             /\ {s \in Hood(r) : ~converted[s]} = Hood(r)
             /\ {s \in Hood(r) : ~completed[s]} = Hood(r)
             /\ \E s \in Hood(r) : ~converted[s]
  BY HoodBound, HoodSymmetric, HoodReflexive DEF Hood
<1>2. {r \in Regions : completed[r]} = {} /\ Cardinality({}) = 0
  BY FS_EmptySet
<1>3. Cardinality({r \in Regions : completed[r]}) = 0
  BY <1>2
<1>4. completed \in [Regions -> BOOLEAN]
  OBVIOUS
<1>5. 0 \in 0..Cardinality(Regions) /\ Cardinality(Regions) \in Nat
  BY <1>3, <1>4, CompletedCount, RegionsAssumption, FS_CardinalityType
<1>6. SchedulerTypeOK
  BY <1>1, <1>5 DEF SchedulerTypeOK
<1>7. CountersExact
  BY <1>1 DEF CountersExact
<1>8. CompletionExact
  BY <1>3 DEF CompletionExact
<1>9. QED
  BY <1>6, <1>7, <1>8 DEF SchedulerInv

LEMMA MarkConvertedInv ==
  ASSUME SchedulerInv, NEW r \in Callable, MarkConverted(r)
  PROVE  SchedulerInv' /\ reply'.ok
<1> USE DEF SchedulerInv
<1>1. r \in Regions /\ ~converted[r]
  BY DEF MarkConverted, MayConvert
<1>2. /\ ConversionStops(r) = {} /\ Reached(r, {}) = Hood(r) /\ FirstOf({}) = {}
  BY <1>1, LoopsRunToTheEnd
<1>3. /\ converted' = [converted EXCEPT ![r] = TRUE]
      /\ dependencies' = CountDown(dependencies, Hood(r))
      /\ scheduled' = [t \in Regions |-> scheduled[t] \/ t \in LastDependency(Hood(r))]
      /\ reply' = Answer("markConverted", r, LastDependency(Hood(r)))
      /\ UNCHANGED <<consumers, completed, completedCount>>
  <2>1. Hood(r) \cup LastDependency({}) = Hood(r)
    BY DEF LastDependency
  <2>2. QED
    BY <1>2, <2>1 DEF MarkConverted
<1>4. ASSUME NEW t \in Regions
      PROVE  /\ dependencies'[t] = Cardinality(Pending(converted', t))
             /\ scheduled'[t] <=> \A s \in Hood(t) : converted'[s]
  <2>1. /\ converted \in [Regions -> BOOLEAN]
        /\ dependencies[t] = Cardinality(Pending(converted, t))
        /\ scheduled[t] <=> \A s \in Hood(t) : converted[s]
    BY DEF SchedulerTypeOK, CountersExact, Pending
  <2>2. dependencies'[t] = IF t \in Hood(r) THEN dependencies[t] - 1 ELSE dependencies[t]
    BY <1>3 DEF CountDown
  <2>3. dependencies'[t] = Cardinality(Pending(converted', t))
    BY <1>1, <1>3, <2>1, <2>2, RaiseFlag
  <2>4. Cardinality(Pending(converted', t)) = 0 <=> \A s \in Hood(t) : converted'[s]
    BY PendingEmpty
  <2>5. CASE t \in Hood(r)
    <3>1. ~scheduled[t]
      BY <1>1, <2>1, <2>5, HoodSymmetric
    <3>2. scheduled'[t] <=> dependencies[t] = 1
      BY <1>3, <2>5, <3>1 DEF LastDependency
    <3>3. dependencies[t] \in Nat
      BY DEF SchedulerTypeOK
    <3>4. QED
      BY <2>2, <2>3, <2>4, <2>5, <3>2, <3>3
  <2>6. CASE t \notin Hood(r)
    <3>1. scheduled'[t] <=> scheduled[t]
      BY <1>3, <2>6 DEF LastDependency
    <3>2. r \notin Hood(t)
      BY <1>1, <2>6, HoodSymmetric
    <3>3. QED
      BY <1>3, <2>1, <2>3, <3>1, <3>2 DEF SchedulerTypeOK, Hood
  <2>7. QED
    BY <2>3, <2>5, <2>6
<1>5. CountersExact'
  <2>1. ASSUME NEW t \in Regions
        PROVE  /\ consumers'[t] = Cardinality({s \in Hood(t) : ~completed'[s]})
               /\ dependencies'[t] = Cardinality({s \in Hood(t) : ~converted'[s]})
    BY <1>3, <1>4 DEF CountersExact, Pending
  <2>2. QED
    BY <1>4, <2>1 DEF CountersExact
<1>6. SchedulerTypeOK'
  <2>1. \A t \in Regions : dependencies'[t] \in 0..9
    BY <1>4, PendingEmpty
  <2>2. dependencies' \in [Regions -> 0..9]
    BY <1>3, <2>1 DEF CountDown
  <2>3. scheduled' \in [Regions -> BOOLEAN]
    BY <1>3 DEF SchedulerTypeOK
  <2>4. LastDependency(Hood(r)) \in SUBSET Regions
    BY DEF LastDependency, Hood
  <2>5. reply' \in [call : {"none", "markConverted", "markCompleted"}, region : Callable,
                    ok : BOOLEAN, regions : SUBSET Regions]
    BY <1>3, <2>4 DEF Answer
  <2>6. converted' \in [Regions -> BOOLEAN]
    BY <1>3 DEF SchedulerTypeOK
  <2>7. QED
    BY <1>3, <2>2, <2>3, <2>5, <2>6 DEF SchedulerTypeOK
<1>7. CompletionExact'
  BY <1>3 DEF CompletionExact
<1>8. QED
  BY <1>3, <1>5, <1>6, <1>7 DEF Answer

LEMMA MarkCompletedInv ==
  ASSUME SchedulerInv, NEW r \in Callable, MarkCompleted(r)
  PROVE  SchedulerInv' /\ reply'.ok
<1> USE DEF SchedulerInv
<1>1. r \in Regions /\ scheduled[r] /\ ~completed[r]
  BY DEF MarkCompleted, MayComplete
<1>2. /\ CompletionStops(r) = {} /\ Reached(r, {}) = Hood(r)
  BY <1>1, LoopsRunToTheEnd
<1>3. /\ completed' = [completed EXCEPT ![r] = TRUE]
      /\ completedCount' = completedCount + 1
      /\ consumers' = CountDown(consumers, Hood(r))
      /\ reply' = Answer("markCompleted", r, LastConsumer(Hood(r)))
      /\ UNCHANGED <<dependencies, converted, scheduled>>
  BY <1>2 DEF MarkCompleted
<1>4. ASSUME NEW t \in Regions
      PROVE  consumers'[t] = Cardinality(Pending(completed', t))
  <2>1. /\ completed \in [Regions -> BOOLEAN]
        /\ consumers[t] = Cardinality(Pending(completed, t))
    BY DEF SchedulerTypeOK, CountersExact, Pending
  <2>2. consumers'[t] = IF t \in Hood(r) THEN consumers[t] - 1 ELSE consumers[t]
    BY <1>3 DEF CountDown
  <2>3. QED
    BY <1>1, <1>3, <2>1, <2>2, RaiseFlag
<1>5. CountersExact'
  <2>1. ASSUME NEW t \in Regions
        PROVE  /\ consumers'[t] = Cardinality({s \in Hood(t) : ~completed'[s]})
               /\ dependencies'[t] = Cardinality({s \in Hood(t) : ~converted'[s]})
               /\ scheduled'[t] <=> \A s \in Hood(t) : converted'[s]
    BY <1>3, <1>4 DEF CountersExact, Pending
  <2>2. QED
    BY <2>1 DEF CountersExact
<1>6. completedCount' = Cardinality({s \in Regions : completed'[s]})
  BY <1>1, <1>3, CompletedCount DEF SchedulerTypeOK, CompletionExact
<1>7. completed' \in [Regions -> BOOLEAN]
  BY <1>3 DEF SchedulerTypeOK
<1>8. SchedulerTypeOK'
  <2>1. \A t \in Regions : consumers'[t] \in 0..9
    BY <1>4, PendingEmpty
  <2>2. consumers' \in [Regions -> 0..9]
    BY <1>3, <2>1 DEF CountDown
  <2>3. LastConsumer(Hood(r)) \in SUBSET Regions
    BY DEF LastConsumer, Hood
  <2>4. reply' \in [call : {"none", "markConverted", "markCompleted"}, region : Callable,
                    ok : BOOLEAN, regions : SUBSET Regions]
    BY <1>3, <2>3 DEF Answer
  <2>5. completedCount' \in 0..Cardinality(Regions)
    BY <1>6, <1>7, CompletedCount
  <2>6. QED
    BY <1>3, <1>7, <2>2, <2>4, <2>5 DEF SchedulerTypeOK
<1>9. CompletionExact'
  BY <1>1, <1>3, <1>6 DEF CompletionExact, SchedulerTypeOK
<1>10. QED
  BY <1>3, <1>5, <1>8, <1>9 DEF Answer

LEMMA StutterInv ==
  ASSUME SchedulerInv, UNCHANGED state, reply' \in [call : {"none", "markConverted", "markCompleted"},
                                            region : Callable, ok : BOOLEAN,
                                            regions : SUBSET Regions]
  PROVE  SchedulerInv'
BY DEF state, SchedulerInv, SchedulerTypeOK, CountersExact, CompletionExact

LEMMA StepInv == SchedulerInv /\ [SchedulerNext]_schedulerVars => SchedulerInv'
<1> SUFFICES ASSUME SchedulerInv, [SchedulerNext]_schedulerVars PROVE SchedulerInv'
  OBVIOUS
<1>1. ASSUME NEW r \in Callable, MarkConverted(r) PROVE SchedulerInv'
  BY <1>1, MarkConvertedInv
<1>2. ASSUME NEW r \in Callable, MarkCompleted(r) PROVE SchedulerInv'
  BY <1>2, MarkCompletedInv
<1>3. ASSUME NEW r \in Callable, RejectConverted(r) PROVE SchedulerInv'
  BY <1>3, StutterInv DEF RejectConverted, NullOpt
<1>4. ASSUME NEW r \in Callable, RejectCompleted(r) PROVE SchedulerInv'
  BY <1>4, StutterInv DEF RejectCompleted, NullOpt
<1>5. CASE UNCHANGED schedulerVars
  <2>1. UNCHANGED state /\ reply' = reply
    BY <1>5 DEF schedulerVars, state
  <2>2. QED
    BY <2>1, StutterInv DEF SchedulerInv, SchedulerTypeOK
<1>6. QED
  BY <1>1, <1>2, <1>3, <1>4, <1>5 DEF SchedulerNext

(* The inductive invariant holds in every reachable state. *)
LEMMA Invariance == SchedulerSpec => []SchedulerInv
BY InitInv, StepInv, PTL DEF SchedulerSpec

(* Counters stay in 0..9 for every finite dimension: uint8_t never wraps.  *)
THEOREM SchedulerTypeCorrect == SchedulerSpec => []SchedulerTypeOK
<1>1. SchedulerInv => SchedulerTypeOK
  BY DEF SchedulerInv
<1>2. QED
  BY <1>1, Invariance, PTL

(* The counters count what they are meant to count, and a region is        *)
(* scheduled exactly when everything it reads is converted.                *)
THEOREM CountersCorrect == SchedulerSpec => []CountersExact
<1>1. SchedulerInv => CountersExact
  BY DEF SchedulerInv
<1>2. QED
  BY <1>1, Invariance, PTL

(* allCompleted() is true exactly when every region is completed.          *)
THEOREM AllCompletedCorrect == SchedulerSpec => []AllCompletedExact
BY Invariance, AllCompletedFollows, PTL

(* A refused call changes nothing: the partial updates never happen.       *)
THEOREM RefusalCorrect == SchedulerSpec => RefusalChangesNothing
<1>1. SchedulerInv /\ [SchedulerNext]_schedulerVars => [~reply'.ok => UNCHANGED state]_schedulerVars
  <2> SUFFICES ASSUME SchedulerInv, SchedulerNext, ~reply'.ok PROVE UNCHANGED state
    BY DEF schedulerVars, state
  <2>1. PICK r \in Callable : \/ MarkConverted(r) \/ MarkCompleted(r)
                              \/ RejectConverted(r) \/ RejectCompleted(r)
    BY DEF SchedulerNext
  <2>2. QED
    BY <2>1, MarkConvertedInv, MarkCompletedInv DEF RejectConverted, RejectCompleted
<1>2. QED
  BY <1>1, Invariance, PTL DEF SchedulerSpec, RefusalChangesNothing

-------------------------------------------------------------------------------
(* The refinement: a counter reaches zero exactly in the step in which the *)
(* frontier of RegionFrontier takes the region in.                         *)
(* The counter of t is 1 before its neighbour r counts it down, exactly    *)
(* when r is the last region that its set was waiting for.                 *)
LEMMA LastOne ==
  ASSUME NEW flag \in [Regions -> BOOLEAN], NEW r \in Regions, ~flag[r],
         NEW t \in Hood(r)
  PROVE  Cardinality(Pending(flag, t)) = 1
           <=> Hood(t) \subseteq {s \in Regions : flag[s]} \cup {r}
<1>1. t \in Regions /\ Hood(t) \subseteq Regions
  BY DEF Hood
<1> DEFINE raised == [flag EXCEPT ![r] = TRUE]
<1>2. Cardinality(Pending(flag, t)) \in 1..9
      /\ Cardinality(Pending(raised, t)) = Cardinality(Pending(flag, t)) - 1
  BY <1>1, RaiseFlag
<1>3. Cardinality(Pending(raised, t)) = 0 <=> \A s \in Hood(t) : raised[s]
  BY <1>1, PendingEmpty
<1>4. (\A s \in Hood(t) : raised[s]) <=> Hood(t) \subseteq {s \in Regions : flag[s]} \cup {r}
  BY <1>1
<1>5. QED
  BY <1>2, <1>3, <1>4

LEMMA FrontierHood == \A r : Frontier!Hood(r) = Hood(r)
BY DEF Frontier!Hood, Frontier!Adjacent, Hood, Adjacent

LEMMA ConvertRefines ==
  ASSUME SchedulerInv, NEW r \in Callable, MarkConverted(r)
  PROVE  Frontier!Convert(r)
<1>1. r \in Regions /\ ~converted[r] /\ converted \in [Regions -> BOOLEAN]
  BY DEF MarkConverted, MayConvert, SchedulerInv, SchedulerTypeOK
<1>2. /\ ConversionStops(r) = {} /\ Reached(r, {}) = Hood(r) /\ FirstOf({}) = {}
  BY <1>1, LoopsRunToTheEnd
<1>3. /\ converted' = [converted EXCEPT ![r] = TRUE]
      /\ reply' = Answer("markConverted", r, LastDependency(Hood(r)))
      /\ completed' = completed
  BY <1>2 DEF MarkConverted
<1>4. {s \in Regions : converted'[s]} = {s \in Regions : converted[s]} \cup {r}
  BY <1>1, <1>3
<1>5. ASSUME NEW t \in Hood(r)
      PROVE  dependencies[t] = 1 <=> Hood(t) \subseteq {s \in Regions : converted[s]} \cup {r}
  <2>1. dependencies[t] = Cardinality(Pending(converted, t))
    BY DEF SchedulerInv, CountersExact, Pending, Hood
  <2>2. QED
    BY <1>1, <2>1, LastOne
<1>6. LastDependency(Hood(r))
        = {t \in Hood(r) : Hood(t) \subseteq {s \in Regions : converted'[s]}}
  BY <1>4, <1>5 DEF LastDependency
<1>7. QED
  BY <1>1, <1>3, <1>4, <1>6, FrontierHood DEF Frontier!Convert, Frontier!Ready, Frontier!Answer, Answer

LEMMA CompleteRefines ==
  ASSUME SchedulerInv, NEW r \in Callable, MarkCompleted(r)
  PROVE  Frontier!Complete(r)
<1>1. r \in Regions /\ scheduled[r] /\ ~completed[r] /\ completed \in [Regions -> BOOLEAN]
  BY DEF MarkCompleted, MayComplete, SchedulerInv, SchedulerTypeOK
<1>2. /\ CompletionStops(r) = {} /\ Reached(r, {}) = Hood(r)
  BY <1>1, LoopsRunToTheEnd
<1>3. /\ completed' = [completed EXCEPT ![r] = TRUE]
      /\ reply' = Answer("markCompleted", r, LastConsumer(Hood(r)))
      /\ converted' = converted
  BY <1>2 DEF MarkCompleted
<1>4. {s \in Regions : completed'[s]} = {s \in Regions : completed[s]} \cup {r}
  BY <1>1, <1>3
<1>5. ASSUME NEW t \in Hood(r)
      PROVE  consumers[t] = 1 <=> Hood(t) \subseteq {s \in Regions : completed[s]} \cup {r}
  <2>1. consumers[t] = Cardinality(Pending(completed, t))
    BY DEF SchedulerInv, CountersExact, Pending, Hood
  <2>2. QED
    BY <1>1, <2>1, LastOne
<1>6. LastConsumer(Hood(r))
        = {t \in Hood(r) : Hood(t) \subseteq {s \in Regions : completed'[s]}}
  BY <1>4, <1>5 DEF LastConsumer
<1>7. Hood(r) \subseteq {s \in Regions : converted[s]}
  BY <1>1 DEF SchedulerInv, CountersExact, Hood
<1>8. QED
  BY <1>1, <1>3, <1>4, <1>6, <1>7, FrontierHood
  DEF Frontier!Complete, Frontier!Releasable, Frontier!Answer, Answer

LEMMA RejectRefines ==
  ASSUME SchedulerInv, NEW r \in Callable
  PROVE  /\ RejectConverted(r) => Frontier!RefuseConvert(r)
         /\ RejectCompleted(r) => Frontier!RefuseComplete(r)
<1>1. UNCHANGED state => /\ {s \in Regions : converted'[s]} = {s \in Regions : converted[s]}
                         /\ {s \in Regions : completed'[s]} = {s \in Regions : completed[s]}
  BY DEF state
<1>2. RejectConverted(r) => Frontier!RefuseConvert(r)
  BY <1>1 DEF RejectConverted, MayConvert, NullOpt, Frontier!RefuseConvert, Frontier!Refusal
<1>3. r \in Regions => (scheduled[r] <=> Hood(r) \subseteq {s \in Regions : converted[s]})
  BY DEF SchedulerInv, CountersExact, Hood
<1>4. RejectCompleted(r) => Frontier!RefuseComplete(r)
  BY <1>1, <1>3, FrontierHood
  DEF RejectCompleted, MayComplete, NullOpt, Frontier!RefuseComplete, Frontier!Refusal
<1>5. QED
  BY <1>2, <1>4

(* The scheduler implements the frontier it is specified by.               *)
THEOREM SchedulerRefinesFrontier == SchedulerSpec => FrontierSpec
<1>1. SchedulerInit => Frontier!Init
  BY DEF SchedulerInit, Frontier!Init, Callable
<1>2. SchedulerInv /\ [SchedulerNext]_schedulerVars => [Frontier!Next]_Frontier!vars
  <2> SUFFICES ASSUME SchedulerInv, [SchedulerNext]_schedulerVars PROVE [Frontier!Next]_Frontier!vars
    OBVIOUS
  <2>1. CASE SchedulerNext
    <3>1. PICK r \in Callable : \/ MarkConverted(r) \/ MarkCompleted(r)
                                \/ RejectConverted(r) \/ RejectCompleted(r)
      BY <2>1 DEF SchedulerNext
    <3>2. \/ Frontier!Convert(r) \/ Frontier!Complete(r)
          \/ Frontier!RefuseConvert(r) \/ Frontier!RefuseComplete(r)
      BY <3>1, ConvertRefines, CompleteRefines, RejectRefines
    <3>3. QED
      BY <3>2 DEF Frontier!Next, Callable
  <2>2. CASE UNCHANGED schedulerVars
    <3>1. /\ {s \in Regions : converted'[s]} = {s \in Regions : converted[s]}
          /\ {s \in Regions : completed'[s]} = {s \in Regions : completed[s]}
          /\ reply' = reply
      BY <2>2 DEF schedulerVars
    <3>2. QED
      BY <3>1 DEF Frontier!vars
  <2>3. QED
    BY <2>1, <2>2
<1>3. QED
  BY <1>1, <1>2, Invariance, PTL DEF SchedulerSpec, FrontierSpec, Frontier!Spec

===============================================================================
