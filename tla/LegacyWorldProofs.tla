-------------------------- MODULE LegacyWorldProofs --------------------------
(***************************************************************************)
(* Proofs that terraforming in place never reads a file that is being      *)
(* written or was left torn, and that a conversion that succeeds leaves    *)
(* exactly the world, for every grid, number of threads and pattern of     *)
(* failures and cancellations.                                             *)
(*                                                                         *)
(* The locks of the queue are booleans, not counters: that a thread does   *)
(* not unlock what another one has locked rests on the neighbourhoods of   *)
(* all threads at work being disjoint, and on a failed thread's remaining  *)
(* locked although the thread is gone.                                     *)
(***************************************************************************)
EXTENDS LegacyWorld, TLAPS

Cells == Queue!Cells
Around(p) == Queue!Around(p)

Places == {"check", "next", "read", "terraform", "write", "merge", "fail", "unlock",
           "report", "left"}

AtWork(w) == at[w] \in {"read", "terraform", "write", "merge", "fail", "unlock"}

TypeInv ==
  /\ at \in [Workers -> Places]
  /\ cell \in [Workers -> Cells \cup {<<>>}]
  /\ lock \in [Cells -> BOOLEAN]
  /\ file \in [Cells -> {"absent", "raw", "writing", "torn", "done"}]
  /\ \A w \in Workers : AtWork(w) => cell[w] \in Cells

HoodsLocked == \A w \in Workers : AtWork(w) => \A q \in Around(cell[w]) : lock[q]

HoodsApart ==
  \A v, w \in Workers : v # w /\ AtWork(v) /\ AtWork(w) =>
    Around(cell[v]) \cap Around(cell[w]) = {}

TornLocked == \A p \in Cells : file[p] = "torn" => \A q \in Around(p) : lock[q]

(* A thread at "fail" has torn its own file, and unlocks nothing any more. *)
TornApart ==
  \A p \in Cells, w \in Workers :
    file[p] = "torn" /\ AtWork(w) /\ at[w] # "fail" => Around(cell[w]) \cap Around(p) = {}

WritersKnown ==
  \A p \in Cells : file[p] = "writing" => \E w \in Workers : at[w] = "write" /\ cell[w] = p

IInv == TypeInv /\ HoodsLocked /\ HoodsApart /\ TornLocked /\ TornApart /\ WritersKnown

-------------------------------------------------------------------------------
LEMMA InItsHood == \A p \in Cells : p \in Around(p)
BY LegacyAssumption DEF Cells, Around, Queue!Cells, Queue!Around

LEMMA HoodInGrid == \A p : Around(p) \subseteq Cells
BY DEF Cells, Around, Queue!Cells, Queue!Around

(* The invariant says what the property asks for. *)
THEOREM InvariantSuffices == IInv => NeighboursWhole
<1> SUFFICES ASSUME IInv, NEW w \in Workers, at[w] = "terraform",
                    NEW q \in Around(cell[w])
             PROVE  file[q] \notin {"writing", "torn"}
  BY DEF NeighboursWhole, Around
<1>1. q \in Cells /\ q \in Around(q) /\ AtWork(w)
  BY HoodInGrid, InItsHood DEF AtWork
<1>2. file[q] # "torn"
  BY <1>1 DEF IInv, TornApart
<1>3. file[q] # "writing"
  <2> SUFFICES ASSUME file[q] = "writing" PROVE FALSE
    OBVIOUS
  <2>1. PICK v \in Workers : at[v] = "write" /\ cell[v] = q
    BY <1>1 DEF IInv, WritersKnown
  <2>2. v # w /\ AtWork(v)
    BY <2>1 DEF AtWork
  <2>3. QED
    BY <1>1, <2>1, <2>2 DEF IInv, HoodsApart
<1>4. QED
  BY <1>2, <1>3

\* At the start no thread is at work and nothing is locked.
THEOREM InitInvariant == Init => IInv
BY DEF Init, InitThreads, IInv, TypeInv, Places, AtWork, HoodsLocked, HoodsApart, TornLocked,
       TornApart, WritersKnown, Grid, Cells, Queue!Init, Queue!Cells

-------------------------------------------------------------------------------
(* Steps of the main thread: files appear whole or disappear. *)

FilesSettle ==
  /\ file' \in [Cells -> {"absent", "raw", "writing", "torn", "done"}]
  /\ \A p \in Cells : file'[p] \in {"writing", "torn"} => file'[p] = file[p]

LEMMA SettleStep ==
  ASSUME IInv, FilesSettle, UNCHANGED <<done, lock, at, cell>>
  PROVE  IInv'
<1>1. TypeInv'
  BY DEF IInv, TypeInv, FilesSettle, AtWork
<1>2. HoodsLocked' /\ HoodsApart'
  BY DEF IInv, HoodsLocked, HoodsApart, AtWork
<1>3. TornLocked' /\ TornApart'
  BY DEF IInv, TornLocked, TornApart, AtWork, FilesSettle
<1>4. WritersKnown'
  BY DEF IInv, WritersKnown, FilesSettle
<1>5. QED
  BY <1>1, <1>2, <1>3, <1>4 DEF IInv

LEMMA SameFileSettles == ASSUME IInv, UNCHANGED file PROVE FilesSettle
BY DEF IInv, TypeInv, FilesSettle

LEMMA MainStepKeeps == ASSUME IInv, MainStep PROVE IInv'
<1>1. UNCHANGED <<done, lock, at, cell>>
  BY DEF MainStep, ConvertChunk, Converted, Terraformed, Concat, Light, Concatenated, Lit,
         CreateOuterRegion, LastReport, Leave, vars, queue
<1>2. \/ UNCHANGED file
      \/ \E p \in Grid : file' = [file EXCEPT ![p] = "raw"]
      \/ \E r : file' = [p \in Grid |-> IF p \in Chunks(r) THEN "absent" ELSE file[p]]
      \/ file' = [p \in Grid |-> "absent"]
      \/ \E rest : file' = [p \in Grid |-> IF p \in rest THEN file[p] ELSE "absent"]
  BY DEF MainStep, ConvertChunk, Converted, Terraformed, Concat, Light, Concatenated, Lit,
         CreateOuterRegion, LastReport, Leave, vars
<1>3. Grid = Cells
  BY DEF Grid, Cells
<1>4. FilesSettle
  <2>1. CASE UNCHANGED file
    BY <2>1, SameFileSettles
  <2>2. CASE \E p \in Grid : file' = [file EXCEPT ![p] = "raw"]
    BY <1>3, <2>2 DEF IInv, TypeInv, FilesSettle
  <2>3. CASE \E r : file' = [p \in Grid |-> IF p \in Chunks(r) THEN "absent" ELSE file[p]]
    BY <1>3, <2>3 DEF IInv, TypeInv, FilesSettle
  <2>4. CASE file' = [p \in Grid |-> "absent"]
    BY <1>3, <2>4 DEF IInv, TypeInv, FilesSettle
  <2>5. CASE \E rest : file' = [p \in Grid |-> IF p \in rest THEN file[p] ELSE "absent"]
    BY <1>3, <2>5 DEF IInv, TypeInv, FilesSettle
  <2>6. QED
    BY <1>2, <2>1, <2>2, <2>3, <2>4, <2>5
<1>5. QED
  BY <1>1, <1>4, SettleStep

-------------------------------------------------------------------------------
(* Steps of a thread.  Most leave locks and cells alone and neither begin  *)
(* nor fail.                                                               *)

LEMMA QuietStep ==
  ASSUME IInv, NEW w \in Workers, NEW to \in Places, at' = [at EXCEPT ![w] = to],
         UNCHANGED <<done, lock, cell, file>>,
         at[w] # "write",
         to \in {"terraform", "unlock"} => AtWork(w) /\ at[w] # "fail",
         to = "fail" => AtWork(w),
         to \notin {"read", "write", "merge"}
  PROVE  IInv'
<1>1. \A v \in Workers : at'[v] = IF v = w THEN to ELSE at[v]
  BY DEF IInv, TypeInv
<1>2. \A v \in Workers : AtWork(v)' => AtWork(v)
  BY <1>1 DEF AtWork
<1>3. \A v \in Workers : AtWork(v)' /\ at'[v] # "fail" => at[v] # "fail"
  BY <1>1 DEF AtWork
<1>4. TypeInv'
  BY <1>2 DEF IInv, TypeInv
<1>5. HoodsLocked' /\ HoodsApart'
  BY <1>2 DEF IInv, HoodsLocked, HoodsApart
<1>6. TornLocked' /\ TornApart'
  BY <1>2, <1>3 DEF IInv, TornLocked, TornApart
<1>7. WritersKnown'
  BY <1>1 DEF IInv, WritersKnown
<1>8. QED
  BY <1>4, <1>5, <1>6, <1>7 DEF IInv

(* A new neighbourhood is free: none of its cells is locked, so it meets   *)
(* no other one at work and no torn file's.                                *)
LEMMA DequeueStep ==
  ASSUME IInv, NEW w \in Workers, NEW p \in Cells, Queue!Dequeue(p), at[w] = "next",
         at' = [at EXCEPT ![w] = "read"], cell' = [cell EXCEPT ![w] = p], UNCHANGED file
  PROVE  IInv'
<1>1. \A q \in Around(p) : ~lock[q]
  BY DEF Queue!Dequeue, Queue!First, Queue!Free, Around
<1>2. lock' = [q \in Cells |-> lock[q] \/ q \in Around(p)]
  BY DEF Queue!Dequeue, Cells, Around
<1>3. \A v \in Workers : at'[v] = IF v = w THEN "read" ELSE at[v]
  BY DEF IInv, TypeInv
<1>4. \A v \in Workers : cell'[v] = IF v = w THEN p ELSE cell[v]
  BY DEF IInv, TypeInv
<1>5. \A v \in Workers : AtWork(v)' /\ v # w => AtWork(v) /\ cell'[v] = cell[v]
  BY <1>3, <1>4 DEF AtWork
<1>6. TypeInv'
  <2>1. lock' \in [Cells -> BOOLEAN]
    BY <1>2 DEF IInv, TypeInv
  <2>2. at' \in [Workers -> Places]
    BY DEF IInv, TypeInv, Places
  <2>3. cell' \in [Workers -> Cells \cup {<<>>}]
    BY DEF IInv, TypeInv
  <2>4. \A v \in Workers : AtWork(v)' => cell'[v] \in Cells
    BY <1>4, <1>5 DEF IInv, TypeInv
  <2>5. QED
    BY <2>1, <2>2, <2>3, <2>4 DEF IInv, TypeInv
<1>7. HoodsLocked'
  <2>1. \A q \in Cells : lock[q] => lock'[q]
    BY <1>2
  <2>2. \A q \in Around(p) : lock'[q]
    BY <1>2, HoodInGrid
  <2>3. QED
    BY <1>4, <1>5, <2>1, <2>2, HoodInGrid DEF IInv, HoodsLocked
<1>8. HoodsApart'
  <2>1. \A v \in Workers : v # w /\ AtWork(v) => Around(cell[v]) \cap Around(p) = {}
    BY <1>1 DEF IInv, HoodsLocked
  <2>2. QED
    BY <1>4, <1>5, <2>1 DEF IInv, HoodsApart
<1>9. TornLocked'
  BY <1>2, HoodInGrid DEF IInv, TornLocked
<1>10. TornApart'
  <2>1. \A r \in Cells : file[r] = "torn" => Around(p) \cap Around(r) = {}
    BY <1>1 DEF IInv, TornLocked
  <2>2. QED
    BY <1>3, <1>4, <1>5, <2>1 DEF IInv, TornApart
<1>11. WritersKnown'
  BY <1>3, <1>4 DEF IInv, WritersKnown
<1>12. QED
  BY <1>6, <1>7, <1>8, <1>9, <1>10, <1>11 DEF IInv

LEMMA BeginWriteStep ==
  ASSUME IInv, NEW w \in Workers, BeginWrite(w) PROVE IInv'
<1>1. /\ at[w] = "terraform" /\ at' = [at EXCEPT ![w] = "write"]
      /\ file' = [file EXCEPT ![cell[w]] = "writing"]
      /\ UNCHANGED <<done, lock, cell>>
  BY DEF BeginWrite, Goes, queue
<1>2. \A v \in Workers : at'[v] = IF v = w THEN "write" ELSE at[v]
  BY <1>1 DEF IInv, TypeInv
<1>3. \A v \in Workers : AtWork(v)' => AtWork(v) /\ (at'[v] # "fail" => at[v] # "fail")
  BY <1>1, <1>2 DEF AtWork
<1>4. cell[w] \in Cells
  BY <1>1 DEF IInv, TypeInv, AtWork
<1>5. \A p \in Cells : file'[p] = IF p = cell[w] THEN "writing" ELSE file[p]
  BY <1>1, <1>4 DEF IInv, TypeInv
<1>6. TypeInv'
  BY <1>1, <1>3 DEF IInv, TypeInv, Places
<1>7. HoodsLocked' /\ HoodsApart'
  BY <1>1, <1>3 DEF IInv, HoodsLocked, HoodsApart
<1>8. TornLocked' /\ TornApart'
  BY <1>1, <1>3, <1>5 DEF IInv, TornLocked, TornApart
<1>9. WritersKnown'
  BY <1>1, <1>2, <1>5 DEF IInv, WritersKnown
<1>10. QED
  BY <1>6, <1>7, <1>8, <1>9 DEF IInv

(* A write that fails tears the thread's own file, in a neighbourhood that *)
(* is locked and apart from all others.                                    *)
LEMMA EndWriteStep ==
  ASSUME IInv, NEW w \in Workers, NEW good \in BOOLEAN, EndWrite(w, good) PROVE IInv'
<1> DEFINE to == IF good THEN "merge" ELSE "fail"
           state == IF good THEN "done" ELSE "torn"
<1>1. /\ at[w] = "write" /\ at' = [at EXCEPT ![w] = to]
      /\ file' = [file EXCEPT ![cell[w]] = state]
      /\ UNCHANGED <<done, lock, cell>>
  BY DEF EndWrite, Goes, queue
<1>2. \A v \in Workers : at'[v] = IF v = w THEN to ELSE at[v]
  BY <1>1 DEF IInv, TypeInv
<1>3. AtWork(w) /\ cell[w] \in Cells
  BY <1>1 DEF IInv, TypeInv, AtWork
<1>4. \A v \in Workers : AtWork(v)' => AtWork(v) /\ (at'[v] # "fail" => at[v] # "fail")
  BY <1>1, <1>2, <1>3 DEF AtWork
<1>5. \A p \in Cells : file'[p] = IF p = cell[w] THEN state ELSE file[p]
  BY <1>1, <1>3 DEF IInv, TypeInv
<1>6. TypeInv'
  BY <1>1, <1>4 DEF IInv, TypeInv, Places
<1>7. HoodsLocked' /\ HoodsApart'
  BY <1>1, <1>4 DEF IInv, HoodsLocked, HoodsApart
<1>8. TornLocked'
  BY <1>1, <1>3, <1>5 DEF IInv, TornLocked, HoodsLocked
<1>9. TornApart'
  <2> SUFFICES ASSUME NEW p \in Cells, NEW v \in Workers,
                      file'[p] = "torn", AtWork(v)', at'[v] # "fail"
               PROVE  Around(cell[v]) \cap Around(p) = {}
    BY <1>1 DEF TornApart
  <2>1. CASE p # cell[w]
    BY <1>4, <1>5, <2>1 DEF IInv, TornApart
  <2>2. CASE p = cell[w]
    <3>1. ~good /\ v # w
      BY <1>2, <1>5, <2>2
    <3>2. QED
      BY <1>3, <1>4, <2>2, <3>1 DEF IInv, HoodsApart
  <2>3. QED
    BY <2>1, <2>2
<1>10. WritersKnown'
  BY <1>1, <1>2, <1>5 DEF IInv, WritersKnown
<1>11. QED
  BY <1>6, <1>7, <1>8, <1>9, <1>10 DEF IInv

(* Unlocking clears a neighbourhood that nobody else is at work in and no  *)
(* torn file lies in.                                                      *)
LEMMA UnlockStep ==
  ASSUME IInv, NEW w \in Workers, Unlock(w) PROVE IInv'
<1>1. /\ at[w] = "unlock" /\ at' = [at EXCEPT ![w] = "report"]
      /\ lock' = [q \in Cells |-> lock[q] /\ q \notin Around(cell[w])]
      /\ UNCHANGED <<done, file, cell>>
  BY DEF Unlock, AfterSuccess, Goes, Queue!UnlockAround, Cells, Around
<1>2. \A v \in Workers : at'[v] = IF v = w THEN "report" ELSE at[v]
  BY <1>1 DEF IInv, TypeInv
<1>3. AtWork(w)
  BY <1>1 DEF AtWork
<1>4. \A v \in Workers :
        AtWork(v)' => AtWork(v) /\ v # w /\ (at'[v] # "fail" => at[v] # "fail")
  BY <1>2 DEF AtWork
<1>5. TypeInv'
  <2>1. lock' \in [Cells -> BOOLEAN]
    BY <1>1 DEF IInv, TypeInv
  <2>2. QED
    BY <1>1, <1>4, <2>1 DEF IInv, TypeInv, Places
<1>6. HoodsLocked'
  <2> SUFFICES ASSUME NEW v \in Workers, AtWork(v)', NEW q \in Around(cell[v])
               PROVE  lock'[q]
    BY <1>1 DEF HoodsLocked
  <2>1. q \in Cells /\ lock[q] /\ q \notin Around(cell[w])
    BY <1>3, <1>4, HoodInGrid DEF IInv, HoodsLocked, HoodsApart
  <2>2. QED
    BY <1>1, <2>1
<1>7. HoodsApart'
  BY <1>1, <1>4 DEF IInv, HoodsApart
<1>8. TornLocked'
  <2> SUFFICES ASSUME NEW p \in Cells, file[p] = "torn", NEW q \in Around(p)
               PROVE  lock'[q]
    BY <1>1 DEF TornLocked
  <2>1. q \in Cells /\ lock[q]
    BY HoodInGrid DEF IInv, TornLocked
  <2>2. q \notin Around(cell[w])
    BY <1>1, <1>3 DEF IInv, TornApart
  <2>3. QED
    BY <1>1, <2>1, <2>2
<1>9. TornApart'
  BY <1>1, <1>4 DEF IInv, TornApart
<1>10. WritersKnown'
  BY <1>1, <1>2 DEF IInv, WritersKnown
<1>11. QED
  BY <1>5, <1>6, <1>7, <1>8, <1>9, <1>10 DEF IInv

LEMMA NextStep ==
  ASSUME IInv, NEW w \in Workers, Next(w) PROVE IInv'
<1>1. CASE \E p \in Queue!Cells :
             Queue!Dequeue(p) /\ Goes(w, "next", "read") /\ cell' = [cell EXCEPT ![w] = p]
  BY <1>1, DequeueStep DEF Next, Goes, Cells
<1>2. CASE /\ Queue!Wait
           /\ Goes(w, "next", IF Queue!Remaining = {} THEN "left" ELSE "check")
           /\ UNCHANGED cell
  BY <1>2, QuietStep DEF Next, Goes, Queue!Wait, Places
<1>3. QED
  BY <1>1, <1>2 DEF Next

LEMMA QuietSteps ==
  ASSUME IInv, NEW w \in Workers,
         \/ Check(w) \/ Read(w) \/ PassOver(w) \/ Malformed(w) \/ Merge(w) \/ Fail(w)
         \/ \E proceed \in BOOLEAN : Report(w, proceed)
  PROVE  IInv'
<1>1. CASE Check(w)
  BY <1>1, QuietStep DEF Check, Goes, Places, queue
<1>2. CASE Read(w)
  BY <1>2, QuietStep DEF Read, Goes, Places, queue, AtWork
<1>3. CASE PassOver(w)
  BY <1>3, QuietStep DEF PassOver, Goes, Places, queue, AtWork
<1>4. CASE Malformed(w)
  BY <1>4, QuietStep DEF Malformed, Goes, Places, queue, AtWork
<1>5. CASE Merge(w)
  BY <1>5, QuietStep DEF Merge, Goes, Places, queue, AtWork
<1>6. CASE Fail(w)
  BY <1>6, QuietStep DEF Fail, AfterFailure, Goes, Places, queue
<1>7. CASE \E proceed \in BOOLEAN : Report(w, proceed)
  BY <1>7, QuietStep DEF Report, Goes, Places, queue
<1>8. QED
  BY <1>1, <1>2, <1>3, <1>4, <1>5, <1>6, <1>7

-------------------------------------------------------------------------------
\* One step of a thread, or of the phases around them.
THEOREM NextInvariant == IInv /\ [WorldNext]_worldVars => IInv'
<1> SUFFICES ASSUME IInv, [WorldNext]_worldVars PROVE IInv'
  OBVIOUS
<1>1. CASE MainStep
  BY <1>1, MainStepKeeps
<1>2. ASSUME NEW w \in Workers, Terraform(w) PROVE IInv'
  <2>1. \/ Check(w) \/ Read(w) \/ PassOver(w) \/ Malformed(w) \/ Merge(w) \/ Fail(w)
        \/ \E proceed \in BOOLEAN : Report(w, proceed)
        \/ Next(w) \/ BeginWrite(w) \/ Unlock(w)
        \/ \E good \in BOOLEAN : EndWrite(w, good)
    BY <1>2 DEF Terraform
  <2>2. QED
    BY <2>1, QuietSteps, NextStep, BeginWriteStep, UnlockStep, EndWriteStep
<1>3. CASE UNCHANGED worldVars
  <2>1. UNCHANGED <<done, lock, at, cell, file>>
    BY <1>3 DEF worldVars, vars, queue
  <2>2. QED
    BY <2>1, SameFileSettles, SettleStep
<1>4. QED
  BY <1>1, <1>2, <1>3 DEF WorldNext

(* While a thread works on a chunk no file of its neighbourhood is being   *)
(* written or was left torn.                                               *)
THEOREM NeighboursWholeCorrect == Spec => []NeighboursWhole
BY InitInvariant, NextInvariant, InvariantSuffices, PTL DEF Spec

-------------------------------------------------------------------------------
(* What a conversion that succeeds leaves.                                 *)

Phases == {"convert", "terraform", "concat", "lighting", "outer", "leaving", "failed", "ok",
           "error"}

(* A failure that is noticed ends the conversion.  A thread that failed    *)
(* says so only after its file.                                            *)
FaultsAnswered ==
  /\ faults \in Nat /\ dropped \in Nat /\ ok \in BOOLEAN /\ phase \in Phases
  /\ faults = 0 =>
       /\ ok /\ phase \notin {"failed", "error"}
       /\ \A w \in Workers : at[w] # "fail"
  /\ faults # 0 =>
       \/ phase \in {"failed", "error"}
       \/ phase = "terraform" /\ (~ok \/ \E w \in Workers : at[w] = "fail")
  /\ Over /\ dropped = 0 => ~temp

(* Unless something failed, a thread leaves only when all tasks are taken. *)
AllTaken == faults = 0 => \A w \in Workers : at[w] = "left" => \A p \in Cells : done[p]

Shapes ==
  /\ done \in [Cells -> BOOLEAN]
  /\ DOMAIN joined = Inner /\ DOMAIN out = Inner
  /\ present \subseteq Inner
  /\ made \subseteq InnerChunks
  /\ \A r \in Inner \ present : joined[r] = {} /\ out[r] = {}

Clean == faults = 0 /\ dropped = 0

(* Where the file of each chunk is while threads work in place.            *)
HasFile == {"read", "terraform", "write", "merge"}

HeldBy(w, p) == cell[w] = p /\ at[w] \in HasFile

CellsExact ==
  \A p \in Cells :
    /\ p \notin made => file[p] = "absent"
    /\ p \in made /\ ~done[p] => file[p] = "raw"
    /\ p \in made /\ done[p] =>
         (file[p] = "done" /\ p \in poi) \/ \E w \in Workers : HeldBy(w, p)

ThreadsExact ==
  \A w \in Workers :
    /\ at[w] \in HasFile => done[cell[w]]
    /\ at[w] = "read" => file[cell[w]] = IF cell[w] \in made THEN "raw" ELSE "absent"
    /\ at[w] = "terraform" => cell[w] \in made /\ file[cell[w]] = "raw"
    /\ at[w] = "write" => cell[w] \in made
    /\ at[w] = "merge" => cell[w] \in made /\ file[cell[w]] = "done"

InPlaceExact == CellsExact /\ ThreadsExact /\ poi \subseteq made

Whole(r) == {<<p, "done">> : p \in made \cap Chunks(r)}

(* The account, phase by phase. *)
Account ==
  /\ phase \in {"convert", "terraform"} => InPlaceExact
  /\ phase = "convert" =>
       /\ poi = {}
       /\ \A w \in Workers : at[w] = "check"
       /\ \A p \in Cells : ~done[p]
  /\ phase \in {"concat", "lighting", "outer", "leaving", "ok"} => poi = made
  /\ phase = "concat" =>
       \A r \in present :
         IF r \in worked THEN joined[r] = Whole(r)
         ELSE \A p \in Chunks(r) : file[p] = IF p \in made THEN "done" ELSE "absent"
  /\ phase = "lighting" =>
       \A r \in present : joined[r] = Whole(r) /\ (r \in worked => out[r] = Whole(r))
  /\ phase \in {"outer", "leaving", "ok"} => ~joinedDir /\ \A r \in Inner : out[r] = Whole(r)
  /\ phase \in {"convert", "terraform", "concat", "lighting"} => outer = {}
  /\ phase = "outer" => worked \subseteq outer /\ outer \subseteq Outer
  /\ phase \in {"leaving", "ok"} => outer = Outer

WorldInv == IInv /\ FaultsAnswered /\ AllTaken /\ Shapes /\ (Clean => Account)

LEMMA WorldSuffices == WorldInv => WorldExact
BY DEF WorldInv, FaultsAnswered, Phases, Clean, Account, Whole, WorldExact, Over

LEMMA WorldInit == Init => WorldInv
<1> SUFFICES ASSUME Init PROVE WorldInv
  OBVIOUS
<1>1. IInv
  BY InitInvariant
<1>2. FaultsAnswered
  BY DEF Init, InitThreads, FaultsAnswered, Phases, Over
<1>3. AllTaken /\ Shapes
  BY DEF Init, InitThreads, AllTaken, Shapes, Queue!Init, Cells
<1>4. Account
  BY DEF Init, InitThreads, Account, InPlaceExact, CellsExact, ThreadsExact, HasFile,
         Queue!Init, Cells, Grid
<1>5. QED
  BY <1>1, <1>2, <1>3, <1>4 DEF WorldInv

-------------------------------------------------------------------------------
(* A clean conversion was clean before. *)
LEMMA CleanBefore ==
  ASSUME FaultsAnswered, Clean', WorldNext \/ UNCHANGED worldVars
  PROVE  Clean
<1>1. UNCHANGED <<faults, dropped>> \/ Fault \/ Dropped
  BY DEF WorldNext, MainStep, ConvertChunk, Converted, Terraform, Terraformed, Concat, Concatenated,
         Light, Lit, CreateOuterRegion, LastReport, Leave, NoFault, Works, Fails, Passes, worldVars
<1>2. QED
  BY <1>1 DEF FaultsAnswered, Clean, Fault, Dropped

(* The steps of the main thread.                                           *)
LEMMA FaultsMain ==
  ASSUME WorldInv, MainStep
  PROVE  FaultsAnswered'
<1> USE DEF WorldInv, FaultsAnswered, Phases, NoFault, Fault, Dropped, Works, Fails, Passes, Over, vars
<1>1. CASE \E p \in Grid : ConvertChunk(p)
  BY <1>1 DEF ConvertChunk
<1>2. CASE Converted \/ Concatenated \/ Lit \/ LastReport
  BY <1>2 DEF Converted, Concatenated, Lit, LastReport
<1>3. CASE Terraformed
  BY <1>3 DEF Terraformed, Returned
<1>4. CASE \E r \in Inner : Concat(r) \/ Light(r)
  BY <1>4 DEF Concat, Light
<1>5. CASE \E r \in Outer : CreateOuterRegion(r)
  BY <1>5 DEF CreateOuterRegion
<1>6. CASE Leave
  BY <1>6 DEF Leave, NoFault, Dropped
<1>7. QED
  BY <1>1, <1>2, <1>3, <1>4, <1>5, <1>6 DEF MainStep

LEMMA TakenMain ==
  ASSUME WorldInv, MainStep
  PROVE  AllTaken'
<1>1. UNCHANGED <<done, at>>
  BY DEF MainStep, ConvertChunk, Converted, Terraformed, Concat, Light, Concatenated, Lit,
         CreateOuterRegion, LastReport, Leave, vars, queue
<1>2. faults' = 0 => faults = 0
  BY DEF WorldInv, FaultsAnswered, MainStep, ConvertChunk, Converted, Terraformed, Concat, Light,
         Concatenated, Lit, CreateOuterRegion, LastReport, Leave, NoFault, Fault, Dropped, Works,
         Fails, Passes
<1>3. QED
  BY <1>1, <1>2 DEF WorldInv, AllTaken

LEMMA ShapesMain ==
  ASSUME WorldInv, MainStep
  PROVE  Shapes'
<1>1. UNCHANGED <<done, present>>
  BY DEF MainStep, ConvertChunk, Converted, Terraformed, Concat, Light, Concatenated, Lit,
         CreateOuterRegion, LastReport, Leave, vars, queue
<1>2. made' \subseteq InnerChunks
  BY DEF WorldInv, Shapes, MainStep, ConvertChunk, Converted, Terraformed, Concat, Light,
         Concatenated, Lit, CreateOuterRegion, LastReport, Leave
<1>3. /\ DOMAIN joined' = Inner /\ DOMAIN out' = Inner
      /\ \A r \in Inner \ present : joined'[r] = {} /\ out'[r] = {}
  BY DEF WorldInv, Shapes, MainStep, ConvertChunk, Converted, Terraformed, Concat, Light,
         Concatenated, Lit, CreateOuterRegion, LastReport, Leave
<1>4. QED
  BY <1>1, <1>2, <1>3 DEF WorldInv, Shapes, InnerChunks

LEMMA ChunksApart == \A r, s : r # s => Chunks(r) \cap Chunks(s) = {}
BY DEF Chunks

(* A region that has no file has no chunks. *)
LEMMA AbsentRegionsEmpty ==
  ASSUME Shapes, NEW r \in Inner \ present
  PROVE  Whole(r) = {}
BY ChunksApart DEF Shapes, Whole, InnerChunks

LEMMA AccountConverts ==
  ASSUME WorldInv, Clean', Account, NEW p \in Grid, ConvertChunk(p)
  PROVE  Account'
<1>1. /\ phase = "convert" /\ phase' = "convert"
      /\ UNCHANGED <<done, lock, at, cell, poi, outer>>
      /\ \/ made' = made \cup {p} /\ file' = [file EXCEPT ![p] = "raw"]
         \/ UNCHANGED <<made, file>>
  BY DEF ConvertChunk, Clean, WorldInv, FaultsAnswered, Works, Fails, Fault, queue
<1>2. /\ InPlaceExact /\ poi = {}
      /\ \A w \in Workers : at[w] = "check"
      /\ \A q \in Cells : ~done[q]
  BY <1>1 DEF Account
<1>3. file \in [Cells -> {"absent", "raw", "writing", "torn", "done"}] /\ Grid = Cells
  BY DEF WorldInv, IInv, TypeInv, Grid, Cells
<1>4. InPlaceExact'
  BY <1>1, <1>2, <1>3 DEF InPlaceExact, CellsExact, ThreadsExact
<1>5. QED
  BY <1>1, <1>2, <1>4 DEF Account

(* When all threads have left without an error every chunk is settled.     *)
LEMMA AllSettled ==
  ASSUME WorldInv, faults = 0, InPlaceExact, Returned
  PROVE  /\ poi = made
         /\ \A p \in Cells : file[p] = IF p \in made THEN "done" ELSE "absent"
<1>1. 1 \in Workers
  BY LegacyAssumption DEF Workers
<1>2. \A p \in Cells : done[p]
  BY <1>1 DEF WorldInv, AllTaken, Returned
<1>3. \A p \in Cells, w \in Workers : ~HeldBy(w, p)
  BY DEF HeldBy, HasFile, Returned
<1>4. \A p \in Cells : p \in made => file[p] = "done" /\ p \in poi
  BY <1>2, <1>3 DEF InPlaceExact, CellsExact
<1>5. made \subseteq Cells
  BY DEF WorldInv, Shapes, InnerChunks, Chunks, Grid, Cells
<1>6. QED
  BY <1>4, <1>5 DEF InPlaceExact, CellsExact

LEMMA AccountPasses ==
  ASSUME WorldInv, Clean', Clean, Account,
         Converted \/ Terraformed \/ Concatenated \/ Lit \/ LastReport \/ Leave
  PROVE  Account'
<1>1. CASE Converted
  <2>1. /\ phase = "convert" /\ phase' = "terraform"
        /\ UNCHANGED <<done, lock, at, cell, file, poi, made, outer>>
    BY <1>1 DEF Converted, vars, queue
  <2>2. InPlaceExact'
    BY <2>1 DEF Account, InPlaceExact, CellsExact, ThreadsExact, HeldBy
  <2>3. QED
    BY <2>1, <2>2 DEF Account
<1>2. CASE Terraformed
  <2>1. /\ phase = "terraform" /\ phase' = "concat" /\ Returned /\ worked' = {}
        /\ UNCHANGED <<file, poi, made, present, outer>>
    BY <1>2 DEF Terraformed, Passes, Fault, Clean, WorldInv, FaultsAnswered, vars
  <2>2. poi = made /\ \A p \in Cells : file[p] = IF p \in made THEN "done" ELSE "absent"
    BY <2>1, AllSettled DEF Account, Clean
  <2>3. \A r : Chunks(r) \subseteq Cells
    BY DEF Chunks, Grid, Cells
  <2>4. QED
    BY <2>1, <2>2, <2>3 DEF Account
<1>3. CASE Concatenated
  <2>1. /\ phase = "concat" /\ phase' = "lighting" /\ worked = present /\ worked' = {}
        /\ UNCHANGED <<poi, made, present, joined, outer>>
    BY <1>3 DEF Concatenated, Passes, Fault, Clean, WorldInv, FaultsAnswered, vars
  <2>2. QED
    BY <2>1 DEF Account, Whole
<1>4. CASE Lit
  <2>1. /\ phase = "lighting" /\ phase' = "outer" /\ worked = present /\ worked' = {}
        /\ joinedDir' = FALSE
        /\ UNCHANGED <<poi, made, present, out, outer>>
    BY <1>4 DEF Lit, Dropped, Clean, WorldInv, FaultsAnswered, vars
  <2>2. \A r \in Inner : out[r] = Whole(r)
    BY <2>1, AbsentRegionsEmpty DEF Account, WorldInv, Shapes
  <2>3. outer = {}
    BY <2>1 DEF Account
  <2>4. QED
    BY <2>1, <2>2, <2>3 DEF Account, Whole
<1>5. CASE LastReport
  <2>1. /\ phase = "outer" /\ phase' = "leaving" /\ worked = Outer
        /\ UNCHANGED <<poi, made, out, outer, joinedDir>>
    BY <1>5 DEF LastReport, Passes, Fault, Clean, WorldInv, FaultsAnswered, vars
  <2>2. outer = Outer
    BY <2>1 DEF Account
  <2>3. QED
    BY <2>1, <2>2 DEF Account, Whole
<1>6. CASE Leave
  <2>1. /\ phase = "leaving" /\ phase' = "ok"
        /\ UNCHANGED <<poi, made, out, outer, joinedDir>>
    BY <1>6 DEF Leave, Clean, WorldInv, FaultsAnswered
  <2>2. QED
    BY <2>1 DEF Account, Whole
<1>7. QED
  BY <1>1, <1>2, <1>3, <1>4, <1>5, <1>6

(* A region's file gets its own chunks, and only these leave the temporary *)
(* directory.                                                              *)
LEMMA AccountConcats ==
  ASSUME WorldInv, Clean', Account, NEW r \in Inner, Concat(r)
  PROVE  Account'
<1>1. /\ phase = "concat" /\ phase' = "concat" /\ r \in present \ worked
      /\ worked' = worked \cup {r}
      /\ joined' = [joined EXCEPT ![r] =
                      {<<p, file[p]>> : p \in {q \in Chunks(r) : file[q] # "absent"}}]
      /\ file' = [p \in Grid |-> IF p \in Chunks(r) THEN "absent" ELSE file[p]]
      /\ UNCHANGED <<poi, made, present, outer>>
  BY DEF Concat, Works, Fails, Fault, Clean, WorldInv, FaultsAnswered
<1>2. joined'[r] = Whole(r)
  <2>1. \A p \in Chunks(r) : file[p] = IF p \in made THEN "done" ELSE "absent"
    BY <1>1 DEF Account
  <2>2. {<<p, file[p]>> : p \in {q \in Chunks(r) : file[q] # "absent"}} = Whole(r)
    BY <2>1 DEF Whole
  <2>3. QED
    BY <1>1, <2>2 DEF WorldInv, Shapes
<1>3. ASSUME NEW s \in present, s # r
      PROVE  /\ joined'[s] = joined[s]
             /\ \A p \in Chunks(s) : file'[p] = file[p]
  BY <1>1, <1>3, ChunksApart DEF WorldInv, Shapes, Chunks
<1>4. QED
  BY <1>1, <1>2, <1>3 DEF Account, Whole

LEMMA AccountLights ==
  ASSUME WorldInv, Clean', Account, NEW r \in Inner, Light(r)
  PROVE  Account'
<1>1. /\ phase = "lighting" /\ phase' = "lighting" /\ r \in present
      /\ worked' = worked \cup {r} /\ out' = [out EXCEPT ![r] = joined[r]]
      /\ UNCHANGED <<poi, made, present, joined, outer>>
  BY DEF Light, Works, Fails, Fault, Dropped, Clean, WorldInv, FaultsAnswered, vars
<1>2. \A s \in present : out'[s] = IF s = r THEN joined[r] ELSE out[s]
  BY <1>1 DEF WorldInv, Shapes
<1>3. QED
  BY <1>1, <1>2 DEF Account, Whole

LEMMA AccountOuter ==
  ASSUME WorldInv, Clean', Account, NEW r \in Outer, CreateOuterRegion(r)
  PROVE  Account'
<1>1. /\ phase = "outer" /\ phase' = "outer" /\ worked' = worked \cup {r} /\ outer' = outer \cup {r}
      /\ UNCHANGED <<poi, made, out, joinedDir>>
  BY DEF CreateOuterRegion, Works, Fails, Fault, Clean, WorldInv, FaultsAnswered, vars
<1>2. QED
  BY <1>1 DEF Account, Whole

-------------------------------------------------------------------------------
(* The steps of a thread.                                                  *)

LEMMA ThreadFaults ==
  ASSUME WorldInv, NEW w \in Workers, Terraform(w)
  PROVE  /\ faults' \in Nat /\ dropped' \in Nat /\ ok' \in BOOLEAN
         /\ faults' = faults \/ faults' # 0
         /\ faults' = 0 => faults = 0
<1>1. faults \in Nat /\ dropped \in Nat /\ ok \in BOOLEAN
  BY DEF WorldInv, FaultsAnswered
<1>2. NoFault \/ Fault \/ Dropped
  BY DEF Terraform
<1>3. ok' = ok \/ ok' = FALSE
  <2>1. ASSUME NEW proceed \in BOOLEAN, Report(w, proceed) PROVE ok' = ok \/ ok' = FALSE
    BY <1>1, <2>1 DEF Report
  <2>2. QED
    BY <2>1 DEF Terraform, Check, Next, Read, BeginWrite, EndWrite, Merge, Fail, Unlock, PassOver,
       Malformed
<1>4. UNCHANGED faults \/ faults' = faults + 1
  BY <1>2 DEF NoFault, Fault, Dropped
<1>5. UNCHANGED dropped \/ dropped' = dropped + 1
  BY <1>2 DEF NoFault, Fault, Dropped
<1>6. ok' \in BOOLEAN
  BY <1>1, <1>3
<1>7. faults \in Nat /\ dropped \in Nat
  BY <1>1
<1>8. QED
  BY <1>4, <1>5, <1>6, <1>7

LEMMA FaultsThread ==
  ASSUME WorldInv, NEW w \in Workers, Terraform(w)
  PROVE  FaultsAnswered'
<1> USE DEF Goes
<1>0. FaultsAnswered /\ DOMAIN at = Workers
  BY DEF WorldInv, IInv, TypeInv
<1>1. phase = "terraform" /\ phase' = phase /\ temp' = temp
  BY DEF Terraform, world
<1>2. faults' \in Nat /\ dropped' \in Nat /\ ok' \in BOOLEAN
  BY ThreadFaults
<1>3. CASE (Malformed(w) \/ EndWrite(w, FALSE)) /\ Fault
  <2>1. at'[w] = "fail"
    BY <1>0, <1>3 DEF Malformed, EndWrite
  <2>2. faults' # 0
    BY <1>0, <1>3 DEF Fault, FaultsAnswered
  <2>3. QED
    BY <1>1, <1>2, <2>1, <2>2 DEF FaultsAnswered, Phases, Over
<1>4. CASE Report(w, FALSE) /\ Fault
  <2>1. ok' = FALSE
    BY <1>4 DEF Report
  <2>2. faults' # 0
    BY <1>0, <1>4 DEF Fault, FaultsAnswered
  <2>3. QED
    BY <1>1, <1>2, <2>1, <2>2 DEF FaultsAnswered, Phases, Over
<1>5. CASE /\ \/ Check(w) \/ Next(w) \/ Read(w) \/ BeginWrite(w) \/ EndWrite(w, TRUE)
              \/ Merge(w) \/ Unlock(w) \/ Report(w, TRUE) \/ PassOver(w)
           /\ NoFault \/ Dropped
  <2>1. ok' = ok
    <3>1. CASE Report(w, TRUE)
      BY <1>0, <3>1 DEF Report, FaultsAnswered
    <3>2. QED
      BY <1>5, <3>1 DEF Check, Next, Read, BeginWrite, EndWrite, Merge, Unlock, PassOver
  <2>2. \A v \in Workers : at'[v] = "fail" <=> at[v] = "fail"
    BY <1>0, <1>5 DEF Check, Next, Read, BeginWrite, EndWrite, Merge, Unlock, Report, PassOver
  <2>3. faults' = faults
    BY <1>5 DEF NoFault, Dropped
  <2>4. QED
    BY <1>0, <1>1, <1>2, <2>1, <2>2, <2>3 DEF FaultsAnswered, Phases, Over
<1>6. CASE Fail(w) /\ NoFault
  <2>1. at[w] = "fail" /\ ok' = FALSE /\ faults' = faults
    BY <1>6 DEF Fail, NoFault
  <2>2. QED
    BY <1>0, <1>1, <1>2, <2>1 DEF FaultsAnswered, Phases, Over
<1>7. QED
  BY <1>3, <1>4, <1>5, <1>6 DEF Terraform

LEMMA TakenThread ==
  ASSUME WorldInv, NEW w \in Workers, Terraform(w)
  PROVE  AllTaken'
<1> USE DEF Goes
<1>0. DOMAIN at = Workers /\ done \in [Cells -> BOOLEAN] /\ AllTaken /\ FaultsAnswered
  BY DEF WorldInv, IInv, TypeInv, Shapes
<1>1. \A p \in Cells : done[p] => done'[p]
  BY <1>0 DEF Terraform, Check, Next, Read, BeginWrite, EndWrite, Merge, Fail, Unlock, Report,
     PassOver, Malformed, AfterSuccess, AfterFailure, Queue!UnlockAround, Queue!Dequeue, Queue!Wait,
     queue
<1>2. ASSUME faults' = 0, at'[w] = "left" PROVE \A p \in Cells : done'[p]
  <2>1. faults = 0 /\ (NoFault \/ Dropped)
    <3>1. ~Fault
      BY <1>0, <1>2 DEF Fault, FaultsAnswered
    <3>2. QED
      BY <1>2, <3>1, ThreadFaults DEF Terraform
  <2>2. ok /\ at[w] # "fail" /\ ~Fault
    BY <1>0, <1>2, <2>1 DEF FaultsAnswered, Fault
  <2>3. Next(w)
    BY <1>0, <1>2, <2>2 DEF Terraform, Check, Read, BeginWrite, EndWrite, Merge, Fail, Unlock, Report,
       PassOver
  <2>4. QED
    BY <1>0, <1>2, <2>3 DEF Next, Queue!Wait, Queue!Remaining, Cells
<1>3. \A v \in Workers \ {w} : at'[v] = at[v]
  BY <1>0 DEF Terraform, Check, Next, Read, BeginWrite, EndWrite, Merge, Fail, Unlock, Report,
     PassOver, Malformed
<1>4. QED
  BY <1>0, <1>1, <1>2, <1>3, ThreadFaults DEF AllTaken

LEMMA ShapesThread ==
  ASSUME WorldInv, NEW w \in Workers, Terraform(w)
  PROVE  Shapes'
<1>1. UNCHANGED <<joined, out, present, made>>
  BY DEF Terraform, world
<1>2. done' \in [Cells -> BOOLEAN]
  BY DEF WorldInv, Shapes, Terraform, Check, Next, Read, BeginWrite, EndWrite, Merge, Fail, Unlock,
         Report, PassOver, Malformed, AfterSuccess, AfterFailure, Queue!UnlockAround, Queue!Dequeue,
         Queue!Wait, queue
<1>3. QED
  BY <1>1, <1>2 DEF WorldInv, Shapes, InnerChunks

(* No two threads have taken the same chunk. *)
LEMMA OwnCell ==
  ASSUME IInv, NEW v \in Workers, NEW w \in Workers, v # w, AtWork(v), AtWork(w)
  PROVE  cell[v] # cell[w]
<1>1. cell[v] \in Cells
  BY DEF IInv, TypeInv
<1>2. QED
  BY <1>1, InItsHood DEF IInv, HoodsApart

(* A thread that has no chunk in hand, before and after. *)
LEMMA IdleKeeps ==
  ASSUME IInv, InPlaceExact, NEW w \in Workers, NEW to, at' = [at EXCEPT ![w] = to],
         at[w] \notin HasFile, to \notin HasFile, UNCHANGED <<done, cell, file, poi, made>>
  PROVE  InPlaceExact'
<1>1. \A v \in Workers : at'[v] = IF v = w THEN to ELSE at[v]
  BY DEF IInv, TypeInv
<1>2. \A v \in Workers : \A p : HeldBy(v, p)' <=> HeldBy(v, p)
  BY <1>1 DEF HeldBy, HasFile
<1>3. QED
  BY <1>1, <1>2 DEF InPlaceExact, CellsExact, ThreadsExact, HasFile

LEMMA ReadKeeps ==
  ASSUME IInv, InPlaceExact, NEW w \in Workers, Read(w), UNCHANGED made
  PROVE  InPlaceExact'
<1>1. \A v \in Workers : at'[v] = IF v = w THEN "terraform" ELSE at[v]
  BY DEF Read, Goes, IInv, TypeInv
<1>2. cell[w] \in Cells /\ at[w] = "read" /\ file[cell[w]] # "absent"
      /\ UNCHANGED <<done, cell, file, poi>>
  BY DEF Read, Goes, IInv, TypeInv, AtWork, queue
<1>3. cell[w] \in made /\ file[cell[w]] = "raw"
  BY <1>2 DEF InPlaceExact, CellsExact, ThreadsExact, HasFile
<1>4. \A v \in Workers : \A p : HeldBy(v, p)' <=> HeldBy(v, p)
  BY <1>1, <1>2 DEF HeldBy, HasFile
<1>5. QED
  BY <1>1, <1>2, <1>3, <1>4 DEF InPlaceExact, CellsExact, ThreadsExact, HasFile

(* Only a chunk that does not exist is passed over. *)
LEMMA PassOverKeeps ==
  ASSUME IInv, InPlaceExact, NEW w \in Workers, Absent(w), PassOver(w), UNCHANGED made
  PROVE  InPlaceExact'
<1>1. \A v \in Workers : at'[v] = IF v = w THEN "unlock" ELSE at[v]
  BY DEF PassOver, Goes, IInv, TypeInv
<1>2. at[w] = "read" /\ file[cell[w]] = "absent" /\ UNCHANGED <<done, cell, file, poi>>
  BY DEF PassOver, Absent, Goes, queue
<1>3. cell[w] \notin made
  BY <1>2 DEF InPlaceExact, ThreadsExact, HasFile
<1>4. \A v \in Workers, p \in made : HeldBy(v, p)' <=> HeldBy(v, p)
  BY <1>1, <1>2, <1>3 DEF HeldBy, HasFile
<1>5. QED
  BY <1>1, <1>2, <1>4 DEF InPlaceExact, CellsExact, ThreadsExact, HasFile

LEMMA DequeueKeeps ==
  ASSUME IInv, Shapes, InPlaceExact, NEW w \in Workers, NEW p \in Cells, Queue!Dequeue(p),
         Goes(w, "next", "read"), cell' = [cell EXCEPT ![w] = p], UNCHANGED <<file, poi, made>>
  PROVE  InPlaceExact'
<1>1. \A v \in Workers : at'[v] = IF v = w THEN "read" ELSE at[v]
  BY DEF Goes, IInv, TypeInv
<1>2. \A v \in Workers : cell'[v] = IF v = w THEN p ELSE cell[v]
  BY DEF IInv, TypeInv
<1>3. at[w] = "next" /\ ~done[p] /\ \A q \in Cells : done'[q] = IF q = p THEN TRUE ELSE done[q]
  BY DEF Goes, Queue!Dequeue, Queue!First, Queue!Free, Queue!Remaining, Shapes
<1>4. \A v \in Workers : \A q : HeldBy(v, q) => HeldBy(v, q)'
  BY <1>1, <1>2, <1>3 DEF HeldBy, HasFile
<1>5. HeldBy(w, p)'
  BY <1>1, <1>2 DEF HeldBy, HasFile
<1>6. file[p] = IF p \in made THEN "raw" ELSE "absent"
  BY <1>3 DEF InPlaceExact, CellsExact
<1>7. CellsExact'
  BY <1>3, <1>4, <1>5 DEF InPlaceExact, CellsExact
<1>8. ThreadsExact'
  <2>1. ASSUME NEW v \in Workers \ {w}, at[v] \in HasFile PROVE done'[cell[v]]
    <3>1. cell[v] \in Cells /\ done[cell[v]]
      BY <2>1 DEF IInv, TypeInv, AtWork, HasFile, InPlaceExact, ThreadsExact
    <3>2. QED
      BY <1>3, <3>1
  <2>2. \A v \in Workers \ {w} : at'[v] = at[v] /\ cell'[v] = cell[v]
    BY <1>1, <1>2
  <2>3. /\ at'[w] = "read" /\ done'[cell'[w]]
        /\ file'[cell'[w]] = IF p \in made THEN "raw" ELSE "absent"
    BY <1>1, <1>2, <1>3, <1>6
  <2>4. cell'[w] = p
    BY <1>2
  <2>5. QED
    BY <2>1, <2>2, <2>3, <2>4 DEF InPlaceExact, ThreadsExact, HasFile
<1>9. QED
  BY <1>7, <1>8 DEF InPlaceExact

(* A thread changes the file of its own chunk, and no one else's.          *)
LEMMA OwnFileKeeps ==
  ASSUME IInv, InPlaceExact, NEW w \in Workers,
         NEW to \in {"write", "merge"}, NEW state \in {"writing", "done"},
         to = "write" => at[w] = "terraform" /\ state = "writing",
         to = "merge" => at[w] = "write" /\ state = "done",
         at' = [at EXCEPT ![w] = to], file' = [file EXCEPT ![cell[w]] = state],
         UNCHANGED <<done, cell, poi, made>>
  PROVE  InPlaceExact'
<1>1. \A v \in Workers : at'[v] = IF v = w THEN to ELSE at[v]
  BY DEF IInv, TypeInv
<1>2. AtWork(w) /\ cell[w] \in Cells /\ cell[w] \in made
  BY DEF IInv, TypeInv, AtWork, InPlaceExact, ThreadsExact
<1>3. \A p \in Cells : file'[p] = IF p = cell[w] THEN state ELSE file[p]
  BY <1>2 DEF IInv, TypeInv
<1>4. \A v \in Workers : \A p : HeldBy(v, p)' <=> HeldBy(v, p)
  BY <1>1 DEF HeldBy, HasFile
<1>5. HeldBy(w, cell[w])' /\ done[cell[w]]
  BY <1>1, <1>2 DEF HeldBy, HasFile, InPlaceExact, ThreadsExact
<1>6. \A v \in Workers \ {w} : AtWork(v) => cell[v] \in Cells /\ file'[cell[v]] = file[cell[v]]
  BY <1>2, <1>3, OwnCell DEF IInv, TypeInv
<1>7. ThreadsExact'
  BY <1>1, <1>2, <1>3, <1>6 DEF InPlaceExact, ThreadsExact, AtWork, HasFile
<1>8. CellsExact'
  BY <1>2, <1>3, <1>4, <1>5 DEF InPlaceExact, CellsExact
<1>9. QED
  BY <1>7, <1>8 DEF InPlaceExact

LEMMA MergeKeeps ==
  ASSUME IInv, InPlaceExact, NEW w \in Workers, Merge(w), UNCHANGED made
  PROVE  InPlaceExact'
<1>1. \A v \in Workers : at'[v] = IF v = w THEN "unlock" ELSE at[v]
  BY DEF Merge, Goes, IInv, TypeInv
<1>2. /\ at[w] = "merge" /\ poi' = poi \cup {cell[w]}
      /\ UNCHANGED <<done, cell, file>>
  BY DEF Merge, Goes, queue
<1>3. cell[w] \in made /\ file[cell[w]] = "done"
  BY <1>2 DEF InPlaceExact, ThreadsExact
<1>4. \A v \in Workers : \A p : HeldBy(v, p) => HeldBy(v, p)' \/ p = cell[w]
  BY <1>1, <1>2 DEF HeldBy
<1>5. CellsExact'
  BY <1>2, <1>3, <1>4 DEF InPlaceExact, CellsExact
<1>6. ThreadsExact'
  BY <1>1, <1>2 DEF InPlaceExact, ThreadsExact, HasFile
<1>7. QED
  BY <1>2, <1>3, <1>5, <1>6 DEF InPlaceExact

LEMMA AccountThread ==
  ASSUME WorldInv, Clean', Clean, Account, NEW w \in Workers, Terraform(w)
  PROVE  Account'
<1>1. phase = "terraform" /\ UNCHANGED <<phase, made, outer>> /\ InPlaceExact /\ outer = {}
  BY DEF Terraform, world, Account
<1> SUFFICES InPlaceExact'
  BY <1>1 DEF Account
<1>2. IInv /\ Shapes /\ at[w] # "fail"
  BY DEF WorldInv, FaultsAnswered, Clean
<1>3. ~Fault /\ ~Dropped
  BY DEF Fault, Dropped, Clean, WorldInv, FaultsAnswered
<1>4. CASE Check(w) \/ Unlock(w) \/ Report(w, TRUE)
  BY <1>1, <1>2, <1>4, IdleKeeps DEF Check, Unlock, AfterSuccess, Queue!UnlockAround, Report, Goes,
     HasFile, queue
<1>5. CASE Next(w)
  <2>1. CASE \E p \in Queue!Cells :
               Queue!Dequeue(p) /\ Goes(w, "next", "read") /\ cell' = [cell EXCEPT ![w] = p]
    BY <1>1, <1>2, <1>5, <2>1, DequeueKeeps DEF Next, Cells
  <2>2. CASE /\ Queue!Wait
             /\ Goes(w, "next", IF Queue!Remaining = {} THEN "left" ELSE "check")
             /\ UNCHANGED cell
    BY <1>1, <1>2, <1>5, <2>2, IdleKeeps DEF Next, Queue!Wait, Goes, HasFile
  <2>3. QED
    BY <1>5, <2>1, <2>2 DEF Next
<1>6. CASE Read(w) \/ Merge(w) \/ (Absent(w) /\ PassOver(w))
  BY <1>1, <1>2, <1>6, ReadKeeps, MergeKeeps, PassOverKeeps
<1>7. CASE BeginWrite(w) \/ EndWrite(w, TRUE)
  <2>1. CASE BeginWrite(w)
    <3>1. /\ at[w] = "terraform" /\ at' = [at EXCEPT ![w] = "write"]
          /\ file' = [file EXCEPT ![cell[w]] = "writing"]
          /\ UNCHANGED <<done, cell, poi>>
      BY <2>1 DEF BeginWrite, Goes, queue
    <3>2. QED
      BY <1>1, <1>2, <3>1, OwnFileKeeps
  <2>2. CASE EndWrite(w, TRUE)
    <3>1. /\ at[w] = "write" /\ at' = [at EXCEPT ![w] = "merge"]
          /\ file' = [file EXCEPT ![cell[w]] = "done"]
          /\ UNCHANGED <<done, cell, poi>>
      BY <2>2 DEF EndWrite, Goes, queue
    <3>2. QED
      BY <1>1, <1>2, <3>1, OwnFileKeeps
  <2>3. QED
    BY <1>7, <2>1, <2>2
<1>8. CASE Fail(w)
  BY <1>2, <1>8 DEF Fail, Goes
<1>9. QED
  BY <1>3, <1>4, <1>5, <1>6, <1>7, <1>8 DEF Terraform

LEMMA WorldStep == WorldInv /\ [WorldNext]_worldVars => WorldInv'
<1> SUFFICES ASSUME WorldInv, [WorldNext]_worldVars PROVE WorldInv'
  OBVIOUS
<1>1. IInv'
  BY NextInvariant DEF WorldInv
<1>2. Clean' => Clean /\ Account
  BY CleanBefore DEF WorldInv
<1>3. CASE MainStep
  BY <1>1, <1>2, <1>3, FaultsMain, TakenMain, ShapesMain, AccountConverts, AccountPasses,
     AccountConcats, AccountLights, AccountOuter DEF WorldInv, MainStep
<1>4. ASSUME NEW w \in Workers, Terraform(w) PROVE WorldInv'
  BY <1>1, <1>2, <1>4, FaultsThread, TakenThread, ShapesThread, AccountThread DEF WorldInv
<1>5. CASE UNCHANGED worldVars
  <2>1. FaultsAnswered' /\ AllTaken' /\ Shapes'
    BY <1>5 DEF WorldInv, FaultsAnswered, AllTaken, Shapes, InnerChunks, Over, worldVars, world, vars,
       queue
  <2>2. Clean' => Account'
    BY <1>2, <1>5 DEF Account, InPlaceExact, CellsExact, ThreadsExact, HeldBy, Whole, worldVars, world,
       vars, queue
  <2>3. QED
    BY <1>1, <2>1, <2>2 DEF WorldInv
<1>6. QED
  BY <1>3, <1>4, <1>5 DEF WorldNext

(* Convert answers Ok exactly when nothing it looks at has failed and      *)
(* nobody has cancelled; then, unless a failure was dropped, every chunk   *)
(* is in its region, terraformed, and all else is there.  On every way out *)
(* the temporary directory is gone, unless a failure was dropped.          *)
THEOREM WorldExactCorrect == Spec => []WorldExact
BY WorldInit, WorldStep, WorldSuffices, PTL DEF Spec

===============================================================================
