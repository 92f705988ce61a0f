---------------------------- MODULE LegacyTerraform ----------------------------
(***************************************************************************)
(* lce::Terraform: threads take chunks from a Queue2d, rewrite each one's  *)
(* file in place after reading those of its eight neighbours, and collect  *)
(* points of interest.  Only the locks of the queue keep a thread from     *)
(* reading a file that another one is writing.                             *)
(***************************************************************************)
EXTENDS Integers

CONSTANTS Width, Height, Concurrency

ASSUME LegacyAssumption == Width \in Nat /\ Height \in Nat /\ Concurrency \in Nat

VARIABLES
  done, lock,   \* the queue
  file,     \* of each chunk: "absent", "raw", "writing", "torn" or "done"
  ok,       \* atomic_bool: go on
  at,       \* where each thread is
  cell,     \* the chunk it has taken
  poi       \* the chunks whose points of interest are collected

queue == <<done, lock>>
vars == <<queue, file, ok, at, cell, poi>>

Queue == INSTANCE Queue2d WITH LockRadius <- 1

(* The caller is one of them. *)
Workers == 1..(IF Concurrency = 0 THEN 1 ELSE Concurrency)

InitThreads ==
  /\ Queue!Init
  /\ ok = TRUE
  /\ at = [w \in Workers |-> "check"]
  /\ cell = [w \in Workers |-> <<>>]
  /\ poi = {}

Goes(w, from, to) == at[w] = from /\ at' = [at EXCEPT ![w] = to]

-------------------------------------------------------------------------------
(* Faulty variants of the definitions below, each a bug that a property    *)
(* must catch.                                                             *)
UnlocksFirst(w) == Queue!UnlockAround(cell[w])

LeavesLocked(w) == UNCHANGED queue

CallerReturns == at[1] = "left"

(* while (ok) *)
Check(w) ==
  /\ Goes(w, "check", IF ok THEN "next" ELSE "left")
  /\ UNCHANGED <<queue, file, ok, cell, poi>>

(* queue.next(); a thread that gets Busy sleeps and looks again. *)
Next(w) ==
  /\ \/ \E p \in Queue!Cells :
          /\ Queue!Dequeue(p)
          /\ Goes(w, "next", "read")
          /\ cell' = [cell EXCEPT ![w] = p]
     \/ /\ Queue!Wait
        /\ Goes(w, "next", IF Queue!Remaining = {} THEN "left" ELSE "check")
        /\ UNCHANGED cell
  /\ UNCHANGED <<file, ok, poi>>

(* DoChunk: a file that cannot be read is passed over like one that does   *)
(* not exist; one that is no chunk is an error.                            *)
Read(w) ==
  /\ at[w] = "read" /\ file[cell[w]] # "absent"
  /\ Goes(w, "read", "terraform")
  /\ UNCHANGED <<queue, file, ok, cell, poi>>

PassOver(w) ==
  /\ Goes(w, "read", "unlock")
  /\ UNCHANGED <<queue, file, ok, cell, poi>>

Malformed(w) ==
  /\ at[w] = "read" /\ file[cell[w]] # "absent"
  /\ Goes(w, "read", "fail")
  /\ UNCHANGED <<queue, file, ok, cell, poi>>

(* The passes over the chunk, which load neighbours as they need them, are *)
(* over, and the output is opened.                                         *)
BeginWrite(w) ==
  /\ Goes(w, "terraform", "write")
  /\ file' = [file EXCEPT ![cell[w]] = "writing"]
  /\ UNCHANGED <<queue, ok, cell, poi>>

EndWrite(w, good) ==
  /\ Goes(w, "write", IF good THEN "merge" ELSE "fail")
  /\ file' = [file EXCEPT ![cell[w]] = IF good THEN "done" ELSE "torn"]
  /\ UNCHANGED <<queue, ok, cell, poi>>

(* result->fPoi.mergeInto(poi), under joinMut *)
Merge(w) ==
  /\ Goes(w, "merge", "unlock")
  /\ poi' = poi \cup {cell[w]}
  /\ UNCHANGED <<queue, file, ok, cell>>

(* A failing chunk stays locked. *)
AfterFailure(w) == UNCHANGED queue

Fail(w) ==
  /\ Goes(w, "fail", "left")
  /\ ok' = FALSE
  /\ AfterFailure(w)
  /\ UNCHANGED <<file, cell, poi>>

AfterSuccess(w) == Queue!UnlockAround(cell[w])

Unlock(w) ==
  /\ Goes(w, "unlock", "report")
  /\ AfterSuccess(w)
  /\ UNCHANGED <<file, ok, cell, poi>>

Report(w, proceed) ==
  /\ Goes(w, "report", IF proceed THEN "check" ELSE "left")
  /\ ok' = (ok /\ proceed)
  /\ UNCHANGED <<queue, file, cell, poi>>

Returned == \A w \in Workers : at[w] = "left"

-------------------------------------------------------------------------------
(* While a thread works on a chunk, no other one writes a file of its      *)
(* neighbourhood, and none of them is what a failed write has left: the    *)
(* accessor would take either for a chunk that does not exist.             *)
NeighboursWhole ==
  \A w \in Workers : at[w] = "terraform" =>
    \A q \in Queue!Around(cell[w]) : file[q] \notin {"writing", "torn"}

===============================================================================
