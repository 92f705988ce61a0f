-------------------------------- MODULE Queue2d --------------------------------
(***************************************************************************)
(* Queue2d: tasks on a grid.  A task is handed out only when no cell       *)
(* within LockRadius of it is locked, and locks these cells.  next()       *)
(* searches the grid for the free task with the heaviest surroundings.     *)
(* The program uses it for one terraform pass, as Queue2d<1, false>: every *)
(* cell is a task from the start and markTask, which gives weights, is not *)
(* called (nor is the heap that serves radius 0 in the tests ever used),   *)
(* so of the free tasks the first in the grid is taken.                    *)
(***************************************************************************)
EXTENDS Integers

CONSTANTS Width, Height, LockRadius

VARIABLES done, lock

Cells == (0..Width-1) \X (0..Height-1)

Index(p) == p[2] * Width + p[1]

Around(p) == {q \in Cells : \A i \in 1..2 : q[i] - p[i] \in -LockRadius..LockRadius}

Init ==
  /\ done = [p \in Cells |-> FALSE]
  /\ lock = [p \in Cells |-> FALSE]

Remaining == {p \in Cells : ~done[p]}

Free == {p \in Remaining : \A q \in Around(p) : ~lock[q]}

First == {p \in Free : \A q \in Free : Index(p) <= Index(q)}

(* next(): a task, or none, which is Busy as long as some remain. *)
Dequeue(p) ==
  /\ p \in First
  /\ done' = [done EXCEPT ![p] = TRUE]
  /\ lock' = [q \in Cells |-> lock[q] \/ q \in Around(p)]

Wait == Free = {} /\ UNCHANGED <<done, lock>>

UnlockAround(p) ==
  /\ lock' = [q \in Cells |-> lock[q] /\ q \notin Around(p)]
  /\ UNCHANGED done

===============================================================================
