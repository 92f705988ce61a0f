--------------------------- MODULE ParallelContract ---------------------------
(***************************************************************************)
(* What Parallel::Reduce and Parallel::Map promise their callers: works    *)
(* run in any order, each at most once; the call returns once, with the    *)
(* joined results of exactly the works that ran, and either all works ran  *)
(* and the status is Ok, or the status is the error of a work that failed. *)
(***************************************************************************)
EXTENDS Integers

CONSTANT N   \* works.size()

VARIABLES
  ran,      \* the works func was called for
  bad,      \* those among them for which it returned an error
  answer    \* {} until the call returns its pair (or its status and output)

vars == <<ran, bad, answer>>

Works == 0..N-1

Init ==
  /\ ran = {}
  /\ bad = {}
  /\ answer = {}

Run(i) ==
  /\ answer = {}
  /\ i \in Works \ ran
  /\ ran' = ran \cup {i}
  /\ bad' \in {bad, bad \cup {i}}
  /\ UNCHANGED answer

Return ==
  /\ answer = {}
  /\ \E error \in IF bad = {} THEN {{}} ELSE {{b} : b \in bad} :
       /\ error = {} => ran = Works
       /\ answer' = {[total |-> ran, status |-> error]}
  /\ UNCHANGED <<ran, bad>>

Next == Return \/ \E i \in Works : Run(i)

Spec == Init /\ [][Next]_vars

===============================================================================
