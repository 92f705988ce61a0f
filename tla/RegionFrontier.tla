---------------------------- MODULE RegionFrontier ----------------------------
(***************************************************************************)
(* What TerraformRegionScheduler promises, without counters: a region is   *)
(* handed out for terraforming by the call that converts the last region   *)
(* of its neighbourhood, and released by the call that completes the last  *)
(* region that reads it.  A call that makes no sense is refused and        *)
(* changes nothing.                                                        *)
(***************************************************************************)
EXTENDS RegionGrid

CONSTANT Strangers   \* positions outside the dimension that a caller may name

VARIABLES
  converted,   \* the regions markConverted accepted
  completed,   \* the regions markCompleted accepted
  reply        \* the last call and what it returned

vars == <<converted, completed, reply>>

Answer(call, r, regions) ==
  [call |-> call, region |-> r, ok |-> TRUE, regions |-> regions]

Refusal(call, r) ==
  [call |-> call, region |-> r, ok |-> FALSE, regions |-> {}]

(* Faulty variants of the two definitions below, each a bug that a         *)
(* property of the pipeline must catch: the region's own file taken for    *)
(* enough, every target handed out again, nothing or everything released.  *)
ReadyAlone(r) == {r}

ReadyAgain(r) == Hood(r)

ReleasableNever(r) == {}

ReleasableAtOnce(r) == Hood(r)

(* The targets whose last source is r, and the sources whose last reader   *)
(* is r.                                                                   *)
Ready(r) == {t \in Hood(r) : Hood(t) \subseteq converted \cup {r}}

Releasable(r) == {t \in Hood(r) : Hood(t) \subseteq completed \cup {r}}

Init ==
  /\ converted = {}
  /\ completed = {}
  /\ reply \in [call : {"none"}, region : Regions \cup Strangers,
                ok : {TRUE}, regions : {{}}]

Convert(r) ==
  /\ r \in Regions \ converted
  /\ converted' = converted \cup {r}
  /\ reply' = Answer("markConverted", r, Ready(r))
  /\ UNCHANGED completed

Complete(r) ==
  /\ r \in Regions \ completed
  /\ Hood(r) \subseteq converted
  /\ completed' = completed \cup {r}
  /\ reply' = Answer("markCompleted", r, Releasable(r))
  /\ UNCHANGED converted

RefuseConvert(r) ==
  /\ r \notin Regions \ converted
  /\ reply' = Refusal("markConverted", r)
  /\ UNCHANGED <<converted, completed>>

RefuseComplete(r) ==
  /\ r \notin Regions \ completed \/ ~(Hood(r) \subseteq converted)
  /\ reply' = Refusal("markCompleted", r)
  /\ UNCHANGED <<converted, completed>>

Next ==
  \E r \in Regions \cup Strangers :
    \/ Convert(r)
    \/ Complete(r)
    \/ RefuseConvert(r)
    \/ RefuseComplete(r)

Spec == Init /\ [][Next]_vars

===============================================================================
