-------------------------------- MODULE BulkStore --------------------------------
(***************************************************************************)
(* What ConcurrentDb promises: records are collected, and closing it makes *)
(* either all of them visible at once or none.  A record that could not be *)
(* written rules success out: no database with a hole in it appears.       *)
(*                                                                         *)
(* One failure is excepted: what close writes may be cut short without     *)
(* anybody noticing (spoiled).  Close answers as if it were whole, and a   *)
(* reader misses some of the records.                                      *)
(***************************************************************************)

CONSTANT Records

VARIABLES
  pending,     \* the records collected so far
  broken,      \* a record was lost
  spoiled,     \* what close writes has been cut short, unnoticed
  published,   \* the records a reader of the database sees
  answer       \* what close answered: "none", "ok", "error"

vars == <<pending, broken, spoiled, published, answer>>

Init ==
  /\ pending = {} /\ broken = FALSE /\ spoiled = FALSE
  /\ published = {}
  /\ answer = "none"

(* put succeeds *)
Put(r) ==
  /\ answer = "none"
  /\ pending' = pending \cup {r}
  /\ UNCHANGED <<broken, spoiled, published, answer>>

(* put fails: this record is lost, and whatever its writer held with it *)
Lose ==
  /\ answer = "none"
  /\ broken' = TRUE
  /\ pending' \in SUBSET pending
  /\ UNCHANGED <<spoiled, published, answer>>

(* a table comes short while close goes on *)
Spoil ==
  /\ answer = "none"
  /\ spoiled' = TRUE
  /\ UNCHANGED <<pending, broken, published, answer>>

Readable == IF spoiled THEN SUBSET pending ELSE {pending}

(* close succeeds *)
Publish ==
  /\ answer = "none" /\ ~broken
  /\ published' \in Readable
  /\ answer' = "ok"
  /\ UNCHANGED <<pending, broken, spoiled>>

(* close fails, or the records are abandoned; a failure may be noticed only *)
(* after the very last write took effect.                                  *)
Refuse ==
  /\ answer = "none"
  /\ published' \in IF broken THEN {{}} ELSE {{}} \cup Readable
  /\ answer' = "error"
  /\ UNCHANGED <<pending, broken, spoiled>>

Next == (\E r \in Records : Put(r)) \/ Lose \/ Spoil \/ Publish \/ Refuse

Spec == Init /\ [][Next]_vars

===============================================================================
