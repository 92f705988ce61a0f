----------------------------- MODULE MCLegacyWorld -----------------------------
(***************************************************************************)
(* Two inner regions of two chunks in a row, any of them absent, and one   *)
(* outer region.  Two threads can hold the first and the last chunk at the *)
(* same time, and compete for the two between.                             *)
(***************************************************************************)
EXTENDS LegacyWorld

CONSTANTS west, east, rim

MCRegionOf == [p \in Grid |-> IF p[1] < 2 THEN west ELSE east]

===============================================================================
