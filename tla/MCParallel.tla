------------------------------ MODULE MCParallel ------------------------------
(* Four works and three workers: enough for two errors to race while the   *)
(* third worker claims the last work after the cancellation.               *)
EXTENDS Parallel
===============================================================================
