------------------------------- MODULE KeyRanges -------------------------------
(***************************************************************************)
(* The outer loop of ConcurrentDb::BuildTable for one prefix byte: the     *)
(* ranges it goes through, and the keys each of them takes from the key    *)
(* files.  A table never spans two ranges, so the ranges must neither      *)
(* overlap nor leave a key out, and must come in ascending order.          *)
(***************************************************************************)
EXTENDS ConcurrentDb

CONSTANTS
  MaxDepth,    \* the depth is clamped to 7 in the program
  MaxLength    \* the longest key

WithPrefix(prefix) ==
  {key \in UNION {[1..length -> Byte] : length \in 1..MaxLength} : key[1] = prefix}

(* The inner loop of range n: one pass over the key files.                 *)
Taken(prefix, depth) ==
  LET lower == Lowers(prefix, depth)
      last == NMax(depth) - 1
  IN  [n \in 0..last |-> {key \in WithPrefix(prefix) : InRange(key, n, lower[n], last)}]

(* Every key of the prefix is taken, shorter and longer ones than the ends *)
(* of the ranges included, and each range is above the one before it: the  *)
(* tables of one prefix come out complete, disjoint and ascending.         *)
RangesCoverAndAscend ==
  \A prefix \in Byte, depth \in 0..MaxDepth :
    LET taken == Taken(prefix, depth)
    IN  /\ UNION {taken[n] : n \in DOMAIN taken} = WithPrefix(prefix)
        /\ \A m, n \in DOMAIN taken :
             m < n => \A earlier \in taken[m], key \in taken[n] : Less(earlier, key)

(* It does not depend on the state, so the initial one is asked.           *)
RangesPartition == Init => RangesCoverAndAscend

===============================================================================
