-------------------------------- MODULE KeyOrder --------------------------------
(***************************************************************************)
(* Database keys as byte strings: their order (BytewiseComparator), the    *)
(* successor strings::Increment computes, and the ranges of keys BuildTable*)
(* works through, one prefix byte at a time.                               *)
(***************************************************************************)
EXTENDS Integers, Sequences

CONSTANT Base   \* the number of byte values: 256 in the program

ASSUME BaseAssumption == Base \in Nat /\ Base > 1

Byte == 0..Base-1

(* std::string's < and BytewiseComparator: lexicographic, unsigned.        *)
Less(a, b) ==
  \E i \in DOMAIN b :
    /\ \A j \in 1..i-1 : j \in DOMAIN a /\ a[j] = b[j]
    /\ i \in DOMAIN a => a[i] < b[i]

Zeros(count) == [i \in 1..count |-> 0]

-------------------------------------------------------------------------------
(* Faulty variants of the definitions below, each a bug that a property    *)
(* must catch.                                                             *)
AlwaysBounded(key, n, lower) == ~Less(key, lower)

UpToUpper(key, upper) == Less(key, upper) \/ key = upper

-------------------------------------------------------------------------------
(* Adds one to the last byte; the bytes that overflow become 0 and carry;  *)
(* a string of nothing but top bytes grows by one byte.                    *)
Increment(p) ==
  LET below == {i \in DOMAIN p : p[i] # Base - 1}
      carry == CHOOSE i \in below : \A j \in below : j <= i
  IN IF below = {}
     THEN <<1>> \o Zeros(Len(p))
     ELSE [i \in DOMAIN p |-> IF i < carry THEN p[i]
                              ELSE IF i = carry THEN p[i] + 1 ELSE 0]

(* nmax: the keys of a prefix are cut in Base^depth ranges.                *)
NMax(depth) ==
  LET power[d \in 0..depth] == IF d = 0 THEN 1 ELSE Base * power[d - 1]
  IN power[depth]

FirstLower(prefix, depth) == <<prefix>> \o Zeros(depth)

(* The lower end of each range, as the outer loop carries it on.           *)
Lowers(prefix, depth) ==
  LET lower[n \in 0..NMax(depth) - 1] ==
        IF n = 0 THEN FirstLower(prefix, depth) ELSE Increment(lower[n - 1])
  IN lower

BelowUpper(key, upper) == Less(key, upper)

(* Range n holds the keys from lower on (the first range has no lower end) *)
(* and below upper (the last one, number last, has no upper end).          *)
AboveLower(key, n, lower) == n = 0 \/ ~Less(key, lower)

InRange(key, n, lower, last) ==
  /\ AboveLower(key, n, lower)
  /\ n = last \/ BelowUpper(key, Increment(lower))

===============================================================================
