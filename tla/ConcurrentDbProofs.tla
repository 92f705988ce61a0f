--------------------------- MODULE ConcurrentDbProofs ---------------------------
(***************************************************************************)
(* Proofs about ConcurrentDb for any number of threads, any keys, sizes,   *)
(* depths and byte values: the ranges BuildTable goes through partition the*)
(* keys of a prefix, close publishes everything or nothing, and the tables *)
(* of level 1 are sorted and disjoint if no key is put twice.              *)
(*                                                                         *)
(* What the loops of BuildTable compute is proved by induction on their    *)
(* rounds: a set of natural numbers that holds 0 and, with a number, the   *)
(* next one, is Nat (Ind).  It is applied to the set of the rounds n for   *)
(* which the claim holds.                                                  *)
(***************************************************************************)
EXTENDS KeyRanges, FiniteSetTheorems, WellFoundedInduction, TLAPS

(* The least number of a set.                                              *)
LEMMA Least ==
  ASSUME NEW T \in SUBSET Nat, T # {}
  PROVE  \E m \in T : \A n \in T : m <= n
<1> DEFINE R == {ss \in Nat \X Nat : ss[1] < ss[2]}
<1>1. IsWellFoundedOn(R, Nat)
  BY NatLessThanWellFounded DEF OpToRel
<1>2. \E x \in T : \A y \in T : ~ (<<y, x>> \in R)
  <2> HIDE DEF R
  <2> QED
    BY <1>1, WFMin
<1>3. \A x, y \in T : ~ (<<y, x>> \in R) => x <= y
  <2> SUFFICES ASSUME NEW x \in T, NEW y \in T, ~(x <= y) PROVE <<y, x>> \in R
    OBVIOUS
  <2> DEFINE s == <<y, x>>
  <2>1. s[1] < s[2] /\ s \in Nat \X Nat
    OBVIOUS
  <2> HIDE DEF s
  <2>2. s \in R
    BY <2>1
  <2> QED
    BY <2>2 DEF s
<1> HIDE DEF R
<1>4. QED
  BY <1>2, <1>3

(* Induction, for the set of the numbers for which a claim holds.          *)
LEMMA Ind ==
  ASSUME NEW S \in SUBSET Nat, 0 \in S, \A n \in S : n + 1 \in S
  PROVE  S = Nat
<1> SUFFICES ASSUME NEW k \in Nat, k \notin S PROVE FALSE
  OBVIOUS
<1> DEFINE T == Nat \ S
<1>1. T \in SUBSET Nat /\ T # {}
  OBVIOUS
<1>2. PICK m \in T : \A n \in T : m <= n
  <2> HIDE DEF T
  <2> QED
    BY <1>1, Least
<1>3. m \in Nat /\ m \notin S /\ m # 0
  OBVIOUS
<1>4. m - 1 \in S
  <2>1. m - 1 \in Nat /\ ~(m <= m - 1)
    BY <1>3
  <2>2. m - 1 \notin T
    BY <1>2, <2>1
  <2> QED
    BY <2>1, <2>2
<1>5. QED
  BY <1>3, <1>4

(* The greatest number of a bounded set.                                   *)
LEMMA Greatest ==
  ASSUME NEW N \in Nat, NEW T \in SUBSET (0..N), T # {}
  PROVE  \E m \in T : \A n \in T : n <= m
<1> DEFINE mirror == {k \in 0..N : N - k \in T}
<1>1. mirror \in SUBSET Nat /\ mirror # {}
  <2>1. PICK t \in T : TRUE
    OBVIOUS
  <2>2. N - t \in 0..N /\ N - (N - t) = t
    BY <2>1
  <2>3. QED
    BY <2>1, <2>2
<1>2. PICK m \in mirror : \A n \in mirror : m <= n
  <2> HIDE DEF mirror
  <2> QED
    BY <1>1, Least
<1>3. ASSUME NEW n \in T PROVE n <= N - m
  <2>1. N - n \in 0..N /\ N - (N - n) = n
    OBVIOUS
  <2>2. m <= N - n /\ m \in 0..N
    BY <1>2, <2>1
  <2>3. QED
    BY <2>2
<1>4. QED
  BY <1>2, <1>3

-------------------------------------------------------------------------------
(* Loops: what a recursive function over rounds is worth.                  *)

Iterates(f, N, S, a, step) ==
  /\ f \in [0..N -> S]
  /\ f[0] = a
  /\ \A n \in 1..N : f[n] = step[<<f[n - 1], n>>]

LEMMA Recursion ==
  ASSUME NEW S, NEW a \in S, NEW step \in [S \X Nat -> S]
  PROVE  \A N \in Nat : \E f : Iterates(f, N, S, a, step)
<1> DEFINE Is(f, N) == f[0] = a /\ \A n \in 1..N : f[n] = step[<<f[n - 1], n>>]
           Rounds == {N \in Nat : \E f \in [0..N -> S] : Is(f, N)}
<1>1. 0 \in Rounds
  <2> DEFINE f == [n \in 0..0 |-> a]
  <2>1. f \in [0..0 -> S] /\ Is(f, 0)
    OBVIOUS
  <2>2. QED
    BY <2>1
<1>2. ASSUME NEW N \in Rounds PROVE N + 1 \in Rounds
  <2>1. PICK f \in [0..N -> S] : Is(f, N)
    OBVIOUS
  <2> DEFINE next == step[<<f[N], N + 1>>]
             g == [n \in 0..N + 1 |-> IF n = N + 1 THEN next ELSE f[n]]
  <2>2. next \in S
    OBVIOUS
  <2> HIDE DEF next
  <2>3. g \in [0..N + 1 -> S]
    BY <2>2
  <2>4. \A n \in 0..N : g[n] = f[n]
    OBVIOUS
  <2>5. g[N + 1] = step[<<g[N], N + 1>>]
    <3>1. g[N + 1] = next /\ g[N] = f[N]
      OBVIOUS
    <3> HIDE DEF g
    <3>2. QED
      BY <3>1 DEF next
  <2>6. Is(g, N + 1)
    <3> HIDE DEF g
    <3>1. \A n \in 1..N + 1 : n - 1 \in 0..N /\ (n \in 0..N \/ n = N + 1)
      OBVIOUS
    <3>2. ASSUME NEW n \in 1..N + 1 PROVE g[n] = step[<<g[n - 1], n>>]
      <4>1. CASE n = N + 1
        <5>1. n - 1 = N
          BY <4>1
        <5>2. QED
          BY <2>5, <4>1, <5>1
      <4>2. CASE n \in 1..N
        <5>1. g[n] = f[n] /\ g[n - 1] = f[n - 1]
          BY <2>4, <3>1, <4>2
        <5>2. f[n] = step[<<f[n - 1], n>>]
          BY <2>1, <4>2
        <5>3. QED
          BY <5>1, <5>2
      <4>3. QED
        BY <4>1, <4>2
    <3>3. QED
      BY <2>1, <2>4, <3>2
  <2>7. N + 1 \in Nat
    OBVIOUS
  <2> HIDE DEF Is, g
  <2>8. QED
    BY <2>3, <2>6, <2>7
<1>3. Rounds = Nat
  <2> HIDE DEF Is
  <2>1. Rounds \in SUBSET Nat
    OBVIOUS
  <2> HIDE DEF Rounds
  <2>2. QED
    BY <1>1, <1>2, <2>1, Ind
<1>4. QED
  BY <1>3 DEF Iterates

(* What holds before the first round and is kept by every round holds of   *)
(* what each of them computes.                                             *)
LEMMA Loop ==
  ASSUME NEW S, NEW N \in Nat, NEW f, f[0] \in S,
         \A n \in 1..N : f[n - 1] \in S => f[n] \in S
  PROVE  \A n \in 0..N : f[n] \in S
<1> DEFINE Rounds == {n \in Nat : n <= N => f[n] \in S}
<1>1. 0 \in Rounds
  OBVIOUS
<1>2. ASSUME NEW n \in Rounds PROVE n + 1 \in Rounds
  <2>1. CASE n + 1 <= N
    <3>1. n + 1 \in 1..N /\ n <= N /\ (n + 1) - 1 = n
      BY <2>1
    <3>2. f[n] \in S
      BY <3>1
    <3>3. f[n + 1] \in S
      BY <3>1, <3>2
    <3>4. QED
      BY <3>3
  <2>2. CASE ~(n + 1 <= N)
    BY <2>2
  <2>3. QED
    BY <2>1, <2>2
<1>3. Rounds = Nat
  <2>1. Rounds \in SUBSET Nat
    OBVIOUS
  <2> HIDE DEF Rounds
  <2>2. QED
    BY <1>1, <1>2, <2>1, Ind
<1>4. QED
  BY <1>3

-------------------------------------------------------------------------------
(* The order of the keys.                                                  *)

String == Seq(Byte)

LEMMA LessTransitive ==
  \A a, b, c \in String : Less(a, b) /\ Less(b, c) => Less(a, c)
<1> SUFFICES ASSUME NEW a \in Seq(Byte), NEW b \in Seq(Byte), NEW c \in Seq(Byte),
                    Less(a, b), Less(b, c)
             PROVE  Less(a, c)
  BY DEF String
<1>1. PICK i \in DOMAIN b : /\ \A j \in 1..i-1 : j \in DOMAIN a /\ a[j] = b[j]
                            /\ i \in DOMAIN a => a[i] < b[i]
  BY DEF Less
<1>2. PICK k \in DOMAIN c : /\ \A j \in 1..k-1 : j \in DOMAIN b /\ b[j] = c[j]
                            /\ k \in DOMAIN b => b[k] < c[k]
  BY DEF Less
<1>3. /\ i \in Nat \ {0} /\ k \in Nat \ {0}
      /\ \A j \in DOMAIN a : a[j] \in Int
      /\ \A j \in DOMAIN b : b[j] \in Int
      /\ \A j \in DOMAIN c : c[j] \in Int
  BY BaseAssumption DEF Byte
<1>4. CASE i < k
  <2>1. i \in DOMAIN c /\ b[i] = c[i]
    BY <1>2, <1>3, <1>4
  <2>2. \A j \in 1..i-1 : j \in DOMAIN a /\ a[j] = c[j]
    BY <1>1, <1>2, <1>3, <1>4
  <2>3. QED
    BY <1>1, <2>1, <2>2 DEF Less
<1>5. CASE k <= i
  <2>1. \A j \in 1..k-1 : j \in DOMAIN a /\ a[j] = c[j]
    BY <1>1, <1>2, <1>3, <1>5
  <2>2. k \in DOMAIN a => a[k] < c[k]
    <3>1. k \in DOMAIN b /\ b[k] < c[k]
      BY <1>2, <1>3, <1>5
    <3>2. k \in DOMAIN a => a[k] <= b[k]
      BY <1>1, <1>3, <1>5, <3>1
    <3>3. QED
      BY <1>2, <1>3, <3>1, <3>2
  <2>3. QED
    BY <2>1, <2>2 DEF Less
<1>6. QED
  BY <1>3, <1>4, <1>5

(* Two different strings: one ends where the other goes on, or they first  *)
(* differ somewhere.                                                       *)
LEMMA LessTotal ==
  \A a, b \in String : a = b \/ Less(a, b) \/ Less(b, a)
<1> SUFFICES ASSUME NEW a \in Seq(Byte), NEW b \in Seq(Byte), a # b
             PROVE  Less(a, b) \/ Less(b, a)
  BY DEF String
<1> DEFINE Differ == {i \in DOMAIN a \cup DOMAIN b : ~(i \in DOMAIN a /\ i \in DOMAIN b /\ a[i] = b[i])}
<1>1. Differ \in SUBSET Nat /\ Differ # {}
  <2>1. Differ \in SUBSET Nat
    OBVIOUS
  <2>2. ASSUME Differ = {} PROVE FALSE
    <3>1. DOMAIN a = DOMAIN b
      BY <2>2
    <3>2. \A i \in DOMAIN a : a[i] = b[i]
      BY <2>2
    <3>3. Len(a) = Len(b)
      BY <3>1
    <3>4. QED
      BY <3>2, <3>3
  <2>3. QED
    BY <2>1, <2>2
<1>2. PICK i \in Differ : \A j \in Differ : i <= j
  <2> HIDE DEF Differ
  <2> QED
    BY <1>1, Least
<1>3. \A j \in 1..i-1 : j \in DOMAIN a /\ j \in DOMAIN b /\ a[j] = b[j]
  <2> SUFFICES ASSUME NEW j \in 1..i-1
               PROVE  j \in DOMAIN a /\ j \in DOMAIN b /\ a[j] = b[j]
    OBVIOUS
  <2>1. j \in DOMAIN a \cup DOMAIN b
    OBVIOUS
  <2>2. ~(i <= j)
    OBVIOUS
  <2>3. j \notin Differ
    BY <1>2, <2>2
  <2>4. QED
    BY <2>1, <2>3
<1>4. \A j \in Nat : (j \in DOMAIN a => a[j] \in Int) /\ (j \in DOMAIN b => b[j] \in Int)
  BY BaseAssumption DEF Byte
<1>5. CASE i \in DOMAIN a /\ i \in DOMAIN b
  <2>1. a[i] < b[i] \/ b[i] < a[i]
    BY <1>4, <1>5
  <2>2. CASE a[i] < b[i]
    BY <1>3, <1>5, <2>2 DEF Less
  <2>3. CASE b[i] < a[i]
    BY <1>3, <1>5, <2>3 DEF Less
  <2>4. QED
    BY <2>1, <2>2, <2>3
<1>6. CASE i \in DOMAIN a /\ i \notin DOMAIN b
  BY <1>3, <1>6 DEF Less
<1>7. CASE i \notin DOMAIN a /\ i \in DOMAIN b
  BY <1>3, <1>7 DEF Less
<1>8. QED
  BY <1>5, <1>6, <1>7

-------------------------------------------------------------------------------
(* The ranges of one prefix.                                               *)

(* The powers of the base up to depth.                                     *)
Powers(power, depth) ==
  /\ power \in [0..depth -> Nat \ {0}]
  /\ power[0] = 1
  /\ \A d \in 1..depth : power[d] = Base * power[d - 1]

LEMMA PowersOfBase ==
  \A depth \in Nat : \E power : Powers(power, depth) /\ NMax(depth) = power[depth]
<1> SUFFICES ASSUME NEW depth \in Nat
             PROVE  \E power : Powers(power, depth) /\ NMax(depth) = power[depth]
  OBVIOUS
<1> DEFINE Positive == Nat \ {0}
           times == [x \in Positive \X Nat |-> Base * x[1]]
           Is(f) == f = [d \in 0..depth |-> IF d = 0 THEN 1 ELSE Base * f[d - 1]]
           power == CHOOSE f : Is(f)
<1>1. \A m, n \in Nat \ {0} : m * n \in Nat \ {0}
  OBVIOUS
<1>2. Base \in Nat \ {0}
  BY BaseAssumption
<1>3. \A x \in Positive : Base * x \in Positive
  BY <1>1, <1>2
<1>4. times \in [Positive \X Nat -> Positive]
  BY <1>3
<1>5. \A x \in Positive, d \in Nat : times[<<x, d>>] = Base * x
  OBVIOUS
<1>6. 1 \in Positive
  OBVIOUS
<1> HIDE DEF times
<1>7. PICK f \in [0..depth -> Positive] :
        f[0] = 1 /\ \A d \in 1..depth : f[d] = times[<<f[d - 1], d>>]
  <2> HIDE DEF Positive
  <2>1. \E f : Iterates(f, depth, Positive, 1, times)
    BY <1>4, <1>6, Recursion
  <2>2. QED
    BY <2>1 DEF Iterates
<1>8. Is(f)
  <2> DEFINE g == [d \in 0..depth |-> IF d = 0 THEN 1 ELSE Base * f[d - 1]]
  <2>1. \A d \in 0..depth : f[d] = IF d = 0 THEN 1 ELSE Base * f[d - 1]
    <3>1. \A d \in 1..depth : d - 1 \in 0..depth /\ d \in Nat
      OBVIOUS
    <3>2. \A d \in 1..depth : f[d - 1] \in Positive
      BY <1>7, <3>1
    <3> HIDE DEF Positive
    <3>3. \A d \in 1..depth : f[d] = Base * f[d - 1]
      BY <1>5, <1>7, <3>1, <3>2
    <3>4. QED
      BY <1>7, <3>3
  <2>2. f = g
    <3>1. g = [d \in 0..depth |-> g[d]] /\ \A d \in 0..depth : g[d] = f[d]
      BY <2>1
    <3> HIDE DEF g
    <3>2. QED
      BY <1>7, <3>1
  <2>3. QED
    BY <2>2
<1>9. Is(power)
  <2> HIDE DEF Is
  <2>1. QED
    BY <1>8
<1>10. NMax(depth) = power[depth]
  BY DEF NMax
<1> HIDE DEF power
<1>11. /\ DOMAIN power = 0..depth /\ power[0] = 1
       /\ \A d \in 1..depth : power[d] = Base * power[d - 1]
  <2> DEFINE g == [d \in 0..depth |-> IF d = 0 THEN 1 ELSE Base * power[d - 1]]
  <2>1. DOMAIN g = 0..depth /\ \A d \in 0..depth : g[d] = IF d = 0 THEN 1 ELSE Base * power[d - 1]
    OBVIOUS
  <2>2. power = g
    BY <1>9, Zenon
  <2> HIDE DEF g
  <2>3. QED
    BY <2>1, <2>2
<1>12. \A d \in 0..depth : power[d] \in Positive
  <2>1. \A d \in 1..depth : power[d - 1] \in Positive => power[d] \in Positive
    BY <1>3, <1>11
  <2>2. power[0] \in Positive
    BY <1>11
  <2> HIDE DEF Positive
  <2>3. QED
    BY <2>1, <2>2, Loop
<1>13. power \in [0..depth -> Positive]
  <2> DEFINE g == [d \in 0..depth |-> power[d]]
  <2>1. power = g
    <3> DEFINE h == [d \in 0..depth |-> IF d = 0 THEN 1 ELSE Base * power[d - 1]]
    <3>1. power = h
      BY <1>9, Zenon
    <3>2. h = [d \in DOMAIN h |-> h[d]]
      OBVIOUS
    <3> HIDE DEF h
    <3>3. QED
      BY <1>11, <3>1, <3>2
  <2> HIDE DEF Positive
  <2>2. g \in [0..depth -> Positive]
    BY <1>12
  <2>3. QED
    BY <2>1, <2>2
<1>14. QED
  BY <1>10, <1>11, <1>13 DEF Powers

LEMMA IncrementDigits ==
  ASSUME NEW L \in Nat, NEW s \in [1..L -> Byte], NEW k \in 1..L, s[k] # Base - 1
  PROVE  \E c \in k..L :
           /\ s[c] # Base - 1
           /\ \A j \in c + 1..L : s[j] = Base - 1
           /\ Increment(s) = [i \in 1..L |-> IF i < c THEN s[i] ELSE IF i = c THEN s[i] + 1 ELSE 0]
<1> DEFINE below == {i \in DOMAIN s : s[i] # Base - 1}
           carry == CHOOSE i \in below : \A j \in below : j <= i
<1>1. DOMAIN s = 1..L /\ below \in SUBSET (0..L) /\ k \in below
  OBVIOUS
<1>2. carry \in below /\ \A j \in below : j <= carry
  <2> HIDE DEF below
  <2>1. \E i \in below : \A j \in below : j <= i
    BY <1>1, Greatest
  <2>2. QED
    BY <2>1
<1>3. Increment(s) = [i \in 1..L |-> IF i < carry THEN s[i] ELSE IF i = carry THEN s[i] + 1 ELSE 0]
  BY <1>1 DEF Increment
<1> HIDE DEF carry
<1>4. carry \in k..L /\ s[carry] # Base - 1
  BY <1>1, <1>2
<1>5. \A j \in carry + 1..L : s[j] = Base - 1
  <2> SUFFICES ASSUME NEW j \in carry + 1..L, s[j] # Base - 1 PROVE FALSE
    OBVIOUS
  <2>1. j \in below
    BY <1>4
  <2>2. j <= carry
    BY <1>2, <2>1
  <2>3. QED
    BY <1>4, <2>2
<1>6. QED
  BY <1>3, <1>4, <1>5

LEMMA IncrementType ==
  \A s \in String : Increment(s) \in String
<1> SUFFICES ASSUME NEW s \in Seq(Byte) PROVE Increment(s) \in Seq(Byte)
  BY DEF String
<1>1. Base \in Nat /\ Base > 1 /\ Byte = 0..Base - 1
  BY BaseAssumption DEF Byte
<1>2. CASE \A k \in DOMAIN s : s[k] = Base - 1
  <2>1. Increment(s) = <<1>> \o Zeros(Len(s))
    BY <1>2 DEF Increment
  <2>2. Zeros(Len(s)) \in Seq(Byte) /\ <<1>> \in Seq(Byte)
    BY <1>1 DEF Zeros
  <2>3. QED
    BY <2>1, <2>2
<1>3. CASE \E k \in DOMAIN s : s[k] # Base - 1
  <2> DEFINE L == Len(s)
  <2>1. L \in Nat /\ s \in [1..L -> Byte]
    OBVIOUS
  <2>2. PICK c \in 1..L :
          /\ s[c] # Base - 1
          /\ Increment(s) = [i \in 1..L |-> IF i < c THEN s[i] ELSE IF i = c THEN s[i] + 1 ELSE 0]
    <3>1. PICK k \in 1..L : s[k] # Base - 1
      BY <1>3
    <3> HIDE DEF L
    <3>2. \E c \in k..L :
           /\ s[c] # Base - 1
           /\ Increment(s) = [i \in 1..L |-> IF i < c THEN s[i] ELSE IF i = c THEN s[i] + 1 ELSE 0]
      BY <2>1, <3>1, IncrementDigits
    <3>3. QED
      BY <3>1, <3>2
  <2>3. s[c] + 1 \in Byte /\ 0 \in Byte
    BY <1>1, <2>1, <2>2
  <2> HIDE DEF L
  <2>4. [i \in 1..L |-> IF i < c THEN s[i] ELSE IF i = c THEN s[i] + 1 ELSE 0] \in [1..L -> Byte]
    BY <2>1, <2>3
  <2>5. QED
    BY <2>1, <2>2, <2>4
<1>4. QED
  BY <1>2, <1>3

(* Lower ends as numbers in base Base: v[i] is what the digits up to the   *)
(* i-th are worth, the prefix left out.                                    *)
Worth(v, s, depth) ==
  /\ v \in [1..depth + 1 -> Nat]
  /\ v[1] = 0
  /\ \A i \in 2..depth + 1 : v[i] = v[i - 1] * Base + s[i]

Numbered(s, prefix, depth, n) ==
  /\ s \in [1..depth + 1 -> Byte]
  /\ s[1] = prefix
  /\ \E v : Worth(v, s, depth) /\ v[depth + 1] = n

(* The end with nothing but top digits is the last one.                    *)
LEMMA NumberedTop ==
  ASSUME NEW depth \in Nat, NEW prefix \in Byte, NEW n \in Nat, NEW s,
         Numbered(s, prefix, depth, n),
         \A i \in 2..depth + 1 : s[i] = Base - 1
  PROVE  n + 1 = NMax(depth)
<1>1. PICK power : Powers(power, depth) /\ NMax(depth) = power[depth]
  BY PowersOfBase
<1>2. PICK v : Worth(v, s, depth) /\ v[depth + 1] = n
  BY DEF Numbered
<1> DEFINE f == [d \in 0..depth |-> v[d + 1] + 1 - power[d]]
<1>3. f[0] \in {0}
  BY <1>1, <1>2 DEF Worth, Powers
<1>4. ASSUME NEW d \in 1..depth, f[d - 1] \in {0} PROVE f[d] \in {0}
  <2>1. /\ d + 1 \in 2..depth + 1 /\ (d + 1) - 1 = d /\ d \in 1..depth + 1
        /\ d - 1 \in 0..depth /\ d \in 0..depth /\ (d - 1) + 1 = d
    OBVIOUS
  <2>2. v[d + 1] = v[d] * Base + (Base - 1)
    BY <1>2, <2>1 DEF Worth
  <2>3. power[d] = Base * power[d - 1]
    BY <1>1 DEF Powers
  <2>4. v[d] \in Nat /\ power[d - 1] \in Nat /\ Base \in Nat /\ v[d + 1] \in Nat /\ power[d] \in Nat
    BY <1>1, <1>2, <2>1, BaseAssumption DEF Worth, Powers
  <2>5. v[d] + 1 = power[d - 1]
    BY <1>4, <2>1, <2>4
  <2>6. v[d] * Base + (Base - 1) + 1 = Base * (v[d] + 1)
    <3>1. \A x, y \in Nat : x * y + (y - 1) + 1 = y * (x + 1)
      OBVIOUS
    <3>2. QED
      BY <2>4, <3>1
  <2>7. v[d + 1] + 1 = power[d]
    BY <2>2, <2>3, <2>4, <2>5, <2>6
  <2>8. QED
    BY <2>1, <2>4, <2>7
<1>5. f[depth] \in {0}
  <2> DEFINE Zero == {0}
  <2>1. f[0] \in Zero /\ \A d \in 1..depth : f[d - 1] \in Zero => f[d] \in Zero
    BY <1>3, <1>4
  <2> HIDE DEF f, Zero
  <2>2. \A d \in 0..depth : f[d] \in Zero
    BY <2>1, Loop
  <2>3. QED
    BY <2>2 DEF Zero
<1>6. v[depth + 1] \in Nat /\ power[depth] \in Nat
  BY <1>1, <1>2 DEF Worth, Powers
<1>7. QED
  BY <1>1, <1>2, <1>5, <1>6

(* The next end is worth one more, and is above this one.                  *)
LEMMA NumberedNext ==
  ASSUME NEW depth \in Nat, NEW prefix \in Byte, NEW n \in Nat, NEW s,
         Numbered(s, prefix, depth, n), n + 1 # NMax(depth)
  PROVE  Numbered(Increment(s), prefix, depth, n + 1) /\ Less(s, Increment(s))
<1> DEFINE L == depth + 1
<1>1. L \in Nat /\ s \in [1..L -> Byte] /\ s[1] = prefix
  BY DEF Numbered
<1>2. PICK v : Worth(v, s, depth) /\ v[L] = n
  BY DEF Numbered
<1>3. PICK k \in 2..L : s[k] # Base - 1
  BY NumberedTop
<1>4. PICK c \in k..L :
           /\ s[c] # Base - 1
           /\ \A j \in c + 1..L : s[j] = Base - 1
           /\ Increment(s) = [i \in 1..L |-> IF i < c THEN s[i] ELSE IF i = c THEN s[i] + 1 ELSE 0]
  <2> HIDE DEF L
  <2>1. k \in 1..L
    BY <1>1
  <2>2. QED
    BY <1>1, <1>3, <2>1, IncrementDigits
<1> DEFINE t == [i \in 1..L |-> IF i < c THEN s[i] ELSE IF i = c THEN s[i] + 1 ELSE 0]
           w == [i \in 1..L |-> IF i < c THEN v[i] ELSE v[i] + 1]
<1>5. c \in 2..L /\ L \in Nat
  BY <1>1, <1>3, <1>4
<1>6. Base \in Nat /\ Base > 1 /\ Byte = 0..Base - 1
  BY BaseAssumption DEF Byte
<1>7. t \in [1..L -> Byte] /\ t[1] = prefix
  <2>1. s[c] + 1 \in Byte /\ 0 \in Byte
    BY <1>1, <1>4, <1>5, <1>6
  <2> HIDE DEF L
  <2>2. QED
    BY <1>1, <1>5, <2>1
<1>8. v \in [1..L -> Nat] /\ v[1] = 0 /\ \A i \in 2..L : v[i] = v[i - 1] * Base + s[i]
  BY <1>2 DEF Worth
<1>9. Worth(w, t, depth)
  <2> HIDE DEF L
  <2>1. w \in [1..L -> Nat] /\ w[1] = 0
    BY <1>5, <1>8
  <2>2. ASSUME NEW i \in 2..L PROVE w[i] = w[i - 1] * Base + t[i]
    <3>1. /\ i \in 1..L /\ i - 1 \in 1..L /\ v[i] \in Nat /\ v[i - 1] \in Nat /\ s[i] \in Nat
          /\ v[i] = v[i - 1] * Base + s[i] /\ v[i - 1] * Base \in Nat
      BY <1>1, <1>5, <1>6, <1>8
    <3>2. CASE i < c
      <4>1. w[i] = v[i] /\ w[i - 1] = v[i - 1] /\ t[i] = s[i]
        BY <1>5, <3>1, <3>2
      <4>2. QED
        BY <3>1, <4>1
    <3>3. CASE i = c
      <4>1. w[i] = v[i] + 1 /\ w[i - 1] = v[i - 1] /\ t[i] = s[i] + 1
        BY <1>5, <3>1, <3>3
      <4> HIDE DEF w, t
      <4>2. QED
        BY <3>1, <4>1
    <3>4. CASE i > c
      <4>1. w[i] = v[i] + 1 /\ w[i - 1] = v[i - 1] + 1 /\ t[i] = 0
        BY <1>5, <3>1, <3>4
      <4>2. s[i] = Base - 1
        BY <1>4, <1>5, <3>4
      <4>3. \A x, y \in Nat : (x + 1) * y + 0 = x * y + (y - 1) + 1
        OBVIOUS
      <4> HIDE DEF w, t
      <4>4. (v[i - 1] + 1) * Base + 0 = v[i - 1] * Base + (Base - 1) + 1
        BY <1>6, <3>1, <4>3
      <4>5. QED
        BY <1>6, <3>1, <4>1, <4>2, <4>4
    <3>5. QED
      BY <1>5, <3>2, <3>3, <3>4
  <2> HIDE DEF w, t
  <2>3. QED
    BY <2>1, <2>2 DEF Worth, L
<1>10. w[L] = n + 1
  BY <1>2, <1>5
<1>11. Less(s, t)
  <2> HIDE DEF L
  <2>1. c \in DOMAIN t /\ s[c] < t[c]
    BY <1>1, <1>5, <1>6
  <2>2. \A j \in 1..c-1 : j \in DOMAIN s /\ s[j] = t[j]
    BY <1>1, <1>5
  <2> HIDE DEF t
  <2>3. QED
    BY <2>1, <2>2 DEF Less
<1> HIDE DEF w, t
<1>12. Increment(s) = t
  BY <1>4 DEF t
<1>13. QED
  BY <1>7, <1>9, <1>10, <1>11, <1>12 DEF Numbered

LEMMA NMaxType ==
  \A depth \in Nat : NMax(depth) \in Nat \ {0}
BY PowersOfBase DEF Powers

(* What the outer loop computes: each end is the one before, incremented.  *)
LEMMA LowersLoop ==
  ASSUME NEW prefix \in Byte, NEW depth \in Nat
  PROVE  /\ Lowers(prefix, depth)[0] = FirstLower(prefix, depth)
         /\ \A n \in 1..NMax(depth) - 1 :
              Lowers(prefix, depth)[n] = Increment(Lowers(prefix, depth)[n - 1])
<1> DEFINE N == NMax(depth) - 1
           first == FirstLower(prefix, depth)
           next == [x \in String \X Nat |-> Increment(x[1])]
           Is(f) == f = [n \in 0..N |-> IF n = 0 THEN first ELSE Increment(f[n - 1])]
           lower == CHOOSE f : Is(f)
<1>1. N \in Nat
  BY NMaxType
<1>2. first \in String
  <2>1. 0 \in Byte
    BY BaseAssumption DEF Byte
  <2>2. <<prefix>> \in Seq(Byte) /\ [i \in 1..depth |-> 0] \in Seq(Byte)
    BY <2>1
  <2>3. QED
    BY <2>2 DEF FirstLower, Zeros, String
<1>3. next \in [String \X Nat -> String]
  BY IncrementType
<1>4. \A s \in String, n \in Nat : next[<<s, n>>] = Increment(s)
  OBVIOUS
<1> HIDE DEF next, first, N
<1>5. PICK f : Iterates(f, N, String, first, next)
  BY <1>1, <1>2, <1>3, Recursion
<1>6. Is(f)
  <2> DEFINE g == [n \in 0..N |-> IF n = 0 THEN first ELSE Increment(f[n - 1])]
  <2>1. \A n \in 0..N : f[n] = IF n = 0 THEN first ELSE Increment(f[n - 1])
    <3>1. \A n \in 1..N : n - 1 \in 0..N /\ n \in Nat
      BY <1>1
    <3>2. \A n \in 1..N : f[n - 1] \in String
      BY <1>5, <3>1 DEF Iterates
    <3>3. \A n \in 1..N : f[n] = Increment(f[n - 1])
      BY <1>4, <1>5, <3>1, <3>2 DEF Iterates
    <3>4. QED
      BY <1>1, <1>5, <3>3 DEF Iterates
  <2>2. f = g
    <3>1. g = [n \in 0..N |-> g[n]] /\ \A n \in 0..N : g[n] = f[n]
      BY <2>1
    <3> HIDE DEF g
    <3>2. QED
      BY <1>5, <3>1 DEF Iterates
  <2>3. QED
    BY <2>2
<1>7. Is(lower)
  <2> HIDE DEF Is
  <2>1. QED
    BY <1>6
<1>8. Lowers(prefix, depth) = lower
  BY DEF Lowers, N, first
<1> HIDE DEF lower
<1>9. lower[0] = first /\ \A n \in 1..N : lower[n] = Increment(lower[n - 1])
  <2> DEFINE g == [n \in 0..N |-> IF n = 0 THEN first ELSE Increment(lower[n - 1])]
  <2>1. g[0] = first /\ \A n \in 1..N : g[n] = Increment(lower[n - 1])
    BY <1>1
  <2>2. lower = g
    BY <1>7, Zenon
  <2> HIDE DEF g
  <2>3. QED
    BY <2>1, <2>2
<1>10. QED
  BY <1>8, <1>9 DEF N, first

LEMMA LowersNumbered ==
  ASSUME NEW prefix \in Byte, NEW depth \in Nat
  PROVE  \A n \in 0..NMax(depth) - 1 : Numbered(Lowers(prefix, depth)[n], prefix, depth, n)
<1> DEFINE N == NMax(depth) - 1
           lower == Lowers(prefix, depth)
           Rounds == {n \in Nat : n <= N => Numbered(lower[n], prefix, depth, n)}
<1>1. N \in Nat /\ NMax(depth) \in Nat
  BY NMaxType
<1>2. 0 \in Rounds
  <2> DEFINE s == [i \in 1..depth + 1 |-> IF i = 1 THEN prefix ELSE 0]
             v == [i \in 1..depth + 1 |-> 0]
  <2>1. 0 \in Byte /\ Base \in Nat
    BY BaseAssumption DEF Byte
  <2>2. lower[0] = s
    <3>1. lower[0] = <<prefix>> \o [i \in 1..depth |-> 0]
      BY LowersLoop DEF FirstLower, Zeros
    <3>2. QED
      BY <3>1
  <2>3. s \in [1..depth + 1 -> Byte] /\ s[1] = prefix
    BY <2>1
  <2>4. Worth(v, s, depth)
    BY <2>1 DEF Worth
  <2>5. v[depth + 1] = 0
    OBVIOUS
  <2> HIDE DEF v, s
  <2>6. Numbered(s, prefix, depth, 0)
    BY <2>3, <2>4, <2>5 DEF Numbered
  <2> HIDE DEF lower
  <2>7. QED
    BY <2>2, <2>6
<1>3. ASSUME NEW n \in Rounds PROVE n + 1 \in Rounds
  <2>1. n \in Nat /\ n + 1 \in Nat /\ (n + 1) - 1 = n
    OBVIOUS
  <2>2. CASE n + 1 <= N
    <3>1. n + 1 # NMax(depth) /\ n <= N /\ n + 1 \in 1..N
      BY <1>1, <2>1, <2>2
    <3>2. Numbered(lower[n], prefix, depth, n)
      BY <3>1
    <3>3. lower[n + 1] = Increment(lower[n])
      BY <2>1, <3>1, LowersLoop
    <3> HIDE DEF lower, N
    <3>4. Numbered(Increment(lower[n]), prefix, depth, n + 1)
      BY <2>1, <3>1, <3>2, NumberedNext
    <3>5. QED
      BY <2>1, <3>3, <3>4
  <2>3. CASE ~(n + 1 <= N)
    BY <2>1, <2>3
  <2>4. QED
    BY <2>2, <2>3
<1>4. Rounds = Nat
  <2>1. Rounds \in SUBSET Nat
    OBVIOUS
  <2> HIDE DEF Rounds
  <2>2. QED
    BY <1>2, <1>3, <2>1, Ind
<1>5. QED
  <2> HIDE DEF lower
  <2>1. QED
    BY <1>1, <1>4 DEF lower

(* The ends are strings, and ascend.                                       *)
LEMMA LowersAscend ==
  ASSUME NEW prefix \in Byte, NEW depth \in Nat
  PROVE  /\ \A n \in 0..NMax(depth) - 1 : Lowers(prefix, depth)[n] \in String
         /\ \A m, n \in 0..NMax(depth) - 1 :
              m < n => Less(Lowers(prefix, depth)[m], Lowers(prefix, depth)[n])
<1> DEFINE N == NMax(depth) - 1
           lower == Lowers(prefix, depth)
<1>1. N \in Nat /\ NMax(depth) \in Nat
  BY NMaxType
<1>2. \A n \in 0..N : lower[n] \in String
  <2> SUFFICES ASSUME NEW n \in 0..N PROVE lower[n] \in String
    OBVIOUS
  <2>1. lower[n] \in [1..depth + 1 -> Byte]
    BY LowersNumbered DEF Numbered
  <2> HIDE DEF lower
  <2>2. QED
    BY <2>1 DEF String
<1>3. \A n \in 1..N : Less(lower[n - 1], lower[n])
  <2> SUFFICES ASSUME NEW n \in 1..N PROVE Less(lower[n - 1], lower[n])
    OBVIOUS
  <2>1. n - 1 \in 0..N /\ n - 1 \in Nat /\ (n - 1) + 1 # NMax(depth)
    BY <1>1
  <2>2. Numbered(lower[n - 1], prefix, depth, n - 1)
    BY <2>1, LowersNumbered
  <2>3. lower[n] = Increment(lower[n - 1])
    BY LowersLoop
  <2> HIDE DEF lower
  <2>4. QED
    BY <2>1, <2>2, <2>3, NumberedNext
<1> HIDE DEF N, lower
<1>4. ASSUME NEW m \in 0..N
      PROVE  \A n \in 0..N : m < n => Less(lower[m], lower[n])
  <2> DEFINE Rounds == {n \in Nat : n <= N /\ m < n => Less(lower[m], lower[n])}
  <2>1. 0 \in Rounds
    BY <1>1
  <2>2. ASSUME NEW n \in Rounds PROVE n + 1 \in Rounds
    <3>1. n \in Nat /\ n + 1 \in Nat /\ m \in Nat
      BY <1>1
    <3>2. CASE n + 1 <= N /\ m < n + 1
      <4>1. n + 1 \in 1..N /\ n \in 0..N /\ (n + 1) - 1 = n /\ (m = n \/ m < n) /\ n + 1 \in 0..N
        BY <1>1, <3>1, <3>2
      <4>2. Less(lower[n], lower[n + 1])
        BY <1>3, <4>1
      <4>3. CASE m = n
        BY <3>1, <4>2, <4>3
      <4>4. CASE m < n
        <5>1. Less(lower[m], lower[n])
          BY <4>1, <4>4
        <5>2. Less(lower[m], lower[n + 1])
          BY <1>2, <4>1, <4>2, <5>1, LessTransitive
        <5>3. QED
          BY <3>1, <5>2
      <4>5. QED
        BY <4>1, <4>3, <4>4
    <3>3. CASE ~(n + 1 <= N /\ m < n + 1)
      BY <3>1, <3>3
    <3>4. QED
      BY <3>2, <3>3
  <2>3. Rounds = Nat
    <3>1. Rounds \in SUBSET Nat
      OBVIOUS
    <3> HIDE DEF Rounds
    <3>2. QED
      BY <2>1, <2>2, <3>1, Ind
  <2>4. QED
    BY <1>1, <2>3
<1>5. QED
  BY <1>2, <1>4 DEF N, lower

(* Every string belongs to a range.                                        *)
LEMMA RangesCover ==
  ASSUME NEW prefix \in Byte, NEW depth \in Nat, NEW key
  PROVE  \E n \in 0..NMax(depth) - 1 :
           InRange(key, n, Lowers(prefix, depth)[n], NMax(depth) - 1)
<1> DEFINE N == NMax(depth) - 1
           lower == Lowers(prefix, depth)
           T == {n \in 0..N : n = N \/ Less(key, Increment(lower[n]))}
<1>1. N \in Nat
  BY NMaxType
<1>2. T \in SUBSET Nat /\ N \in T
  BY <1>1
<1>3. PICK n \in T : \A m \in T : n <= m
  <2> HIDE DEF T
  <2>1. QED
    BY <1>2, Least
<1>4. CASE n = 0
  BY <1>3, <1>4 DEF InRange, AboveLower, BelowUpper
<1>5. CASE n # 0
  <2>1. n - 1 \in 0..N /\ ~(n <= n - 1) /\ n \in 1..N
    BY <1>1, <1>5
  <2>2. n - 1 \notin T
    BY <1>3, <2>1
  <2>3. ~Less(key, Increment(lower[n - 1]))
    BY <2>1, <2>2
  <2>4. lower[n] = Increment(lower[n - 1])
    BY <2>1, LowersLoop
  <2> HIDE DEF lower
  <2>5. ~Less(key, lower[n])
    BY <2>3, <2>4
  <2>6. QED
    BY <1>3, <2>5 DEF InRange, AboveLower, BelowUpper, lower
<1>6. QED
  BY <1>4, <1>5

(* What a range takes is below what a later one takes.                     *)
LEMMA RangesAscend ==
  ASSUME NEW prefix \in Byte, NEW depth \in Nat,
         NEW m \in 0..NMax(depth) - 1, NEW n \in 0..NMax(depth) - 1, m < n,
         NEW earlier \in String, NEW key \in String,
         InRange(earlier, m, Lowers(prefix, depth)[m], NMax(depth) - 1),
         InRange(key, n, Lowers(prefix, depth)[n], NMax(depth) - 1)
  PROVE  Less(earlier, key)
<1> DEFINE N == NMax(depth) - 1
           lower == Lowers(prefix, depth)
<1>1. /\ N \in Nat /\ m # N /\ n # 0 /\ m + 1 \in 1..N /\ m + 1 \in 0..N
      /\ (m + 1) - 1 = m /\ (m + 1 = n \/ m + 1 < n)
  BY NMaxType
<1>2. Less(earlier, lower[m + 1])
  <2>1. Less(earlier, Increment(lower[m]))
    BY <1>1 DEF InRange, BelowUpper
  <2>2. lower[m + 1] = Increment(lower[m])
    BY <1>1, LowersLoop
  <2> HIDE DEF lower
  <2>3. QED
    BY <2>1, <2>2
<1>3. ~Less(key, lower[n])
  BY <1>1 DEF InRange, AboveLower
<1>4. lower[m + 1] \in String /\ lower[n] \in String
  BY <1>1, LowersAscend
<1>5. m + 1 = n \/ Less(lower[m + 1], lower[n])
  BY <1>1, LowersAscend
<1> HIDE DEF lower
<1>6. Less(earlier, lower[n])
  BY <1>2, <1>4, <1>5, LessTransitive
<1>7. key = lower[n] \/ Less(lower[n], key)
  BY <1>3, <1>4, LessTotal
<1>8. QED
  BY <1>4, <1>6, <1>7, LessTransitive

LEMMA CoverAndAscend ==
  ASSUME MaxDepth \in Nat, MaxLength \in Nat
  PROVE  RangesCoverAndAscend
<1> SUFFICES ASSUME NEW prefix \in Byte, NEW depth \in 0..MaxDepth
             PROVE  LET taken == Taken(prefix, depth)
                    IN  /\ UNION {taken[n] : n \in DOMAIN taken} = WithPrefix(prefix)
                        /\ \A m, n \in DOMAIN taken :
                             m < n => \A earlier \in taken[m], key \in taken[n] : Less(earlier, key)
  BY DEF RangesCoverAndAscend
<1> DEFINE taken == Taken(prefix, depth)
           N == NMax(depth) - 1
           lower == Lowers(prefix, depth)
<1>1. depth \in Nat
  OBVIOUS
<1>2. DOMAIN taken = 0..N
  BY DEF Taken
<1>3. \A n \in 0..N : taken[n] = {key \in WithPrefix(prefix) : InRange(key, n, lower[n], N)}
  BY DEF Taken
<1>4. WithPrefix(prefix) \subseteq String
  BY DEF WithPrefix, String
<1> HIDE DEF taken, N, lower
<1>5. UNION {taken[n] : n \in 0..N} = WithPrefix(prefix)
  <2>1. ASSUME NEW key \in WithPrefix(prefix) PROVE \E n \in 0..N : key \in taken[n]
    <3>1. \E n \in 0..N : InRange(key, n, lower[n], N)
      BY <1>1, RangesCover DEF N, lower
    <3>2. QED
      BY <1>3, <3>1
  <2>2. \A n \in 0..N : taken[n] \subseteq WithPrefix(prefix)
    BY <1>3
  <2>3. QED
    BY <2>1, <2>2
<1>6. ASSUME NEW m \in 0..N, NEW n \in 0..N, m < n,
             NEW earlier \in taken[m], NEW key \in taken[n]
      PROVE  Less(earlier, key)
  <2>1. earlier \in String /\ key \in String
    BY <1>3, <1>4
  <2>2. InRange(earlier, m, lower[m], N) /\ InRange(key, n, lower[n], N)
    BY <1>3
  <2>3. QED
    BY <1>1, <1>6, <2>1, <2>2, RangesAscend DEF N, lower
<1>7. QED
  BY <1>2, <1>5, <1>6 DEF taken

(* RangesPartition, for every prefix, depth and length of the keys: each   *)
(* key of the prefix is taken by a range of BuildTable's outer loop, and   *)
(* what a range takes is above what the ranges before it take.             *)
THEOREM RangesPartitionCorrect ==
  ASSUME MaxDepth \in Nat, MaxLength \in Nat
  PROVE  Spec => []RangesPartition
<1>1. RangesPartition
  BY CoverAndAscend DEF RangesPartition
<1>2. QED
  BY <1>1, PTL

-------------------------------------------------------------------------------
(* Tables: what the loop over the sorted records of a range puts in each.  *)

Under(A, B) == \A a \in A, b \in B : Less(a.key, b.key)

Ascending(s) == \A i, j \in DOMAIN s : i < j => Less(s[i].key, s[j].key)

(* The records of a sequence of tables.                                    *)
Content(q) == UNION {ToSet(q[i]) : i \in DOMAIN q}

Pieces == Seq(Seq(Records) \ {<<>>})

(* Each table ascends, and each is above the ones before it.               *)
Ordered(q) ==
  /\ \A i \in DOMAIN q : Ascending(q[i])
  /\ \A i, j \in DOMAIN q : i < j => Under(ToSet(q[i]), ToSet(q[j]))

LEMMA AppendRecord ==
  ASSUME NEW s \in Seq(Records), NEW r \in Records
  PROVE  /\ Append(s, r) \in Seq(Records) \ {<<>>}
         /\ ToSet(Append(s, r)) = ToSet(s) \cup {r}
         /\ Ascending(s) /\ Under(ToSet(s), {r}) => Ascending(Append(s, r))
<1> DEFINE t == Append(s, r)
<1>1. /\ t \in Seq(Records) /\ t # <<>> /\ Len(t) = Len(s) + 1 /\ Len(s) \in Nat
      /\ DOMAIN t = 1..Len(s) + 1 /\ DOMAIN s = 1..Len(s)
      /\ \A i \in 1..Len(s) : t[i] = s[i]
      /\ t[Len(s) + 1] = r
  OBVIOUS
<1> HIDE DEF t
<1>2. ToSet(t) = ToSet(s) \cup {r}
  <2>1. ASSUME NEW x \in ToSet(t) PROVE x \in ToSet(s) \cup {r}
    BY <1>1 DEF ToSet
  <2>2. ASSUME NEW x \in ToSet(s) \cup {r} PROVE x \in ToSet(t)
    BY <1>1 DEF ToSet
  <2>3. QED
    BY <2>1, <2>2
<1>3. ASSUME Ascending(s), Under(ToSet(s), {r}), NEW i \in DOMAIN t, NEW j \in DOMAIN t, i < j
      PROVE  Less(t[i].key, t[j].key)
  <2>1. i \in 1..Len(s) /\ t[i] = s[i] /\ s[i] \in ToSet(s)
    BY <1>1, <1>3 DEF ToSet
  <2>2. CASE j \in 1..Len(s)
    <3>1. Less(s[i].key, s[j].key) /\ t[j] = s[j]
      BY <1>1, <1>3, <2>1, <2>2 DEF Ascending
    <3>2. QED
      BY <2>1, <3>1
  <2>3. CASE j = Len(s) + 1
    <3>1. t[j] = r
      BY <1>1, <2>3
    <3>2. Less(s[i].key, r.key)
      BY <1>3, <2>1 DEF Under
    <3>3. QED
      BY <2>1, <3>1, <3>2
  <2>4. QED
    BY <1>1, <2>2, <2>3
<1>4. QED
  BY <1>1, <1>2, <1>3 DEF t, Ascending

(* One sequence of tables after another.                                   *)
LEMMA JoinTables ==
  ASSUME NEW q \in Pieces, NEW u \in Pieces
  PROVE  /\ q \o u \in Pieces
         /\ Content(q \o u) = Content(q) \cup Content(u)
         /\ Ordered(q) /\ Ordered(u) /\ Under(Content(q), Content(u)) => Ordered(q \o u)
<1> DEFINE t == q \o u
<1>1. /\ t \in Pieces /\ Len(q) \in Nat /\ Len(u) \in Nat /\ Len(t) = Len(q) + Len(u)
      /\ DOMAIN t = 1..Len(q) + Len(u) /\ DOMAIN q = 1..Len(q) /\ DOMAIN u = 1..Len(u)
      /\ \A i \in 1..Len(q) : t[i] = q[i]
      /\ \A i \in 1..Len(u) : t[Len(q) + i] = u[i]
  BY DEF Pieces
<1> HIDE DEF t
<1>2. \A i \in DOMAIN t : \/ i \in DOMAIN q /\ t[i] = q[i]
                          \/ i - Len(q) \in DOMAIN u /\ t[i] = u[i - Len(q)] /\ i > Len(q)
  <2> SUFFICES ASSUME NEW i \in DOMAIN t
               PROVE  \/ i \in DOMAIN q /\ t[i] = q[i]
                      \/ i - Len(q) \in DOMAIN u /\ t[i] = u[i - Len(q)] /\ i > Len(q)
    OBVIOUS
  <2>1. CASE i <= Len(q)
    BY <1>1, <2>1
  <2>2. CASE i > Len(q)
    <3>1. i - Len(q) \in 1..Len(u) /\ Len(q) + (i - Len(q)) = i
      BY <1>1, <2>2
    <3>2. QED
      BY <1>1, <2>2, <3>1
  <2>3. QED
    BY <1>1, <2>1, <2>2
<1>3. Content(t) = Content(q) \cup Content(u)
  <2>1. ASSUME NEW x \in Content(t) PROVE x \in Content(q) \cup Content(u)
    BY <1>2 DEF Content
  <2>2. ASSUME NEW x \in Content(q) PROVE x \in Content(t)
    <3>1. PICK i \in 1..Len(q) : x \in ToSet(q[i])
      BY <1>1 DEF Content
    <3>2. i \in DOMAIN t /\ t[i] = q[i]
      BY <1>1
    <3>3. QED
      BY <3>1, <3>2 DEF Content
  <2>3. ASSUME NEW x \in Content(u) PROVE x \in Content(t)
    <3>1. PICK i \in 1..Len(u) : x \in ToSet(u[i])
      BY <1>1 DEF Content
    <3>2. Len(q) + i \in DOMAIN t /\ t[Len(q) + i] = u[i]
      BY <1>1
    <3>3. QED
      BY <3>1, <3>2 DEF Content
  <2>4. QED
    BY <2>1, <2>2, <2>3
<1>4. ASSUME Ordered(q), Ordered(u), Under(Content(q), Content(u))
      PROVE  Ordered(t)
  <2>1. \A i \in DOMAIN t : Ascending(t[i])
    BY <1>2, <1>4 DEF Ordered
  <2>2. ASSUME NEW i \in DOMAIN t, NEW j \in DOMAIN t, i < j
        PROVE  Under(ToSet(t[i]), ToSet(t[j]))
    <3>1. CASE i \in DOMAIN q /\ t[i] = q[i]
      <4>1. CASE j \in DOMAIN q /\ t[j] = q[j]
        BY <1>4, <2>2, <3>1, <4>1 DEF Ordered
      <4>2. CASE j - Len(q) \in DOMAIN u /\ t[j] = u[j - Len(q)]
        <5>1. ToSet(t[i]) \subseteq Content(q) /\ ToSet(t[j]) \subseteq Content(u)
          BY <3>1, <4>2 DEF Content
        <5>2. QED
          BY <1>4, <5>1 DEF Under
      <4>3. QED
        BY <1>2, <4>1, <4>2
    <3>2. CASE i - Len(q) \in DOMAIN u /\ t[i] = u[i - Len(q)] /\ i > Len(q)
      <4>1. j > Len(q)
        BY <1>1, <2>2, <3>2
      <4>2. j - Len(q) \in DOMAIN u /\ t[j] = u[j - Len(q)]
        BY <1>1, <1>2, <4>1
      <4>3. i - Len(q) < j - Len(q)
        BY <1>1, <2>2
      <4>4. QED
        BY <1>4, <3>2, <4>2, <4>3 DEF Ordered
    <3>3. QED
      BY <1>2, <3>1, <3>2
  <2>3. QED
    BY <2>1, <2>2 DEF Ordered
<1>5. QED
  BY <1>1, <1>3, <1>4 DEF t

LEMMA AppendTable ==
  ASSUME NEW q \in Pieces, NEW t \in Seq(Records) \ {<<>>}
  PROVE  /\ Append(q, t) \in Pieces
         /\ Content(Append(q, t)) = Content(q) \cup ToSet(t)
         /\ Ordered(q) /\ Ascending(t) /\ Under(Content(q), ToSet(t)) => Ordered(Append(q, t))
<1> DEFINE u == <<t>>
<1>1. u \in Pieces /\ DOMAIN u = {1} /\ u[1] = t /\ Append(q, t) = q \o u
  BY DEF Pieces
<1> HIDE DEF u
<1>2. Content(u) = ToSet(t)
  BY <1>1 DEF Content
<1>3. Ascending(t) => Ordered(u)
  BY <1>1 DEF Ordered
<1>4. QED
  BY <1>1, <1>2, <1>3, JoinTables

(* What the loop carries: the tables done and the one being filled hold    *)
(* all the records it has seen.                                            *)
Accumulator == [done : Pieces, bin : Seq(Records), size : Nat]

Holds(acc, records) == Content(acc.done) \cup ToSet(acc.bin) = records

InOrder(acc) ==
  Ordered(acc.done) /\ Ascending(acc.bin) /\ Under(Content(acc.done), ToSet(acc.bin))

LEMMA EmptyContent ==
  /\ <<>> \in Pieces /\ Content(<<>>) = {} /\ Ordered(<<>>)
  /\ <<>> \in Seq(Records) /\ ToSet(<<>>) = {} /\ Ascending(<<>>)
BY DEF Pieces, Content, Ordered, ToSet, Ascending

LEMMA AddedRecord ==
  ASSUME NEW acc \in Accumulator, NEW r \in Records, NEW records, Holds(acc, records)
  PROVE  /\ Added(acc, r) \in Accumulator
         /\ Holds(Added(acc, r), records \cup {r})
         /\ InOrder(acc) /\ Under(records, {r}) => InOrder(Added(acc, r))
<1> DEFINE bin == Append(acc.bin, r)
           size == acc.size + Size[r.key]
           next == Added(acc, r)
<1>1. /\ acc.done \in Pieces /\ acc.bin \in Seq(Records) /\ acc.size \in Nat
      /\ size \in Nat
  BY DbAssumption DEF Accumulator, Records
<1>2. /\ bin \in Seq(Records) \ {<<>>}
      /\ ToSet(bin) = ToSet(acc.bin) \cup {r}
      /\ Ascending(acc.bin) /\ Under(ToSet(acc.bin), {r}) => Ascending(bin)
  BY <1>1, AppendRecord
<1>3. next = IF size >= MaxFileSize
             THEN [done |-> Append(acc.done, bin), bin |-> <<>>, size |-> 0]
             ELSE [done |-> acc.done, bin |-> bin, size |-> size]
  BY DEF Added
<1> HIDE DEF bin, size, next
<1>4. Content(acc.done) \cup ToSet(acc.bin) = records
  BY DEF Holds
<1>5. InOrder(acc) /\ Under(records, {r}) =>
        /\ Ordered(acc.done) /\ Ascending(bin) /\ Under(Content(acc.done), ToSet(bin))
  BY <1>2, <1>4 DEF InOrder, Under
<1>6. CASE size >= MaxFileSize
  <2>1. next.done = Append(acc.done, bin) /\ next.bin = <<>> /\ next.size = 0
        /\ next = [done |-> next.done, bin |-> next.bin, size |-> next.size]
    BY <1>3, <1>6
  <2>2. /\ next.done \in Pieces
        /\ Content(next.done) = Content(acc.done) \cup ToSet(bin)
        /\ Ordered(acc.done) /\ Ascending(bin) /\ Under(Content(acc.done), ToSet(bin))
             => Ordered(next.done)
    BY <1>1, <1>2, <2>1, AppendTable
  <2>3. next.bin \in Seq(Records) /\ ToSet(next.bin) = {} /\ Ascending(next.bin)
    BY <2>1, EmptyContent
  <2>4. next \in Accumulator
    <3> DEFINE d == Append(acc.done, bin)  e == <<>>
    <3>1. next = [done |-> d, bin |-> e, size |-> 0] /\ d \in Pieces /\ e \in Seq(Records)
      BY <1>3, <1>6, <2>1, <2>2, EmptyContent
    <3> HIDE DEF d, e
    <3>2. QED
      BY <3>1 DEF Accumulator
  <2>5. Holds(next, records \cup {r})
    BY <1>2, <1>4, <2>2, <2>3 DEF Holds
  <2>6. InOrder(acc) /\ Under(records, {r}) => InOrder(next)
    BY <1>5, <2>2, <2>3 DEF InOrder, Under
  <2>7. QED
    BY <2>4, <2>5, <2>6 DEF next
<1>7. CASE ~(size >= MaxFileSize)
  <2>1. next.done = acc.done /\ next.bin = bin /\ next.size = size
        /\ next = [done |-> next.done, bin |-> next.bin, size |-> next.size]
    BY <1>3, <1>7
  <2>2. next \in Accumulator
    BY <1>1, <1>2, <2>1 DEF Accumulator
  <2>3. Holds(next, records \cup {r})
    BY <1>2, <1>4, <2>1 DEF Holds
  <2>4. InOrder(acc) /\ Under(records, {r}) => InOrder(next)
    BY <1>5, <2>1 DEF InOrder
  <2>5. QED
    BY <2>2, <2>3, <2>4 DEF next
<1>8. QED
  BY <1>6, <1>7

LEMMA CutLoop ==
  ASSUME NEW s \in Seq(Records)
  PROVE  \E loop : /\ Cut(s) = WithRest(loop[Len(s)])
                   /\ loop[0] = NoTables
                   /\ \A n \in 1..Len(s) : loop[n] = Added(loop[n - 1], s[n])
<1> DEFINE N == Len(s)
           round == [x \in Accumulator \X Nat |->
                       IF x[2] \in 1..N THEN Added(x[1], s[x[2]]) ELSE x[1]]
           Is(f) == f = [n \in 0..N |-> IF n = 0 THEN NoTables ELSE Added(f[n - 1], s[n])]
           loop == CHOOSE f : Is(f)
<1>1. N \in Nat /\ \A n \in 1..N : s[n] \in Records
  OBVIOUS
<1>2. NoTables \in Accumulator
  BY EmptyContent DEF NoTables, Accumulator
<1>3. \A acc \in Accumulator, r \in Records : Added(acc, r) \in Accumulator
  <2> SUFFICES ASSUME NEW acc \in Accumulator, NEW r \in Records
               PROVE  Added(acc, r) \in Accumulator
    OBVIOUS
  <2>1. Holds(acc, Content(acc.done) \cup ToSet(acc.bin))
    BY DEF Holds
  <2>2. QED
    BY <2>1, AddedRecord
<1> HIDE DEF N
<1>4. round \in [Accumulator \X Nat -> Accumulator]
  BY <1>1, <1>3
<1>5. \A acc \in Accumulator, n \in 1..N : round[<<acc, n>>] = Added(acc, s[n])
  BY <1>1
<1> HIDE DEF round
<1>6. PICK f : Iterates(f, N, Accumulator, NoTables, round)
  BY <1>1, <1>2, <1>4, Recursion
<1>7. Is(f)
  <2> DEFINE g == [n \in 0..N |-> IF n = 0 THEN NoTables ELSE Added(f[n - 1], s[n])]
  <2>1. \A n \in 0..N : f[n] = IF n = 0 THEN NoTables ELSE Added(f[n - 1], s[n])
    <3>1. \A n \in 1..N : n - 1 \in 0..N /\ n \in Nat
      BY <1>1
    <3>2. \A n \in 1..N : f[n - 1] \in Accumulator
      BY <1>6, <3>1 DEF Iterates
    <3>3. \A n \in 1..N : f[n] = Added(f[n - 1], s[n])
      BY <1>5, <1>6, <3>1, <3>2 DEF Iterates
    <3>4. QED
      BY <1>1, <1>6, <3>3 DEF Iterates
  <2>2. f = g
    <3>1. g = [n \in 0..N |-> g[n]] /\ \A n \in 0..N : g[n] = f[n]
      BY <2>1
    <3> HIDE DEF g
    <3>2. QED
      BY <1>6, <3>1 DEF Iterates
  <2>3. QED
    BY <2>2
<1>8. Is(loop)
  <2> HIDE DEF Is
  <2>1. QED
    BY <1>7
<1>9. Cut(s) = WithRest(loop[Len(s)])
  BY DEF Cut, N
<1> HIDE DEF loop
<1>10. loop[0] = NoTables /\ \A n \in 1..N : loop[n] = Added(loop[n - 1], s[n])
  <2> DEFINE g == [n \in 0..N |-> IF n = 0 THEN NoTables ELSE Added(loop[n - 1], s[n])]
  <2>1. g[0] = NoTables /\ \A n \in 1..N : g[n] = Added(loop[n - 1], s[n])
    BY <1>1
  <2>2. loop = g
    BY <1>8, Zenon
  <2> HIDE DEF g
  <2>3. QED
    BY <2>1, <2>2
<1>11. QED
  BY <1>9, <1>10 DEF N

(* The tables of a range hold its records, none is empty, and they are     *)
(* ordered if the records came in ascending order.                         *)
LEMMA CutTables ==
  ASSUME NEW s \in Seq(Records)
  PROVE  /\ Cut(s) \in Pieces
         /\ Content(Cut(s)) = ToSet(s)
         /\ Ascending(s) => Ordered(Cut(s))
<1>1. PICK loop : /\ Cut(s) = WithRest(loop[Len(s)])
                  /\ loop[0] = NoTables
                  /\ \A n \in 1..Len(s) : loop[n] = Added(loop[n - 1], s[n])
  BY CutLoop
<1> DEFINE N == Len(s)
           Seen(n) == {s[i] : i \in 1..n}
           Fine(n) == /\ loop[n] \in Accumulator
                      /\ Holds(loop[n], Seen(n))
                      /\ Ascending(s) => InOrder(loop[n])
           Rounds == {n \in Nat : n <= N => Fine(n)}
<1>2. N \in Nat /\ DOMAIN s = 1..N /\ \A n \in 1..N : s[n] \in Records
  OBVIOUS
<1> HIDE DEF N
<1>3. 0 \in Rounds
  <2>1. NoTables \in Accumulator
    BY EmptyContent DEF NoTables, Accumulator
  <2>2. NoTables.done = <<>> /\ NoTables.bin = <<>>
    BY DEF NoTables
  <2>3. Seen(0) = {}
    OBVIOUS
  <2>4. Holds(NoTables, {})
    BY <2>2, EmptyContent DEF Holds
  <2>5. InOrder(NoTables)
    BY <2>2, EmptyContent DEF InOrder, Under
  <2>6. QED
    BY <1>1, <2>1, <2>3, <2>4, <2>5
<1>4. ASSUME NEW n \in Rounds PROVE n + 1 \in Rounds
  <2>1. n \in Nat /\ n + 1 \in Nat
    OBVIOUS
  <2>2. CASE n + 1 <= N
    <3>1. n <= N /\ n + 1 \in 1..N /\ (n + 1) - 1 = n /\ s[n + 1] \in Records
      BY <1>2, <2>1, <2>2
    <3>2. Fine(n)
      BY <3>1
    <3>3. loop[n + 1] = Added(loop[n], s[n + 1])
      <4>1. loop[n + 1] = Added(loop[(n + 1) - 1], s[n + 1])
        BY <1>1, <3>1 DEF N
      <4>2. QED
        BY <3>1, <4>1
    <3>4. Seen(n + 1) = Seen(n) \cup {s[n + 1]}
      BY <2>1
    <3>5. Ascending(s) => Under(Seen(n), {s[n + 1]})
      BY <1>2, <2>1, <3>1 DEF Ascending, Under
    <3> HIDE DEF Seen
    <3>6. /\ Added(loop[n], s[n + 1]) \in Accumulator
          /\ Holds(Added(loop[n], s[n + 1]), Seen(n) \cup {s[n + 1]})
          /\ InOrder(loop[n]) /\ Under(Seen(n), {s[n + 1]}) => InOrder(Added(loop[n], s[n + 1]))
      BY <3>1, <3>2, AddedRecord
    <3>7. Fine(n + 1)
      BY <3>2, <3>3, <3>4, <3>5, <3>6
    <3> HIDE DEF Fine
    <3>8. QED
      BY <2>1, <3>7
  <2>3. CASE ~(n + 1 <= N)
    <3> HIDE DEF Fine
    <3> QED
      BY <2>1, <2>3
  <2>4. QED
    BY <2>2, <2>3
<1>5. Rounds = Nat
  <2>1. Rounds \in SUBSET Nat
    OBVIOUS
  <2> HIDE DEF Rounds
  <2>2. QED
    BY <1>3, <1>4, <2>1, Ind
<1>6. Fine(N)
  <2> HIDE DEF Fine
  <2>1. QED
    BY <1>2, <1>5
<1> DEFINE end == loop[N]
<1>7. /\ end \in Accumulator
      /\ Holds(end, Seen(N))
      /\ Ascending(s) => InOrder(end)
  BY <1>6
<1>8. Seen(N) = ToSet(s)
  BY <1>2 DEF ToSet
<1>9. Cut(s) = IF end.bin = <<>> THEN end.done ELSE Append(end.done, end.bin)
  BY <1>1 DEF WithRest, N
<1>10. end.done \in Pieces /\ end.bin \in Seq(Records)
  BY <1>7 DEF Accumulator
<1>11. Content(end.done) \cup ToSet(end.bin) = ToSet(s)
  BY <1>7, <1>8 DEF Holds
<1>12. Ascending(s) => /\ Ordered(end.done) /\ Ascending(end.bin)
                       /\ Under(Content(end.done), ToSet(end.bin))
  BY <1>7 DEF InOrder
<1> HIDE DEF end
<1>13. CASE end.bin = <<>>
  BY <1>9, <1>10, <1>11, <1>12, <1>13, EmptyContent
<1>14. CASE end.bin # <<>>
  BY <1>9, <1>10, <1>11, <1>12, <1>14, AppendTable
<1>15. QED
  BY <1>13, <1>14

(* A sorted range holds each record once; with one record per key it       *)
(* ascends.                                                                *)
LEMMA SortedRange ==
  ASSUME NEW records \in SUBSET Records, IsFiniteSet(records), NEW s \in SortedByKey(records)
  PROVE  /\ s \in Seq(Records) /\ ToSet(s) = records
         /\ (\A a, b \in records : a.key = b.key => a = b) => Ascending(s)
<1> DEFINE D == 1..Cardinality(records)
<1>1. /\ s \in [D -> records]
      /\ \A i, j \in D : i # j => s[i] # s[j]
      /\ \A i, j \in DOMAIN s : i < j => ~Less(s[j].key, s[i].key)
  BY DEF SortedByKey, SetToSeqs
<1>2. Cardinality(records) \in Nat /\ IsFiniteSet(D) /\ Cardinality(D) = Cardinality(records)
  <2>1. Cardinality(records) \in Nat
    BY FS_CardinalityType
  <2>2. QED
    BY <2>1, FS_Interval
<1>3. s \in Injection(D, records)
  BY <1>1 DEF Injection, IsInjective
<1> HIDE DEF D
<1>4. s \in Surjection(D, records)
  BY <1>2, <1>3, FS_Injection
<1>5. ToSet(s) = records
  BY <1>1, <1>4 DEF ToSet, Surjection
<1>6. s \in Seq(Records)
  <2>1. s \in [D -> Records]
    BY <1>1
  <2>2. QED
    BY <1>2, <2>1 DEF D
<1>7. ASSUME \A a, b \in records : a.key = b.key => a = b,
             NEW i \in DOMAIN s, NEW j \in DOMAIN s, i < j
      PROVE  Less(s[i].key, s[j].key)
  <2>1. i \in D /\ j \in D /\ i # j
    BY <1>1, <1>2, <1>7 DEF D
  <2>2. s[i] \in records /\ s[j] \in records /\ s[i].key # s[j].key
    BY <1>1, <1>7, <2>1
  <2>3. s[i].key \in String /\ s[j].key \in String
    BY <2>2, DbAssumption DEF Records, String
  <2>4. ~Less(s[j].key, s[i].key)
    BY <1>1, <1>7
  <2>5. QED
    BY <2>2, <2>3, <2>4, LessTotal
<1>8. QED
  BY <1>5, <1>6, <1>7 DEF Ascending

LEMMA FlattenLoop ==
  ASSUME NEW L \in Nat \ {0}, NEW seqs \in [1..L -> Pieces]
  PROVE  \E flatten : /\ FlattenSeq(seqs) = flatten[L]
                      /\ flatten[1] = seqs[1]
                      /\ \A i \in 2..L : flatten[i] = flatten[i - 1] \o seqs[i]
<1> DEFINE N == L - 1
           With(q, n) == q \o seqs[n + 1]
           join == [x \in Pieces \X Nat |-> IF x[2] \in 1..N THEN With(x[1], x[2]) ELSE x[1]]
           Is(f) == f = [i \in 1..L |-> IF i = 1 THEN seqs[i] ELSE f[i - 1] \o seqs[i]]
           flatten == CHOOSE f : Is(f)
<1>1. N \in Nat /\ Len(seqs) = L /\ L # 0 /\ \A n \in 0..N : n + 1 \in 1..L
  OBVIOUS
<1>2. seqs[1] \in Pieces /\ \A n \in 1..N : seqs[n + 1] \in Pieces
  BY <1>1
<1>3. \A q, u \in Pieces : q \o u \in Pieces
  BY JoinTables
<1> HIDE DEF N
<1>4. join \in [Pieces \X Nat -> Pieces]
  BY <1>2, <1>3
<1>5. \A q \in Pieces, n \in 1..N : join[<<q, n>>] = q \o seqs[n + 1]
  <2> HIDE DEF With
  <2>1. \A q \in Pieces, n \in 1..N : join[<<q, n>>] = With(q, n)
    BY <1>1
  <2>2. QED
    BY <2>1 DEF With
<1> HIDE DEF join
<1>6. PICK f : Iterates(f, N, Pieces, seqs[1], join)
  BY <1>1, <1>2, <1>4, Recursion
<1> DEFINE h == [i \in 1..L |-> f[i - 1]]
<1>7. Is(h)
  <2> DEFINE g == [i \in 1..L |-> IF i = 1 THEN seqs[i] ELSE h[i - 1] \o seqs[i]]
  <2>1. ASSUME NEW i \in 1..L PROVE h[i] = IF i = 1 THEN seqs[i] ELSE h[i - 1] \o seqs[i]
    <3>1. CASE i = 1
      BY <1>6, <3>1 DEF Iterates
    <3>2. CASE i # 1
      <4> DEFINE n == i - 1
      <4>1. n \in 1..N /\ n - 1 \in 0..N /\ n \in 1..L /\ n + 1 = i /\ i - 1 = n
        BY <1>1, <3>2 DEF N
      <4> HIDE DEF n
      <4>2. h[i] = f[n] /\ h[i - 1] = f[n - 1]
        BY <4>1
      <4>3. f[n - 1] \in Pieces /\ f[n] = join[<<f[n - 1], n>>]
        BY <1>6, <4>1 DEF Iterates
      <4>4. f[n] = f[n - 1] \o seqs[i]
        BY <1>5, <4>1, <4>3
      <4> HIDE DEF h
      <4>5. QED
        BY <3>2, <4>2, <4>4
    <3>3. QED
      BY <3>1, <3>2
  <2>2. h = g
    <3>1. g = [i \in 1..L |-> g[i]] /\ \A i \in 1..L : g[i] = h[i]
      BY <2>1
    <3>2. h = [i \in 1..L |-> h[i]]
      OBVIOUS
    <3> HIDE DEF g, h
    <3>3. QED
      BY <3>1, <3>2
  <2>3. QED
    BY <2>2
<1>8. Is(flatten)
  <2> HIDE DEF Is
  <2>1. QED
    BY <1>7
<1>9. FlattenSeq(seqs) = flatten[L]
  BY <1>1 DEF FlattenSeq
<1> HIDE DEF flatten
<1>10. flatten[1] = seqs[1] /\ \A i \in 2..L : flatten[i] = flatten[i - 1] \o seqs[i]
  <2> DEFINE g == [i \in 1..L |-> IF i = 1 THEN seqs[i] ELSE flatten[i - 1] \o seqs[i]]
  <2>1. g[1] = seqs[1] /\ \A i \in 2..L : g[i] = flatten[i - 1] \o seqs[i]
    <3> DEFINE Joined(i) == flatten[i - 1] \o seqs[i]
               k == [i \in 1..L |-> IF i = 1 THEN seqs[i] ELSE Joined(i)]
    <3>1. g = k
      OBVIOUS
    <3> HIDE DEF g, Joined
    <3>2. k[1] = seqs[1] /\ \A i \in 2..L : k[i] = Joined(i)
      OBVIOUS
    <3> HIDE DEF k
    <3>3. QED
      BY <3>1, <3>2 DEF Joined
  <2>2. flatten = g
    BY <1>8, Zenon
  <2> HIDE DEF g
  <2>3. QED
    BY <2>1, <2>2
<1>11. QED
  BY <1>9, <1>10

LEMMA FlattenTables ==
  ASSUME NEW L \in Nat \ {0}, NEW seqs \in [1..L -> Pieces]
  PROVE  /\ FlattenSeq(seqs) \in Pieces
         /\ Content(FlattenSeq(seqs)) = UNION {Content(seqs[i]) : i \in 1..L}
         /\ /\ \A i \in 1..L : Ordered(seqs[i])
            /\ \A i, j \in 1..L : i < j => Under(Content(seqs[i]), Content(seqs[j]))
            => Ordered(FlattenSeq(seqs))
<1>1. PICK flatten : /\ FlattenSeq(seqs) = flatten[L]
                     /\ flatten[1] = seqs[1]
                     /\ \A i \in 2..L : flatten[i] = flatten[i - 1] \o seqs[i]
  BY FlattenLoop
<1> DEFINE Apart == /\ \A i \in 1..L : Ordered(seqs[i])
                    /\ \A i, j \in 1..L : i < j => Under(Content(seqs[i]), Content(seqs[j]))
           So(n) == UNION {Content(seqs[i]) : i \in 1..n}
           Fine(n) == /\ flatten[n] \in Pieces
                      /\ Content(flatten[n]) = So(n)
                      /\ Apart => Ordered(flatten[n])
           Rounds == {n \in Nat : n + 1 <= L => Fine(n + 1)}
<1>2. 0 \in Rounds
  <2>1. seqs[1] \in Pieces /\ So(1) = Content(seqs[1])
    OBVIOUS
  <2>2. Fine(1)
    BY <1>1, <2>1
  <2> HIDE DEF Fine
  <2>3. QED
    BY <2>2
<1>3. ASSUME NEW n \in Rounds PROVE n + 1 \in Rounds
  <2> DEFINE m == n + 1
  <2>1. n \in Nat /\ m \in Nat \ {0} /\ m + 1 \in Nat
    OBVIOUS
  <2>2. CASE m + 1 <= L
    <3>1. m \in 1..L /\ m + 1 \in 2..L /\ m + 1 \in 1..L /\ (m + 1) - 1 = m
      BY <2>1, <2>2
    <3>2. Fine(m)
      BY <3>1
    <3> HIDE DEF m
    <3>3. flatten[m + 1] = flatten[m] \o seqs[m + 1]
      BY <1>1, <3>1
    <3>4. So(m + 1) = So(m) \cup Content(seqs[m + 1])
      <4>1. 1..m + 1 = 1..m \cup {m + 1}
        BY <2>1
      <4>2. QED
        BY <4>1
    <3>5. Apart => Under(So(m), Content(seqs[m + 1]))
      <4>1. \A i \in 1..m : i \in 1..L /\ i < m + 1
        BY <3>1
      <4>2. QED
        BY <3>1, <4>1 DEF Under
    <3>6. seqs[m + 1] \in Pieces /\ (Apart => Ordered(seqs[m + 1]))
      BY <3>1
    <3> HIDE DEF So, Apart
    <3>7. /\ flatten[m] \o seqs[m + 1] \in Pieces
          /\ Content(flatten[m] \o seqs[m + 1]) = So(m) \cup Content(seqs[m + 1])
          /\ Apart => Ordered(flatten[m] \o seqs[m + 1])
      BY <3>2, <3>5, <3>6, JoinTables
    <3>8. Fine(m + 1)
      BY <3>3, <3>4, <3>7
    <3> HIDE DEF Fine
    <3>9. QED
      BY <2>1, <3>8 DEF m
  <2>3. CASE ~(m + 1 <= L)
    <3> HIDE DEF Fine
    <3> QED
      BY <2>1, <2>3
  <2>4. QED
    BY <2>2, <2>3
<1>4. Rounds = Nat
  <2>1. Rounds \in SUBSET Nat
    OBVIOUS
  <2> HIDE DEF Rounds
  <2>2. QED
    BY <1>2, <1>3, <2>1, Ind
<1>5. Fine(L)
  <2>1. L - 1 \in Nat /\ (L - 1) + 1 = L
    OBVIOUS
  <2> HIDE DEF Fine
  <2>2. Fine((L - 1) + 1)
    <3>1. L - 1 \in Rounds
      <4> HIDE DEF Rounds
      <4> QED
        BY <1>4, <2>1
    <3>2. QED
      BY <2>1, <3>1
  <2>3. QED
    BY <2>1, <2>2
<1>6. QED
  BY <1>1, <1>5

(* What StartPrefix computes: the tables of a prefix hold the records of   *)
(* the prefix; with one record per key each of them ascends and is above   *)
(* the ones before it.                                                     *)
OfPrefix(p) == {r \in Stored : r.key[1] = p}

LEMMA TablesOfPrefix ==
  ASSUME NEW p \in Byte, Stored \subseteq Records, IsFiniteSet(Stored),
         NEW sorting \in Sortings(p)
  PROVE  /\ TablesOf(p, sorting) \in Pieces
         /\ Content(TablesOf(p, sorting)) = OfPrefix(p)
         /\ (\A a, b \in Stored : a.key = b.key => a = b) => Ordered(TablesOf(p, sorting))
<1> DEFINE depth == Depth[p]
           N == LastRange(p)
           L == N + 1
           Unique == \A a, b \in Stored : a.key = b.key => a = b
           seqs == [i \in 1..L |-> Cut(sorting[i - 1])]
<1>1. depth \in Nat /\ N = NMax(depth) - 1 /\ N \in Nat /\ L \in Nat \ {0}
  <2>1. depth \in Nat
    BY DbAssumption
  <2> HIDE DEF depth
  <2>2. NMax(depth) \in Nat \ {0}
    BY <2>1, NMaxType
  <2>3. N = NMax(depth) - 1
    BY DEF LastRange, depth
  <2>4. QED
    BY <2>1, <2>2, <2>3
<1>2. \A n \in 0..N : RangeOf(p, n) \in SUBSET Records /\ IsFiniteSet(RangeOf(p, n))
                      /\ RangeOf(p, n) \subseteq OfPrefix(p)
  <2>1. \A n \in 0..N : RangeOf(p, n) \subseteq Stored /\ RangeOf(p, n) \subseteq OfPrefix(p)
    BY DEF RangeOf, OfPrefix
  <2>2. QED
    BY <2>1, FS_Subset
<1>3. \A n \in 0..N : sorting[n] \in SortedByKey(RangeOf(p, n))
  BY DEF Sortings
<1>4. ASSUME NEW n \in 0..N
      PROVE  /\ sorting[n] \in Seq(Records) /\ ToSet(sorting[n]) = RangeOf(p, n)
             /\ Unique => Ascending(sorting[n])
  <2>1. Unique => \A a, b \in RangeOf(p, n) : a.key = b.key => a = b
    BY <1>2 DEF OfPrefix
  <2>2. QED
    BY <1>2, <1>3, <2>1, SortedRange
<1>5. ASSUME NEW n \in 0..N
      PROVE  /\ Cut(sorting[n]) \in Pieces
             /\ Content(Cut(sorting[n])) = RangeOf(p, n)
             /\ Unique => Ordered(Cut(sorting[n]))
  <2> HIDE DEF Unique
  <2> QED
    BY <1>4, CutTables
<1>6. \A m, n \in 0..N : m < n => Under(RangeOf(p, m), RangeOf(p, n))
  <2> SUFFICES ASSUME NEW m \in 0..N, NEW n \in 0..N, m < n,
                      NEW a \in RangeOf(p, m), NEW b \in RangeOf(p, n)
               PROVE  Less(a.key, b.key)
    BY DEF Under
  <2>1. a.key \in String /\ b.key \in String
    BY <1>2, DbAssumption DEF Records, String
  <2>2. /\ InRange(a.key, m, Lowers(p, depth)[m], NMax(depth) - 1)
        /\ InRange(b.key, n, Lowers(p, depth)[n], NMax(depth) - 1)
    BY DEF RangeOf, LastRange
  <2>3. m \in 0..NMax(depth) - 1 /\ n \in 0..NMax(depth) - 1
    BY <1>1
  <2> HIDE DEF depth
  <2>4. QED
    BY <1>1, <2>1, <2>2, <2>3, RangesAscend
<1>7. UNION {RangeOf(p, n) : n \in 0..N} = OfPrefix(p)
  <2>1. ASSUME NEW r \in OfPrefix(p) PROVE \E n \in 0..N : r \in RangeOf(p, n)
    <3>1. \E n \in 0..N : InRange(r.key, n, Lowers(p, depth)[n], NMax(depth) - 1)
      <4> HIDE DEF depth
      <4> QED
        BY <1>1, RangesCover
    <3>2. QED
      BY <3>1 DEF RangeOf, OfPrefix, LastRange
  <2>2. QED
    BY <1>2, <2>1
<1>8. TablesOf(p, sorting) = FlattenSeq(seqs)
  BY DEF TablesOf
<1> HIDE DEF depth, N, L, Unique
<1>9. \A i \in 1..L : i - 1 \in 0..N
  BY <1>1 DEF L
<1>10. /\ seqs \in [1..L -> Pieces]
       /\ \A i \in 1..L : /\ Content(seqs[i]) = RangeOf(p, i - 1)
                          /\ Unique => Ordered(seqs[i])
  BY <1>5, <1>9
<1> HIDE DEF seqs
<1>11. \A i, j \in 1..L : i < j => Under(Content(seqs[i]), Content(seqs[j]))
  <2> SUFFICES ASSUME NEW i \in 1..L, NEW j \in 1..L, i < j
               PROVE  Under(Content(seqs[i]), Content(seqs[j]))
    OBVIOUS
  <2>1. i - 1 < j - 1 /\ i - 1 \in 0..N /\ j - 1 \in 0..N
    BY <1>1, <1>9
  <2>2. QED
    BY <1>6, <1>10, <2>1
<1>12. UNION {Content(seqs[i]) : i \in 1..L} = OfPrefix(p)
  <2>1. \A n \in 0..N : n + 1 \in 1..L /\ (n + 1) - 1 = n
    BY <1>1 DEF L
  <2>2. UNION {Content(seqs[i]) : i \in 1..L} = UNION {RangeOf(p, n) : n \in 0..N}
    BY <1>9, <1>10, <2>1
  <2>3. QED
    BY <1>7, <2>2
<1>13. QED
  BY <1>1, <1>8, <1>10, <1>11, <1>12, FlattenTables DEF Unique

-------------------------------------------------------------------------------
(* The invariant of the database.                                          *)

InTables == UNION {ToSet(tables[i]) : i \in Numbers}

Apart(A, B) == Under(A, B) \/ Under(B, A)

(* The records put are what the writers hold; a record that is lost leaves *)
(* its writer broken.                                                      *)
Collected ==
  /\ accepted = Stored /\ IsFiniteSet(accepted)
  /\ \A t \in Threads : \A r \in held[t] : r.writer = t /\ r.sequence < sequence
  /\ \A t \in Threads : writer[t] # "open" => held[t] = {}
  /\ lost => \E t \in Threads : writer[t] = "broken"

(* Where the owner is, and what it has found out so far.                   *)
Owning ==
  /\ result = "none" <=> phase \in {"open", "building", "manifest", "current"}
  /\ phase \in {"building", "manifest", "current"} => ~lost
  /\ phase = "open" => \A p \in Byte : build[p] = "idle"
  /\ phase # "building" => \A p \in Byte : build[p] # "writing"
  /\ phase \in {"manifest", "current"} => \A p \in Byte : build[p] = "done"
  /\ result = "none" => current = "none"

(* What MANIFEST says once it is there to be read.                         *)
Listed ==
  phase = "current" \/ current # "none" =>
    /\ manifest = [files |-> Numbers, nextFile |-> NextFile, lastSequence |-> sequence]
    /\ phase # "open" /\ ~lost
    /\ \A p \in Byte : build[p] = "done"

(* File numbers are drawn once: a table being written replaces no other.   *)
Numbering ==
  /\ Numbers \subseteq 1..number - 1
  /\ \A p \in Byte : file[p] \notin Numbers
  /\ \A p, q \in Byte : p # q /\ file[p] = file[q] => file[p] = 0
  /\ \A p \in Byte : builder[p] = "open" => file[p] # 0
  /\ \A p \in Byte : file[p] # 0 => todo[p] # <<>>

(* The tables written and the tables to write hold the records of every    *)
(* prefix begun.                                                           *)
Covered ==
  /\ tables \in [Numbers -> Seq(Records) \ {<<>>}]
  /\ todo \in [Byte -> Pieces]
  /\ \A p \in Byte : build[p] = "done" => todo[p] = <<>>
  /\ \A p \in Byte : build[p] = "idle" =>
       todo[p] = <<>> /\ \A r \in InTables : r.key[1] # p
  /\ \A p \in Byte : build[p] # "idle" =>
       OfPrefix(p) = Content(todo[p]) \cup {r \in InTables : r.key[1] = p}

DbInv == TypeOK /\ Collected /\ Owning /\ Listed /\ Numbering /\ Covered

(* With one record per key: the tables written and to write are sorted, of *)
(* one prefix each and disjoint.                                           *)
Sorted ==
  /\ \A a, b \in accepted : a.key = b.key => a = b
  /\ \A i \in Numbers : Ascending(tables[i]) /\ \E p \in Byte : \A r \in ToSet(tables[i]) : r.key[1] = p
  /\ \A i, j \in Numbers : i # j => Apart(ToSet(tables[i]), ToSet(tables[j]))
  /\ \A p \in Byte : Ordered(todo[p])
  /\ \A i \in Numbers, p \in Byte : \A k \in DOMAIN todo[p] :
       Apart(ToSet(tables[i]), ToSet(todo[p][k]))

-------------------------------------------------------------------------------
LEMMA TypeInit ==
  Init => TypeOK
<1> SUFFICES ASSUME Init PROVE TypeOK
  OBVIOUS
<1>1. sequence \in 0..MaxPuts /\ number \in Nat \ {0} /\ file \in [Byte -> 0..number-1]
  BY DbAssumption DEF Init
<1>2. held \in [Threads -> SUBSET Records] /\ accepted \subseteq Records /\ dirs \subseteq Threads
  BY DEF Init
<1>3. QED
  BY <1>1, <1>2 DEF Init, TypeOK

LEMMA TypeStep ==
  TypeOK /\ [Next]_vars => TypeOK'
<1> SUFFICES ASSUME TypeOK, [Next]_vars PROVE TypeOK'
  OBVIOUS
<1> USE DEF TypeOK, Numbers
<1>1. ASSUME NEW t \in Threads, NEW k \in Keys, Put(t, k) PROVE TypeOK'
  <2> DEFINE r == [key |-> k, sequence |-> sequence, writer |-> t]
  <2>1. sequence \in 0..MaxPuts - 1 /\ sequence + 1 \in 0..MaxPuts
    BY <1>1, DbAssumption DEF Put, MayPut
  <2>2. r \in Records
    BY <2>1 DEF Records
  <2>3. held' = [held EXCEPT ![t] = @ \cup {r}] /\ accepted' = accepted \cup {r}
    BY <1>1 DEF Put
  <2> HIDE DEF r
  <2>4. held' \in [Threads -> SUBSET Records] /\ accepted' \subseteq Records
    BY <2>2, <2>3
  <2>5. QED
    BY <1>1, <2>1, <2>4 DEF Put, building, publishing
<1>2. ASSUME NEW t \in Threads, NEW k \in Keys, PutCannotOpen(t, k) PROVE TypeOK'
  BY <1>2 DEF PutCannotOpen, Break, building, publishing
<1>3. ASSUME NEW t \in Threads, NEW k \in Keys, PutFails(t, k) PROVE TypeOK'
  BY <1>3, DbAssumption DEF PutFails, MayPut, Break, building, publishing
<1>4. CASE Closing
  BY <1>4 DEF Closing, CancelClose, CloseWriters, Abandon, CloseEmpty, Ends, DropDirs, Answers,
              putting, building, publishing
<1>5. ASSUME NEW p \in Byte, Prefix(p) PROVE TypeOK'
  <2>1. CASE StartPrefix(p)
    BY <2>1 DEF StartPrefix, putting, publishing
  <2>2. CASE CannotReadKeys(p)
    BY <2>2 DEF CannotReadKeys, Fails, putting, publishing
  <2>3. CASE DrawNumber(p)
    BY <2>3 DEF DrawNumber, Advanced, putting, publishing
  <2>4. CASE OpenTable(p)
    BY <2>4 DEF OpenTable, Fails, putting, publishing
  <2>5. CASE FinishTable(p)
    BY <2>5 DEF FinishTable, putting, publishing
  <2>6. CASE CannotReadValues(p)
    BY <2>6 DEF CannotReadValues, Fails, putting, publishing
  <2>7. CASE EndPrefix(p)
    BY <2>7 DEF EndPrefix, Fails, putting, publishing
  <2>8. QED
    BY <1>5, <2>1, <2>2, <2>3, <2>4, <2>5, <2>6, <2>7 DEF Prefix
<1>6. CASE JoinPrefixes
  BY <1>6 DEF JoinPrefixes, Ends, DropDirs, putting, building, publishing
<1>7. ASSUME NEW a \in Answers, WriteManifest(a) PROVE TypeOK'
  BY <1>7 DEF WriteManifest, Ends, DropDirs, Answers, putting, building
<1>8. ASSUME NEW a \in Answers, WriteCurrent(a) PROVE TypeOK'
  BY <1>8 DEF WriteCurrent, Ends, DropDirs, Answers, putting, building
<1>9. CASE Destroy
  BY <1>9 DEF Destroy, DropDirs, putting, building, publishing
<1>10. CASE UNCHANGED vars
  BY <1>10 DEF vars, putting, building, publishing
<1>11. QED
  BY <1>1, <1>2, <1>3, <1>4, <1>5, <1>6, <1>7, <1>8, <1>9, <1>10 DEF Next, Putting, Publishing

(* The steps that leave the writers alone.                                 *)
LEMMA OnlyPutting ==
  ASSUME [Next]_vars
  PROVE  Putting \/ UNCHANGED putting
<1>1. CASE Closing
  BY <1>1 DEF Closing, CancelClose, CloseWriters, Abandon, CloseEmpty
<1>2. ASSUME NEW p \in Byte, Prefix(p) PROVE UNCHANGED putting
  BY <1>2 DEF Prefix, StartPrefix, CannotReadKeys, DrawNumber, OpenTable, FinishTable,
              CannotReadValues, EndPrefix
<1>3. CASE Publishing
  BY <1>3 DEF Publishing, JoinPrefixes, WriteManifest, WriteCurrent
<1>4. CASE Destroy
  BY <1>4 DEF Destroy
<1>5. CASE UNCHANGED vars
  BY <1>5 DEF vars
<1>6. QED
  BY <1>1, <1>2, <1>3, <1>4, <1>5 DEF Next

LEMMA CollectedInit ==
  Init => Collected
<1> SUFFICES ASSUME Init PROVE Collected
  OBVIOUS
<1>1. Stored = {} /\ accepted = {}
  BY DEF Init, Stored
<1>2. QED
  BY <1>1, FS_EmptySet DEF Init, Collected

LEMMA CollectedStep ==
  TypeOK /\ Collected /\ [Next]_vars => Collected'
<1> SUFFICES ASSUME TypeOK, Collected, [Next]_vars PROVE Collected'
  OBVIOUS
<1>1. ASSUME NEW t \in Threads, NEW k \in Keys, Put(t, k) PROVE Collected'
  <2> DEFINE r == [key |-> k, sequence |-> sequence, writer |-> t]
  <2>1. /\ held' = [held EXCEPT ![t] = @ \cup {r}] /\ accepted' = accepted \cup {r}
        /\ sequence' = sequence + 1 /\ writer' = [writer EXCEPT ![t] = "open"]
        /\ lost' = lost /\ writer[t] # "broken"
    BY <1>1 DEF Put
  <2>2. r.writer = t /\ r.sequence = sequence /\ sequence \in Int
    BY DEF TypeOK
  <2> HIDE DEF r
  <2>3. \A u \in Threads : held'[u] = IF u = t THEN held[u] \cup {r} ELSE held[u]
    BY <2>1 DEF TypeOK
  <2>4. Stored' = Stored \cup {r}
    BY <2>3 DEF Stored
  <2>5. IsFiniteSet(accepted')
    BY <2>1, FS_AddElement DEF Collected
  <2>6. \A u \in Threads : \A s \in held'[u] : s.writer = u /\ s.sequence < sequence'
    <3> SUFFICES ASSUME NEW u \in Threads, NEW s \in held'[u]
                 PROVE  s.writer = u /\ s.sequence < sequence'
      OBVIOUS
    <3>1. CASE s \in held[u]
      <4>1. s.writer = u /\ s.sequence < sequence /\ s.sequence \in Int
        BY <3>1 DEF Collected, TypeOK, Records
      <4>2. QED
        BY <2>1, <2>2, <4>1
    <3>2. CASE s = r /\ u = t
      BY <2>1, <2>2, <3>2
    <3>3. QED
      BY <2>3, <3>1, <3>2
  <2>7. \A u \in Threads : writer'[u] # "open" => held'[u] = {}
    BY <2>1, <2>3 DEF TypeOK, Collected
  <2>8. lost' => \E u \in Threads : writer'[u] = "broken"
    BY <2>1 DEF TypeOK, Collected
  <2>9. QED
    BY <2>1, <2>4, <2>5, <2>6, <2>7, <2>8 DEF Collected
<1>2. ASSUME NEW t \in Threads, Break(t), sequence' \in {sequence, sequence + 1}
      PROVE  Collected'
  <2>1. /\ writer' = [writer EXCEPT ![t] = "broken"] /\ held' = [held EXCEPT ![t] = {}]
        /\ accepted' = accepted \ held[t]
    BY <1>2 DEF Break
  <2>2. \A u \in Threads : held'[u] = IF u = t THEN {} ELSE held[u]
    BY <2>1 DEF TypeOK
  <2>3. Stored' = Stored \ held[t]
    <3>1. \A u \in Threads : u # t => held[u] \cap held[t] = {}
      BY DEF Collected
    <3>2. QED
      BY <2>2, <3>1 DEF Stored
  <2>4. IsFiniteSet(accepted')
    BY <2>1, FS_Subset DEF Collected
  <2>5. \A u \in Threads : \A s \in held'[u] : s.writer = u /\ s.sequence < sequence'
    <3> SUFFICES ASSUME NEW u \in Threads, NEW s \in held'[u]
                 PROVE  s.writer = u /\ s.sequence < sequence'
      OBVIOUS
    <3>1. s \in held[u]
      BY <2>2
    <3>2. s.writer = u /\ s.sequence < sequence /\ s.sequence \in Int /\ sequence \in Int
      BY <3>1 DEF Collected, TypeOK, Records
    <3>3. QED
      BY <1>2, <3>2
  <2>6. \A u \in Threads : writer'[u] # "open" => held'[u] = {}
    BY <2>1, <2>2 DEF TypeOK, Collected
  <2>7. writer'[t] = "broken"
    BY <2>1 DEF TypeOK
  <2>8. QED
    BY <2>1, <2>3, <2>4, <2>5, <2>6, <2>7 DEF Collected
<1>3. CASE UNCHANGED putting
  BY <1>3 DEF putting, Collected, Stored
<1>4. QED
  <2>1. CASE Putting
    BY <1>1, <1>2, <2>1 DEF Putting, PutCannotOpen, PutFails
  <2>2. QED
    BY <1>3, <2>1, OnlyPutting

LEMMA OwningInit ==
  Init => Owning
BY DEF Init, Owning

LEMMA OwningStep ==
  TypeOK /\ Collected /\ Owning /\ [Next]_vars => Owning'
<1> SUFFICES ASSUME TypeOK, Collected, Owning, [Next]_vars PROVE Owning'
  OBVIOUS
<1>1. CASE Putting
  <2>1. phase = "open" /\ UNCHANGED <<phase, building, publishing, result>>
    BY <1>1 DEF Putting, Put, PutCannotOpen, PutFails, Break, MayPut
  <2>2. QED
    BY <2>1 DEF Owning, building, publishing
<1>2. CASE CloseWriters
  <2>1. UNCHANGED <<lost, build, current>> /\ phase = "open"
    BY <1>2 DEF CloseWriters, putting, building, publishing
  <2>2. CASE Broken # {}
    BY <1>2, <2>1, <2>2 DEF CloseWriters, Ends, Owning
  <2>3. CASE Broken = {}
    <3>1. ~lost
      BY <2>3 DEF Collected, Broken, Writers
    <3>2. phase' = "building" /\ result' = result
      BY <1>2, <2>3 DEF CloseWriters
    <3>3. QED
      BY <2>1, <3>1, <3>2 DEF Owning
  <2>4. QED
    BY <2>2, <2>3
<1>3. CASE CancelClose \/ Abandon \/ \E a \in Answers : CloseEmpty(a)
  <2>1. phase = "open" /\ UNCHANGED <<lost, build, current>> /\ phase' = "returned" /\ result' \in Answers
    BY <1>3 DEF CancelClose, Abandon, CloseEmpty, Ends, Answers, putting, building, publishing
  <2>2. QED
    BY <2>1 DEF Owning, Answers
<1>4. ASSUME NEW p \in Byte, Prefix(p) PROVE Owning'
  <2>1. UNCHANGED <<lost, phase, current, result>>
    BY <1>4 DEF Prefix, StartPrefix, CannotReadKeys, DrawNumber, OpenTable, FinishTable,
                CannotReadValues, EndPrefix, putting, publishing
  <2>2. phase = "building"
    BY <1>4 DEF Prefix, StartPrefix, Claims, CannotReadKeys, DrawNumber, OpenTable, FinishTable,
                CannotReadValues, EndPrefix, Owning
  <2>3. QED
    BY <2>1, <2>2 DEF Owning
<1>5. CASE JoinPrefixes
  <2>1. UNCHANGED <<lost, build, current>> /\ phase = "building"
    BY <1>5 DEF JoinPrefixes, putting, building, publishing
  <2>2. \A p \in Byte : build[p] # "writing"
    BY <1>5 DEF JoinPrefixes, Joinable, InFlight
  <2>3. CASE Errors # {}
    BY <1>5, <2>1, <2>2, <2>3 DEF JoinPrefixes, Ends, Owning
  <2>4. CASE Errors = {}
    <3>1. \A p \in Byte : build[p] = "done"
      BY <1>5, <2>2, <2>4 DEF JoinPrefixes, Joinable, Errors, Idle, TypeOK
    <3>2. phase' = "manifest" /\ result' = result
      BY <1>5, <2>4 DEF JoinPrefixes
    <3>3. QED
      BY <2>1, <3>1, <3>2 DEF Owning
  <2>5. QED
    BY <2>3, <2>4
<1>6. ASSUME NEW a \in Answers, WriteManifest(a) PROVE Owning'
  <2>1. UNCHANGED <<lost, build, current>> /\ phase = "manifest"
    BY <1>6 DEF WriteManifest, putting, building
  <2>2. \/ phase' = "current" /\ result' = result
        \/ phase' = "returned" /\ result' = "error"
    BY <1>6 DEF WriteManifest, Ends
  <2>3. QED
    BY <2>1, <2>2 DEF Owning
<1>7. ASSUME NEW a \in Answers, WriteCurrent(a) PROVE Owning'
  BY <1>7 DEF WriteCurrent, Ends, Answers, Owning, putting, building
<1>8. CASE Destroy
  BY <1>8 DEF Destroy, Owning, putting, building, publishing
<1>9. CASE UNCHANGED vars
  BY <1>9 DEF vars, Owning, putting, building, publishing
<1>10. QED
  BY <1>1, <1>2, <1>3, <1>4, <1>5, <1>6, <1>7, <1>8, <1>9 DEF Next, Closing, Publishing

LEMMA ListedInit ==
  Init => Listed
BY DEF Init, Listed

LEMMA ListedStep ==
  Owning /\ Listed /\ [Next]_vars => Listed'
<1> SUFFICES ASSUME Owning, Listed, [Next]_vars PROVE Listed'
  OBVIOUS
<1>1. CASE Putting \/ Closing
  <2>1. phase = "open"
    BY <1>1 DEF Putting, Put, PutCannotOpen, PutFails, MayPut, Closing, CancelClose, CloseWriters,
                Abandon, CloseEmpty
  <2>2. phase' # "current" /\ current' = current
    BY <1>1, <2>1 DEF Putting, Put, PutCannotOpen, PutFails, Break, Closing, CancelClose, CloseWriters,
                      Abandon, CloseEmpty, Ends, publishing
  <2>3. QED
    BY <2>1, <2>2 DEF Listed, Owning
<1>2. ASSUME NEW p \in Byte, Prefix(p) PROVE Listed'
  <2>1. UNCHANGED <<phase, current>> /\ phase = "building"
    BY <1>2 DEF Prefix, StartPrefix, Claims, CannotReadKeys, DrawNumber, OpenTable, FinishTable,
                CannotReadValues, EndPrefix, publishing, Owning
  <2>2. QED
    BY <2>1 DEF Listed, Owning
<1>3. CASE JoinPrefixes
  <2>1. phase' # "current" /\ current' = current /\ current = "none"
    BY <1>3 DEF JoinPrefixes, Ends, publishing, Owning
  <2>2. QED
    BY <2>1 DEF Listed
<1>4. ASSUME NEW a \in Answers, WriteManifest(a) PROVE Listed'
  <2>1. phase = "manifest" /\ UNCHANGED <<sequence, lost, build, tables, current>> /\ current = "none"
    BY <1>4 DEF WriteManifest, putting, building, Owning
  <2>2. CASE a = "ok"
    <3>1. phase' = "current"
          /\ manifest' = [files |-> Numbers, nextFile |-> NextFile, lastSequence |-> sequence]
      BY <1>4, <2>2 DEF WriteManifest
    <3>2. QED
      BY <2>1, <3>1 DEF Listed, Owning, NextFile, Numbers
  <2>3. CASE a # "ok"
    <3>1. phase' = "returned"
      BY <1>4, <2>3 DEF WriteManifest, Ends
    <3>2. QED
      BY <2>1, <3>1 DEF Listed
  <2>4. QED
    BY <2>2, <2>3
<1>5. ASSUME NEW a \in Answers, WriteCurrent(a) PROVE Listed'
  BY <1>5 DEF WriteCurrent, Ends, putting, building, Listed, NextFile, Numbers
<1>6. CASE Destroy
  BY <1>6 DEF Destroy, putting, building, publishing, Listed, NextFile, Numbers
<1>7. CASE UNCHANGED vars
  BY <1>7 DEF vars, putting, building, publishing, Listed, NextFile, Numbers
<1>8. QED
  BY <1>1, <1>2, <1>3, <1>4, <1>5, <1>6, <1>7 DEF Next, Publishing

(* The steps that leave the tables, and what is made of them, alone.       *)
LEMMA OnlyPrefixes ==
  ASSUME [Next]_vars
  PROVE  (\E p \in Byte : Prefix(p)) \/ UNCHANGED building
<1>1. CASE Putting
  BY <1>1 DEF Putting, Put, PutCannotOpen, PutFails, Break
<1>2. CASE Closing
  BY <1>2 DEF Closing, CancelClose, CloseWriters, Abandon, CloseEmpty
<1>3. CASE Publishing
  BY <1>3 DEF Publishing, JoinPrefixes, WriteManifest, WriteCurrent
<1>4. CASE Destroy
  BY <1>4 DEF Destroy
<1>5. CASE UNCHANGED vars
  BY <1>5 DEF vars
<1>6. QED
  BY <1>1, <1>2, <1>3, <1>4, <1>5 DEF Next

LEMMA NumberingInit ==
  Init => Numbering
<1> SUFFICES ASSUME Init PROVE Numbering
  OBVIOUS
<1>1. Numbers = {}
  BY DEF Init, Numbers
<1>2. QED
  BY <1>1 DEF Init, Numbering

(* A table that is drawn a number gets one no other has.                   *)
LEMMA NumberingStep ==
  TypeOK /\ Covered /\ Numbering /\ [Next]_vars => Numbering'
<1> SUFFICES ASSUME TypeOK, Covered, Numbering, [Next]_vars PROVE Numbering'
  OBVIOUS
<1>1. file \in [Byte -> Nat] /\ number \in Nat \ {0} /\ \A p \in Byte : file[p] < number
  BY DEF TypeOK
<1>2. ASSUME NEW p \in Byte, Prefix(p) PROVE Numbering'
  <2>1. CASE StartPrefix(p)
    <3>1. UNCHANGED <<file, number, tables, builder>>
      BY <2>1 DEF StartPrefix
    <3>2. PICK tabs : todo' = [todo EXCEPT ![p] = tabs]
      BY <2>1 DEF StartPrefix
    <3>3. file[p] = 0
      BY <2>1 DEF StartPrefix, Claims, Idle, Covered, Numbering
    <3>4. \A q \in Byte : file'[q] # 0 => todo'[q] # <<>>
      BY <3>1, <3>2, <3>3 DEF Numbering, Covered
    <3>5. QED
      BY <3>1, <3>4 DEF Numbering, Numbers
  <2>2. CASE CannotReadKeys(p) \/ CannotReadValues(p) \/ EndPrefix(p)
    BY <2>2 DEF CannotReadKeys, CannotReadValues, EndPrefix, Numbering, Numbers
  <2>3. CASE DrawNumber(p)
    <3>1. /\ UNCHANGED <<tables, builder, todo>> /\ number' = number + 1
          /\ file' = [file EXCEPT ![p] = number] /\ todo[p] # <<>>
      BY <2>3 DEF DrawNumber, Advanced
    <3>2. \A q \in Byte : file'[q] = IF q = p THEN number ELSE file[q]
      BY <1>1, <3>1
    <3>3. Numbers' \subseteq 1..number' - 1 /\ number \notin Numbers
      BY <1>1, <3>1 DEF Numbering, Numbers
    <3>4. \A q \in Byte : file'[q] \notin Numbers'
      BY <3>1, <3>2, <3>3 DEF Numbering, Numbers
    <3>5. \A q, s \in Byte : q # s /\ file'[q] = file'[s] => file'[q] = 0
      BY <1>1, <3>2 DEF Numbering
    <3>6. QED
      BY <1>1, <3>1, <3>2, <3>3, <3>4, <3>5 DEF Numbering
  <2>4. CASE OpenTable(p)
    <3>1. UNCHANGED <<file, number, tables, todo>> /\ file[p] # 0
          /\ (builder' = [builder EXCEPT ![p] = "open"] \/ builder' = builder)
      BY <2>4 DEF OpenTable
    <3>2. \A q \in Byte : builder'[q] = "open" => file'[q] # 0
      BY <3>1 DEF Numbering, TypeOK
    <3>3. QED
      BY <3>1, <3>2 DEF Numbering, Numbers
  <2>5. CASE FinishTable(p)
    <3>1. /\ builder[p] = "open" /\ number' = number
          /\ builder' = [builder EXCEPT ![p] = "closed"] /\ file' = [file EXCEPT ![p] = 0]
          /\ todo' = [todo EXCEPT ![p] = Tail(@)]
          /\ Numbers' = Numbers \cup {file[p]}
      BY <2>5 DEF FinishTable, Numbers
    <3>2. \A q \in Byte : /\ file'[q] = IF q = p THEN 0 ELSE file[q]
                          /\ builder'[q] = IF q = p THEN "closed" ELSE builder[q]
                          /\ q # p => todo'[q] = todo[q]
      BY <1>1, <3>1 DEF TypeOK, Covered
    <3>3. file[p] # 0 /\ file[p] \in 1..number - 1
      BY <1>1, <3>1 DEF Numbering
    <3>4. Numbers' \subseteq 1..number' - 1
      BY <3>1, <3>3 DEF Numbering
    <3>5. \A q \in Byte : file'[q] \notin Numbers'
      BY <3>1, <3>2, <3>3, <3>4 DEF Numbering
    <3>6. QED
      BY <3>2, <3>4, <3>5 DEF Numbering
  <2>6. QED
    BY <1>2, <2>1, <2>2, <2>3, <2>4, <2>5 DEF Prefix
<1>3. CASE UNCHANGED building
  BY <1>3 DEF building, Numbering, Numbers
<1>4. QED
  BY <1>2, <1>3, OnlyPrefixes

LEMMA HeadTail ==
  ASSUME NEW q \in Pieces, q # <<>>
  PROVE  /\ Head(q) \in Seq(Records) \ {<<>>} /\ Head(q) = q[1] /\ 1 \in DOMAIN q
         /\ Tail(q) \in Pieces
         /\ \A k \in DOMAIN Tail(q) : k + 1 \in DOMAIN q /\ k + 1 # 1 /\ Tail(q)[k] = q[k + 1]
         /\ Content(q) = ToSet(Head(q)) \cup Content(Tail(q))
         /\ Ordered(q) => Ascending(Head(q)) /\ Ordered(Tail(q))
<1> DEFINE t == Tail(q)
<1>1. /\ Head(q) \in Seq(Records) \ {<<>>} /\ Head(q) = q[1]
      /\ t \in Pieces /\ Len(q) \in Nat /\ Len(q) # 0 /\ Len(t) = Len(q) - 1
      /\ DOMAIN q = 1..Len(q) /\ DOMAIN t = 1..Len(q) - 1
      /\ \A k \in 1..Len(q) - 1 : t[k] = q[k + 1]
  BY DEF Pieces
<1> HIDE DEF t
<1>2. \A k \in DOMAIN t : k + 1 \in DOMAIN q /\ k + 1 # 1 /\ k \in Nat /\ t[k] = q[k + 1]
  BY <1>1
<1>3. 1 \in DOMAIN q
  BY <1>1
<1>4. Content(q) = ToSet(Head(q)) \cup Content(t)
  <2>1. ASSUME NEW x \in Content(q) PROVE x \in ToSet(Head(q)) \cup Content(t)
    <3>1. PICK i \in DOMAIN q : x \in ToSet(q[i])
      BY DEF Content
    <3>2. CASE i = 1
      BY <1>1, <3>1, <3>2
    <3>3. CASE i # 1
      <4>1. i - 1 \in DOMAIN t /\ (i - 1) + 1 = i
        BY <1>1, <3>3
      <4>2. t[i - 1] = q[i]
        BY <1>2, <4>1
      <4>3. QED
        BY <3>1, <4>1, <4>2 DEF Content
    <3>4. QED
      BY <3>2, <3>3
  <2>2. ToSet(Head(q)) \subseteq Content(q)
    BY <1>1, <1>3 DEF Content
  <2>3. Content(t) \subseteq Content(q)
    BY <1>2 DEF Content
  <2>4. QED
    BY <2>1, <2>2, <2>3
<1>5. Ordered(q) => Ascending(Head(q)) /\ Ordered(t)
  <2> SUFFICES ASSUME Ordered(q) PROVE Ascending(Head(q)) /\ Ordered(t)
    OBVIOUS
  <2>1. \A i \in DOMAIN t : Ascending(t[i])
    BY <1>2 DEF Ordered
  <2>2. \A i, j \in DOMAIN t : i < j => Under(ToSet(t[i]), ToSet(t[j]))
    BY <1>2 DEF Ordered
  <2>3. QED
    BY <1>1, <1>3, <2>1, <2>2 DEF Ordered
<1>6. QED
  BY <1>1, <1>2, <1>3, <1>4, <1>5 DEF t

LEMMA CoveredInit ==
  Init => Covered
<1> SUFFICES ASSUME Init PROVE Covered
  OBVIOUS
<1>1. Numbers = {} /\ tables = [i \in {} |-> <<>>]
  BY DEF Init, Numbers
<1>2. InTables = {}
  BY <1>1 DEF InTables
<1>3. QED
  BY <1>1, <1>2, EmptyContent DEF Init, Covered

(* What FinishTable adds to the tables.                                    *)
LEMMA FinishedTable ==
  ASSUME TypeOK, Numbering, Covered, NEW p \in Byte, FinishTable(p)
  PROVE  /\ todo[p] # <<>> /\ file[p] \notin Numbers
         /\ Numbers' = Numbers \cup {file[p]}
         /\ tables'[file[p]] = Head(todo[p])
         /\ \A i \in Numbers : tables'[i] = tables[i]
         /\ tables' \in [Numbers' -> Seq(Records) \ {<<>>}]
         /\ todo'[p] = Tail(todo[p]) /\ \A q \in Byte : q # p => todo'[q] = todo[q]
         /\ todo' \in [Byte -> Pieces]
         /\ InTables' = InTables \cup ToSet(Head(todo[p]))
         /\ \A r \in ToSet(Head(todo[p])) : r.key[1] = p
<1>1. todo[p] # <<>> /\ file[p] \notin Numbers /\ todo[p] \in Pieces
  BY DEF FinishTable, Numbering, Covered
<1>2. /\ Head(todo[p]) \in Seq(Records) \ {<<>>} /\ Tail(todo[p]) \in Pieces
      /\ Content(todo[p]) = ToSet(Head(todo[p])) \cup Content(Tail(todo[p]))
  BY <1>1, HeadTail
<1>3. tables' = [i \in Numbers \cup {file[p]} |-> IF i = file[p] THEN Head(todo[p]) ELSE tables[i]]
  BY DEF FinishTable
<1>4. Numbers' = Numbers \cup {file[p]}
  BY <1>3 DEF Numbers
<1>5. tables'[file[p]] = Head(todo[p]) /\ \A i \in Numbers : tables'[i] = tables[i]
  BY <1>1, <1>3
<1>6. tables' \in [Numbers' -> Seq(Records) \ {<<>>}]
  <2>1. \A i \in Numbers \cup {file[p]} :
          (IF i = file[p] THEN Head(todo[p]) ELSE tables[i]) \in Seq(Records) \ {<<>>}
    BY <1>2 DEF Covered
  <2>2. QED
    BY <1>3, <1>4, <2>1
<1>7. todo' = [todo EXCEPT ![p] = Tail(@)]
  BY DEF FinishTable
<1>8. /\ todo'[p] = Tail(todo[p]) /\ \A q \in Byte : q # p => todo'[q] = todo[q]
      /\ todo' \in [Byte -> Pieces]
  BY <1>2, <1>7 DEF Covered
<1>9. InTables' = InTables \cup ToSet(Head(todo[p]))
  BY <1>4, <1>5 DEF InTables
<1>10. \A r \in ToSet(Head(todo[p])) : r.key[1] = p
  <2>1. build[p] # "idle"
    BY DEF FinishTable
  <2>2. Content(todo[p]) \subseteq OfPrefix(p)
    BY <2>1 DEF Covered
  <2>3. QED
    BY <1>2, <2>2 DEF OfPrefix
<1>11. QED
  BY <1>1, <1>4, <1>5, <1>6, <1>8, <1>9, <1>10

LEMMA CoveredStep ==
  TypeOK /\ Collected /\ Owning /\ Numbering /\ Covered /\ [Next]_vars => Covered'
<1> SUFFICES ASSUME TypeOK, Collected, Owning, Numbering, Covered, [Next]_vars PROVE Covered'
  OBVIOUS
<1>1. ASSUME NEW p \in Byte, Prefix(p) PROVE Covered'
  <2>1. held' = held
    BY <1>1 DEF Prefix, StartPrefix, CannotReadKeys, DrawNumber, OpenTable, FinishTable,
                CannotReadValues, EndPrefix, putting
  <2>2. \A q \in Byte : OfPrefix(q)' = OfPrefix(q)
    BY <2>1 DEF OfPrefix, Stored
  <2>3. CASE StartPrefix(p)
    <3>1. PICK s \in Sortings(p) : todo' = [todo EXCEPT ![p] = TablesOf(p, s)]
      BY <2>3 DEF StartPrefix
    <3>2. tables' = tables /\ build' = [build EXCEPT ![p] = "writing"] /\ build[p] = "idle"
      BY <2>3 DEF StartPrefix, Claims, Idle
    <3> DEFINE made == TablesOf(p, s)
    <3>3. made \in Pieces /\ Content(made) = OfPrefix(p)
      <4>1. Stored \subseteq Records /\ IsFiniteSet(Stored)
        BY DEF Collected, TypeOK
      <4>2. QED
        BY <4>1, TablesOfPrefix
    <3> HIDE DEF made
    <3>4. \A q \in Byte : /\ todo'[q] = IF q = p THEN made ELSE todo[q]
                          /\ build'[q] = IF q = p THEN "writing" ELSE build[q]
      BY <3>1, <3>2 DEF Covered, TypeOK, made
    <3>5. todo' \in [Byte -> Pieces]
      BY <3>1, <3>3 DEF Covered, made
    <3>6. InTables' = InTables /\ Numbers' = Numbers
      BY <3>2 DEF InTables, Numbers
    <3>7. OfPrefix(p) = Content(made) \cup {r \in InTables : r.key[1] = p}
      BY <3>2, <3>3 DEF Covered
    <3>8. \A q \in Byte : build'[q] # "idle" =>
            OfPrefix(q)' = Content(todo'[q]) \cup {r \in InTables' : r.key[1] = q}
      BY <2>2, <3>4, <3>6, <3>7 DEF Covered
    <3>9. QED
      BY <3>2, <3>4, <3>5, <3>6, <3>8 DEF Covered
  <2>4. CASE FinishTable(p)
    <3>1. /\ todo[p] # <<>>
          /\ tables' \in [Numbers' -> Seq(Records) \ {<<>>}]
          /\ todo'[p] = Tail(todo[p]) /\ \A q \in Byte : q # p => todo'[q] = todo[q]
          /\ todo' \in [Byte -> Pieces]
          /\ InTables' = InTables \cup ToSet(Head(todo[p]))
          /\ \A r \in ToSet(Head(todo[p])) : r.key[1] = p
      BY <2>4, FinishedTable
    <3>2. build' = build /\ build[p] = "writing"
      BY <2>4 DEF FinishTable
    <3>3. Content(todo[p]) = ToSet(Head(todo[p])) \cup Content(Tail(todo[p]))
      BY <3>1, HeadTail DEF Covered
    <3>4. ASSUME NEW q \in Byte, q # p
          PROVE  {r \in InTables' : r.key[1] = q} = {r \in InTables : r.key[1] = q}
      BY <3>1, <3>4
    <3>5. ASSUME NEW q \in Byte, build[q] # "idle"
          PROVE  OfPrefix(q) = Content(todo'[q]) \cup {r \in InTables' : r.key[1] = q}
      <4>1. OfPrefix(q) = Content(todo[q]) \cup {r \in InTables : r.key[1] = q}
        BY <3>5 DEF Covered
      <4>2. CASE q # p
        BY <3>1, <3>4, <4>1, <4>2
      <4>3. CASE q = p
        <5>1. {r \in InTables' : r.key[1] = p} = {r \in InTables : r.key[1] = p} \cup ToSet(Head(todo[p]))
          BY <3>1
        <5>2. QED
          BY <3>1, <3>3, <4>1, <4>3, <5>1
      <4>4. QED
        BY <4>2, <4>3
    <3>6. \A q \in Byte : build[q] = "idle" => \A r \in InTables' : r.key[1] # q
      BY <3>1, <3>2 DEF Covered
    <3>7. \A q \in Byte : build[q] \in {"idle", "done"} => todo'[q] = <<>>
      BY <3>1, <3>2 DEF Covered
    <3>8. QED
      BY <2>2, <3>1, <3>2, <3>5, <3>6, <3>7 DEF Covered
  <2>5. CASE CannotReadKeys(p) \/ OpenTable(p) \/ DrawNumber(p) \/ CannotReadValues(p) \/ EndPrefix(p)
    <3>1. UNCHANGED <<todo, tables>>
      BY <2>5 DEF CannotReadKeys, OpenTable, DrawNumber, CannotReadValues, EndPrefix
    <3>2. InTables' = InTables /\ Numbers' = Numbers
      BY <3>1 DEF InTables, Numbers
    <3>3. \A q \in Byte : /\ build'[q] = "idle" <=> build[q] = "idle"
                          /\ build'[q] = "done" => build[q] = "done" \/ todo[q] = <<>>
      BY <2>5 DEF CannotReadKeys, OpenTable, DrawNumber, CannotReadValues, EndPrefix, Fails, TypeOK
    <3>4. QED
      BY <2>2, <3>1, <3>2, <3>3 DEF Covered
  <2>6. QED
    BY <1>1, <2>3, <2>4, <2>5 DEF Prefix
<1>2. CASE Putting /\ UNCHANGED building
  <2>1. \A p \in Byte : build[p] = "idle"
    BY <1>2 DEF Putting, Put, PutCannotOpen, PutFails, MayPut, Owning
  <2>2. InTables' = InTables /\ Numbers' = Numbers /\ UNCHANGED <<build, todo, tables>>
    BY <1>2 DEF building, InTables, Numbers
  <2>3. QED
    BY <2>1, <2>2 DEF Covered
<1>3. CASE UNCHANGED putting /\ UNCHANGED building
  <2>1. InTables' = InTables /\ Numbers' = Numbers /\ UNCHANGED <<build, todo, tables, held>>
    BY <1>3 DEF putting, building, InTables, Numbers
  <2>2. \A q \in Byte : OfPrefix(q)' = OfPrefix(q)
    BY <2>1 DEF OfPrefix, Stored
  <2>3. QED
    BY <2>1, <2>2 DEF Covered
<1>4. QED
  BY <1>1, <1>2, <1>3, OnlyPrefixes, OnlyPutting

(* The invariant holds throughout, for any number of threads, any keys and *)
(* any number of records put.                                              *)
LEMMA DbInvariant ==
  Spec => []DbInv
<1>1. Init => DbInv
  BY TypeInit, CollectedInit, OwningInit, ListedInit, NumberingInit, CoveredInit DEF DbInv
<1>2. DbInv /\ [Next]_vars => DbInv'
  BY TypeStep, CollectedStep, OwningStep, ListedStep, NumberingStep, CoveredStep DEF DbInv
<1>3. QED
  BY <1>1, <1>2, PTL DEF Spec

-------------------------------------------------------------------------------
(* What is published.                                                      *)

(* No table holds anything that was not put.                               *)
LEMMA TablesCollected ==
  ASSUME DbInv
  PROVE  InTables \subseteq accepted
<1> SUFFICES ASSUME NEW r \in InTables PROVE r \in accepted
  OBVIOUS
<1>1. r \in Records
  <2>1. PICK i \in Numbers : r \in ToSet(tables[i])
    BY DEF InTables
  <2>2. tables[i] \in Seq(Records)
    BY DEF DbInv, Covered
  <2>3. QED
    BY <2>1, <2>2 DEF ToSet
<1> DEFINE p == r.key[1]
<1>2. p \in Byte
  <2>1. r.key \in Seq(Byte) \ {<<>>}
    BY <1>1, DbAssumption DEF Records
  <2>2. QED
    BY <2>1
<1> HIDE DEF p
<1>3. build[p] # "idle"
  BY <1>2 DEF DbInv, Covered, p
<1>4. r \in OfPrefix(p)
  BY <1>2, <1>3 DEF DbInv, Covered, p
<1>5. QED
  BY <1>4 DEF OfPrefix, DbInv, Collected

(* Once every prefix is done, the tables hold all that was put.            *)
LEMMA TablesComplete ==
  ASSUME DbInv, \A p \in Byte : build[p] = "done"
  PROVE  InTables = accepted
<1> SUFFICES ASSUME NEW r \in accepted PROVE r \in InTables
  BY TablesCollected
<1>1. r \in Stored /\ r \in Records
  BY DEF DbInv, Collected, TypeOK
<1> DEFINE p == r.key[1]
<1>2. p \in Byte
  <2>1. r.key \in Seq(Byte) \ {<<>>}
    BY <1>1, DbAssumption DEF Records
  <2>2. QED
    BY <2>1
<1> HIDE DEF p
<1>3. r \in OfPrefix(p)
  BY <1>1 DEF OfPrefix, p
<1>4. todo[p] = <<>> /\ OfPrefix(p) = Content(todo[p]) \cup {s \in InTables : s.key[1] = p}
  BY <1>2 DEF DbInv, Covered
<1>5. Content(todo[p]) = {}
  BY <1>4, EmptyContent
<1>6. QED
  BY <1>3, <1>4, <1>5

LEMMA NextFileAbove ==
  ASSUME DbInv
  PROVE  NextFile \in Nat \ {0} /\ \A i \in Numbers : i < NextFile
<1>1. Numbers \subseteq 0..number /\ number \in Nat /\ Numbers \subseteq Nat \ {0}
  BY DEF DbInv, Numbering, TypeOK
<1>2. CASE Numbers = {}
  BY <1>2 DEF NextFile
<1>3. CASE Numbers # {}
  <2> DEFINE top == Largest(Numbers)
  <2>1. \E x \in Numbers : \A y \in Numbers : y <= x
    BY <1>1, <1>3, Greatest
  <2>2. top \in Numbers /\ \A y \in Numbers : y <= top
    BY <2>1 DEF Largest
  <2>3. NextFile = top + 1
    BY <1>3 DEF NextFile
  <2> HIDE DEF top
  <2>4. QED
    BY <1>1, <2>2, <2>3
<1>4. QED
  BY <1>2, <1>3

(* CurrentLast: whenever CURRENT can be read, at any moment of close and   *)
(* whatever fails, MANIFEST is complete, the tables it names are on disk,  *)
(* its next file number is free and no record is newer than its last       *)
(* sequence.                                                               *)
THEOREM CurrentLastCorrect ==
  Spec => []CurrentLast
<1>1. DbInv => CurrentLast
  <2> SUFFICES ASSUME DbInv, current = "whole"
               PROVE  /\ manifest # NoManifest
                      /\ manifest.files \subseteq Numbers
                      /\ \A i \in manifest.files :
                           /\ i < manifest.nextFile
                           /\ \A r \in ToSet(tables[i]) : r.sequence <= manifest.lastSequence
    BY DEF CurrentLast
  <2>1. manifest = [files |-> Numbers, nextFile |-> NextFile, lastSequence |-> sequence]
    BY DEF DbInv, Listed
  <2>2. NextFile # 0 /\ \A i \in Numbers : i < NextFile
    BY NextFileAbove
  <2>3. manifest # NoManifest
    BY <2>1, <2>2 DEF NoManifest
  <2>4. ASSUME NEW i \in Numbers, NEW r \in ToSet(tables[i]) PROVE r.sequence <= sequence
    <3>1. r \in accepted
      BY TablesCollected DEF InTables
    <3>2. r \in Records /\ \E t \in Threads : r \in held[t]
      BY <3>1 DEF DbInv, TypeOK, Collected, Stored
    <3>3. r.sequence < sequence
      BY <3>2 DEF DbInv, Collected
    <3>4. r.sequence \in Int /\ sequence \in Int
      BY <3>2 DEF Records, DbInv, TypeOK
    <3>5. QED
      BY <3>3, <3>4
  <2>5. QED
    BY <2>1, <2>2, <2>3, <2>4
<1>2. QED
  BY <1>1, DbInvariant, PTL

(* What a reader sees: nothing until CURRENT is written; then all, or a     *)
(* part of it if a file came short.                                        *)
Seen ==
  IF current = "whole" THEN IF torn # {} THEN SUBSET accepted ELSE {accepted} ELSE {{}}

LEMMA VisibleAll ==
  ASSUME DbInv
  PROVE  Visible \in Seen
<1>1. CASE current = "whole"
  <2>1. manifest.files = Numbers /\ \A p \in Byte : build[p] = "done"
    BY <1>1 DEF DbInv, Listed
  <2>2. InTables = accepted
    BY <2>1, TablesComplete
  <2>3. Visible \subseteq InTables /\ (torn = {} => Visible = InTables)
    BY <1>1, <2>1 DEF Visible, InTables
  <2>4. QED
    BY <1>1, <2>2, <2>3 DEF Seen
<1>2. QED
  BY <1>1 DEF Visible, Seen

(* Before CURRENT is written a reader sees nothing, and afterwards nothing *)
(* changes any more.                                                       *)
LEMMA VisibleKept ==
  ASSUME current' = current, current = "none" \/ UNCHANGED <<tables, torn, manifest>>
  PROVE  Visible' = Visible
BY DEF Visible

(* StoreSpec: the database refines BulkStore, for any number of threads    *)
(* and any keys: what was put becomes visible as a whole or not at all,    *)
(* never after a put was lost, and close answers ok only if it is visible; *)
(* if a table's file came short, which nobody notices, a part of it may be *)
(* missing.                                                                *)
THEOREM StoreSpecCorrect ==
  Spec => StoreSpec
<1>1. Init => Store!Init
  BY DEF Init, Store!Init, Visible
<1>2. DbInv => Visible \in Seen
  BY VisibleAll
<1>3. (DbInv => Visible \in Seen)'
  BY <1>2, PTL
<1>4. DbInv /\ DbInv' /\ [Next]_vars => [Store!Next]_(Store!vars)
  <2> SUFFICES ASSUME DbInv, DbInv', [Next]_vars PROVE [Store!Next]_(Store!vars)
    OBVIOUS
  <2>1. Visible \in Seen /\ Visible' \in Seen'
    BY <1>2, <1>3
  <2>2. ASSUME NEW t \in Threads, NEW k \in Keys, Put(t, k) PROVE [Store!Next]_(Store!vars)
    <3> DEFINE r == [key |-> k, sequence |-> sequence, writer |-> t]
    <3>1. /\ accepted' = accepted \cup {r} /\ UNCHANGED <<lost, torn, current, result>>
          /\ phase = "open"
      BY <2>2 DEF Put, MayPut, building, publishing
    <3>2. r \in Records
      BY <2>2, DbAssumption DEF Put, MayPut, DbInv, TypeOK, Records
    <3> HIDE DEF r
    <3>3. result = "none" /\ current = "none"
      BY <3>1 DEF DbInv, Owning
    <3>4. Store!Put(r)
      BY <3>1, <3>3, VisibleKept DEF Store!Put
    <3>5. QED
      BY <3>2, <3>4 DEF Store!Next
  <2>3. ASSUME NEW t \in Threads, Break(t), phase = "open" PROVE [Store!Next]_(Store!vars)
    <3>1. accepted' \in SUBSET accepted /\ lost' = TRUE /\ UNCHANGED <<torn, current, result>>
      BY <2>3 DEF Break, building, publishing
    <3>2. result = "none" /\ current = "none"
      BY <2>3 DEF DbInv, Owning
    <3>3. Store!Lose
      BY <3>1, <3>2, VisibleKept DEF Store!Lose
    <3>4. QED
      BY <3>3 DEF Store!Next
  <2>4. ASSUME UNCHANGED <<accepted, lost, torn, current>>, result = "none", result' = "error"
        PROVE  [Store!Next]_(Store!vars)
    <3>1. current = "none"
      BY <2>4 DEF DbInv, Owning
    <3>2. Store!Refuse
      BY <2>1, <2>4, <3>1 DEF Store!Refuse, Seen
    <3>3. QED
      BY <3>2 DEF Store!Next
  <2>5. ASSUME UNCHANGED <<accepted, lost, torn, current, result>>,
               current = "none" \/ UNCHANGED <<tables, manifest>>
        PROVE  [Store!Next]_(Store!vars)
    BY <2>5, VisibleKept DEF Store!vars
  <2>6. ASSUME NEW a \in Answers, CloseEmpty(a) PROVE [Store!Next]_(Store!vars)
    <3>1. /\ UNCHANGED <<accepted, lost, torn, current>> /\ phase = "open" /\ Writers = {} /\ result' = a
      BY <2>6 DEF CloseEmpty, Ends, putting, building, publishing
    <3>2. result = "none" /\ current = "none"
      BY <3>1 DEF DbInv, Owning
    <3>3. CASE a = "ok"
      <4>1. accepted = {} /\ ~lost
        <5>1. \A t \in Threads : writer[t] = "none"
          BY <3>1 DEF Writers
        <5>2. Stored = {}
          BY <5>1 DEF DbInv, Collected, Stored
        <5>3. QED
          BY <5>1, <5>2 DEF DbInv, Collected
      <4>2. Store!Publish
        BY <3>1, <3>2, <3>3, <4>1, VisibleKept DEF Store!Publish, Store!Readable, Visible
      <4>3. QED
        BY <4>2 DEF Store!Next
    <3>4. CASE a # "ok"
      BY <2>4, <3>1, <3>2, <3>4 DEF Answers
    <3>5. QED
      BY <3>3, <3>4
  <2>7. CASE CancelClose \/ CloseWriters \/ Abandon
    <3>1. /\ UNCHANGED <<accepted, lost, torn, current>> /\ phase = "open"
          /\ result' = "error" \/ result' = result
      BY <2>7 DEF CancelClose, CloseWriters, Abandon, Ends, putting, building, publishing
    <3>2. result = "none" /\ current = "none"
      BY <3>1 DEF DbInv, Owning
    <3>3. QED
      BY <2>4, <2>5, <3>1, <3>2
  <2>8. ASSUME NEW p \in Byte, Prefix(p) PROVE [Store!Next]_(Store!vars)
    <3>1. UNCHANGED <<accepted, lost, current, result>> /\ result = "none" /\ current = "none"
      <4>1. UNCHANGED <<accepted, lost, current, result>> /\ build[p] \in {"idle", "writing"}
            /\ (build[p] = "idle" => phase = "building")
        BY <2>8 DEF Prefix, StartPrefix, Claims, Idle, CannotReadKeys, DrawNumber, OpenTable,
                    FinishTable, CannotReadValues, EndPrefix, putting, publishing
      <4>2. QED
        BY <4>1 DEF DbInv, Owning
    <3>2. CASE torn' = torn
      BY <2>5, <3>1, <3>2
    <3>3. CASE torn' # torn
      <4>1. torn' # {}
        BY <2>8, <3>3 DEF Prefix, StartPrefix, CannotReadKeys, DrawNumber, OpenTable, FinishTable,
                          CannotReadValues, EndPrefix
      <4>2. Store!Spoil
        BY <3>1, <4>1, VisibleKept DEF Store!Spoil
      <4>3. QED
        BY <4>2 DEF Store!Next
    <3>4. QED
      BY <3>2, <3>3
  <2>9. CASE JoinPrefixes
    <3>1. /\ UNCHANGED <<accepted, lost, torn, current>> /\ phase = "building"
          /\ result' = "error" \/ result' = result
      BY <2>9 DEF JoinPrefixes, Ends, putting, building, publishing
    <3>2. result = "none" /\ current = "none"
      BY <3>1 DEF DbInv, Owning
    <3>3. QED
      BY <2>4, <2>5, <3>1, <3>2
  <2>10. ASSUME NEW a \in Answers, WriteManifest(a) PROVE [Store!Next]_(Store!vars)
    <3>1. /\ UNCHANGED <<accepted, lost, torn, current>> /\ phase = "manifest"
          /\ result' = "error" \/ result' = result
      BY <2>10 DEF WriteManifest, Ends, putting, building
    <3>2. result = "none" /\ current = "none"
      BY <3>1 DEF DbInv, Owning
    <3>3. QED
      BY <2>4, <2>5, <3>1, <3>2
  <2>11. ASSUME NEW a \in Answers, WriteCurrent(a) PROVE [Store!Next]_(Store!vars)
    <3>1. /\ UNCHANGED <<accepted, lost, torn>> /\ phase = "current" /\ result' = a
          /\ a = "ok" => current' = "whole"
      BY <2>11 DEF WriteCurrent, Ends, putting, building
    <3>2. result = "none" /\ ~lost
      BY <3>1 DEF DbInv, Owning
    <3>3. CASE a = "ok"
      <4>1. Store!Publish
        BY <2>1, <3>1, <3>2, <3>3 DEF Store!Publish, Store!Readable, Seen
      <4>2. QED
        BY <4>1 DEF Store!Next
    <3>4. CASE a = "error"
      <4>1. Visible' \in {{}} \cup Store!Readable
        BY <2>1, <3>1 DEF Seen, Store!Readable
      <4>2. Store!Refuse
        BY <3>1, <3>2, <3>4, <4>1 DEF Store!Refuse
      <4>3. QED
        BY <4>2 DEF Store!Next
    <3>5. QED
      BY <3>3, <3>4 DEF Answers
  <2>12. CASE Destroy
    BY <2>5, <2>12 DEF Destroy, putting, building, publishing
  <2>13. CASE UNCHANGED vars
    BY <2>5, <2>13 DEF vars, putting, building, publishing
  <2>14. CASE Putting
    BY <2>2, <2>3, <2>14 DEF Putting, PutCannotOpen, PutFails, MayPut
  <2>15. QED
    BY <2>6, <2>7, <2>8, <2>9, <2>10, <2>11, <2>12, <2>13, <2>14 DEF Next, Closing, Publishing
<1>5. QED
  BY <1>1, <1>4, DbInvariant, PTL DEF Spec, StoreSpec, Store!Spec

-------------------------------------------------------------------------------
(* The tables of level 1, if no key is put twice.                          *)

(* Keys of different prefixes are as far apart as their first bytes.       *)
LEMMA PrefixesApart ==
  ASSUME NEW A \in SUBSET Records, NEW B \in SUBSET Records, NEW p \in Byte, NEW q \in Byte, p # q,
         \A a \in A : a.key[1] = p, \A b \in B : b.key[1] = q
  PROVE  Apart(A, B)
<1>1. p \in Int /\ q \in Int
  BY BaseAssumption DEF Byte
<1>2. \A r \in Records : r.key \in Seq(Byte) \ {<<>>}
  BY DbAssumption DEF Records
<1>3. \A r, s \in Records : r.key[1] < s.key[1] => Less(r.key, s.key)
  <2> SUFFICES ASSUME NEW r \in Records, NEW s \in Records, r.key[1] < s.key[1]
               PROVE  Less(r.key, s.key)
    OBVIOUS
  <2>1. 1 \in DOMAIN s.key /\ 1..0 = {}
    BY <1>2
  <2>2. QED
    BY <2>1 DEF Less
<1>4. CASE p < q
  BY <1>3, <1>4 DEF Apart, Under
<1>5. CASE q < p
  BY <1>3, <1>5 DEF Apart, Under
<1>6. QED
  BY <1>1, <1>4, <1>5

LEMMA SortedInit ==
  Init => Sorted
<1> SUFFICES ASSUME Init PROVE Sorted
  OBVIOUS
<1>1. Numbers = {} /\ accepted = {} /\ \A p \in Byte : todo[p] = <<>>
  BY DEF Init, Numbers
<1>2. QED
  BY <1>1, EmptyContent DEF Sorted

(* The records of a table, written or to write, have been put.             *)
LEMMA TableRecords ==
  ASSUME TypeOK, Covered
  PROVE  /\ \A i \in Numbers : ToSet(tables[i]) \subseteq Records /\ tables[i][1] \in ToSet(tables[i])
                               /\ ToSet(tables[i]) \subseteq InTables
         /\ \A p \in Byte : \A k \in DOMAIN todo[p] :
              ToSet(todo[p][k]) \subseteq Records /\ ToSet(todo[p][k]) \subseteq Content(todo[p])
<1>1. ASSUME NEW s \in Seq(Records) \ {<<>>}
      PROVE  ToSet(s) \subseteq Records /\ s[1] \in ToSet(s)
  <2>1. 1 \in DOMAIN s /\ \A i \in DOMAIN s : s[i] \in Records
    BY <1>1
  <2>2. QED
    BY <2>1 DEF ToSet
<1>2. \A i \in Numbers : tables[i] \in Seq(Records) \ {<<>>}
  BY DEF Covered
<1>3. ASSUME NEW p \in Byte, NEW k \in DOMAIN todo[p]
      PROVE  todo[p][k] \in Seq(Records) \ {<<>>}
  <2>1. todo[p] \in Seq(Seq(Records) \ {<<>>})
    BY DEF Covered, Pieces
  <2>2. QED
    BY <2>1
<1>4. \A i \in Numbers : ToSet(tables[i]) \subseteq InTables
  BY DEF InTables
<1>5. QED
  BY <1>1, <1>2, <1>3, <1>4 DEF Content

LEMMA SortedStep ==
  ASSUME MayRepeat = FALSE, DbInv, Sorted, [Next]_vars
  PROVE  Sorted'
<1>1. TypeOK /\ Collected /\ Owning /\ Numbering /\ Covered
  BY DEF DbInv
<1>2. \A a, b \in accepted' : a.key = b.key => a = b
  <2>1. ASSUME NEW t \in Threads, NEW k \in Keys, Put(t, k)
        PROVE  \A a, b \in accepted' : a.key = b.key => a = b
    <3> DEFINE r == [key |-> k, sequence |-> sequence, writer |-> t]
    <3>1. accepted' = accepted \cup {r} /\ \A a \in accepted : a.key # k
      BY <2>1, MayRepeat = FALSE DEF Put, MayPut
    <3>2. r.key = k
      OBVIOUS
    <3> HIDE DEF r
    <3>3. QED
      BY <3>1, <3>2 DEF Sorted
  <2>2. ASSUME NEW t \in Threads, Break(t)
        PROVE  \A a, b \in accepted' : a.key = b.key => a = b
    BY <2>2 DEF Break, Sorted
  <2>3. CASE UNCHANGED putting
    BY <2>3 DEF putting, Sorted
  <2>4. CASE Putting
    BY <2>1, <2>2, <2>4 DEF Putting, PutCannotOpen, PutFails
  <2>5. QED
    BY <2>3, <2>4, OnlyPutting
<1>3. ASSUME UNCHANGED <<todo, tables>> PROVE Sorted'
  <2>1. Numbers' = Numbers
    BY <1>3 DEF Numbers
  <2>2. QED
    BY <1>2, <1>3, <2>1 DEF Sorted
<1>4. ASSUME NEW p \in Byte, StartPrefix(p) PROVE Sorted'
  <2>1. PICK s \in Sortings(p) : todo' = [todo EXCEPT ![p] = TablesOf(p, s)]
    BY <1>4 DEF StartPrefix
  <2>2. tables' = tables /\ build[p] = "idle" /\ Numbers' = Numbers
    BY <1>4 DEF StartPrefix, Claims, Idle, Numbers
  <2> DEFINE made == TablesOf(p, s)
  <2>3. made \in Pieces /\ Content(made) = OfPrefix(p) /\ Ordered(made)
    <3>1. Stored \subseteq Records /\ IsFiniteSet(Stored) /\ \A a, b \in Stored : a.key = b.key => a = b
      BY <1>1 DEF Collected, TypeOK, Sorted
    <3>2. QED
      BY <3>1, TablesOfPrefix
  <2> HIDE DEF made
  <2>4. \A q \in Byte : todo'[q] = IF q = p THEN made ELSE todo[q]
    BY <1>1, <2>1 DEF Covered, made
  <2>5. ASSUME NEW i \in Numbers, NEW k \in DOMAIN made
        PROVE  Apart(ToSet(tables[i]), ToSet(made[k]))
    <3>1. PICK q \in Byte : \A r \in ToSet(tables[i]) : r.key[1] = q
      BY DEF Sorted
    <3>2. /\ ToSet(tables[i]) \subseteq Records /\ tables[i][1] \in ToSet(tables[i])
          /\ ToSet(tables[i]) \subseteq InTables
      BY <1>1, TableRecords
    <3>3. q # p
      BY <1>1, <2>2, <3>1, <3>2 DEF Covered
    <3>4. ToSet(made[k]) \subseteq Content(made)
      BY DEF Content
    <3>5. ToSet(made[k]) \subseteq Records /\ \A r \in ToSet(made[k]) : r.key[1] = p
      BY <1>1, <2>3, <3>4 DEF OfPrefix, Collected, TypeOK
    <3>6. QED
      BY <3>1, <3>2, <3>3, <3>5, PrefixesApart
  <2>6. ASSUME NEW i \in Numbers, NEW q \in Byte, NEW k \in DOMAIN todo'[q]
        PROVE  Apart(ToSet(tables[i]), ToSet(todo'[q][k]))
    <3>1. CASE q = p
      BY <2>4, <2>5, <3>1
    <3>2. CASE q # p
      BY <2>4, <3>2 DEF Sorted
    <3>3. QED
      BY <3>1, <3>2
  <2>7. QED
    BY <1>2, <2>2, <2>3, <2>4, <2>6 DEF Sorted
<1>5. ASSUME NEW p \in Byte, FinishTable(p) PROVE Sorted'
  <2> DEFINE t == Head(todo[p])
             n == file[p]
  <2>1. /\ todo[p] # <<>> /\ n \notin Numbers
        /\ Numbers' = Numbers \cup {n}
        /\ tables'[n] = t
        /\ \A i \in Numbers : tables'[i] = tables[i]
        /\ todo'[p] = Tail(todo[p]) /\ \A q \in Byte : q # p => todo'[q] = todo[q]
        /\ \A r \in ToSet(t) : r.key[1] = p
    BY <1>1, <1>5, FinishedTable
  <2>2. /\ t = todo[p][1] /\ 1 \in DOMAIN todo[p]
        /\ Ascending(t) /\ Ordered(Tail(todo[p])) /\ todo[p] \in Pieces
        /\ \A k \in DOMAIN Tail(todo[p]) :
             k + 1 \in DOMAIN todo[p] /\ k + 1 # 1 /\ Tail(todo[p])[k] = todo[p][k + 1]
    BY <1>1, <2>1, HeadTail DEF Covered, Sorted
  <2> HIDE DEF t, n
  <2>3. \A i \in Numbers : Apart(ToSet(tables[i]), ToSet(t))
    BY <2>2 DEF Sorted
  <2>4. \A i \in Numbers' : Ascending(tables'[i])
                            /\ \E q \in Byte : \A r \in ToSet(tables'[i]) : r.key[1] = q
    BY <2>1, <2>2 DEF Sorted
  <2>5. \A i, j \in Numbers' : i # j => Apart(ToSet(tables'[i]), ToSet(tables'[j]))
    <3>1. \A A, B : Apart(A, B) => Apart(B, A)
      BY DEF Apart
    <3>2. QED
      BY <2>1, <2>3, <3>1 DEF Sorted
  <2>6. \A q \in Byte : Ordered(todo'[q])
    BY <2>1, <2>2 DEF Sorted
  <2>7. ASSUME NEW q \in Byte, NEW k \in DOMAIN todo'[q]
        PROVE  Apart(ToSet(t), ToSet(todo'[q][k]))
    <3>1. CASE q # p
      <4>1. todo'[q] = todo[q]
        BY <2>1, <3>1
      <4>2. ToSet(todo[q][k]) \subseteq Records /\ ToSet(todo[q][k]) \subseteq Content(todo[q])
        BY <1>1, <4>1, TableRecords
      <4>3. \A r \in Content(todo[q]) : r.key[1] = q
        <5>1. CASE build[q] = "idle"
          <6>1. todo[q] = <<>>
            BY <1>1, <5>1 DEF Covered
          <6>2. Content(todo[q]) = {}
            BY <6>1, EmptyContent
          <6>3. QED
            BY <6>2
        <5>2. CASE build[q] # "idle"
          BY <1>1, <5>2 DEF Covered, OfPrefix
        <5>3. QED
          BY <5>1, <5>2
      <4>4. ToSet(t) \subseteq Records
        BY <1>1, <2>2, TableRecords
      <4>5. \A r \in ToSet(todo[q][k]) : r.key[1] = q
        BY <4>2, <4>3
      <4>6. Apart(ToSet(t), ToSet(todo[q][k]))
        BY <2>1, <3>1, <4>2, <4>4, <4>5, PrefixesApart
      <4>7. QED
        BY <4>1, <4>6
    <3>2. CASE q = p
      <4>1. k + 1 \in DOMAIN todo[p] /\ 1 < k + 1 /\ todo'[q][k] = todo[p][k + 1]
        <5>1. k \in DOMAIN Tail(todo[p])
          BY <2>1, <3>2
        <5>2. k + 1 \in DOMAIN todo[p] /\ k + 1 # 1 /\ Tail(todo[p])[k] = todo[p][k + 1]
          BY <2>2, <5>1
        <5>3. DOMAIN todo[p] \subseteq Nat \ {0}
          BY <2>2 DEF Pieces
        <5>4. 1 < k + 1
          <6> DEFINE m == k + 1
          <6>1. m \in Nat \ {0} /\ m # 1
            BY <5>2, <5>3
          <6> HIDE DEF m
          <6>2. 1 < m
            BY <6>1
          <6>3. QED
            BY <6>2 DEF m
        <5>5. QED
          BY <2>1, <3>2, <5>2, <5>4
      <4>2. Under(ToSet(t), ToSet(todo[p][k + 1]))
        BY <2>2, <4>1 DEF Sorted, Ordered
      <4>3. QED
        BY <4>1, <4>2 DEF Apart
    <3>3. QED
      BY <3>1, <3>2
  <2>8. ASSUME NEW i \in Numbers, NEW q \in Byte, NEW k \in DOMAIN todo'[q]
        PROVE  Apart(ToSet(tables[i]), ToSet(todo'[q][k]))
    <3>1. CASE q # p
      BY <2>1, <3>1 DEF Sorted
    <3>2. CASE q = p
      <4>1. k + 1 \in DOMAIN todo[p] /\ todo'[q][k] = todo[p][k + 1]
        BY <2>1, <2>2, <3>2
      <4>2. QED
        BY <4>1 DEF Sorted
    <3>3. QED
      BY <3>1, <3>2
  <2>9. \A i \in Numbers', q \in Byte : \A k \in DOMAIN todo'[q] :
          Apart(ToSet(tables'[i]), ToSet(todo'[q][k]))
    BY <2>1, <2>7, <2>8
  <2>10. QED
    BY <1>2, <2>4, <2>5, <2>6, <2>9 DEF Sorted
<1>6. ASSUME NEW p \in Byte, Prefix(p) PROVE Sorted'
  <2>1. StartPrefix(p) \/ FinishTable(p) \/ UNCHANGED <<todo, tables>>
    BY <1>6 DEF Prefix, CannotReadKeys, OpenTable, DrawNumber, CannotReadValues, EndPrefix
  <2>2. QED
    BY <1>3, <1>4, <1>5, <2>1
<1>7. QED
  BY <1>3, <1>6, OnlyPrefixes DEF building

(* LevelSorted: if no key is put twice, every table is sorted and of any   *)
(* two of them all keys of one are below all keys of the other, as a       *)
(* reader of level 1 requires; at every moment of close, for any number of *)
(* threads, any keys, sizes and depths.                                    *)
THEOREM LevelSortedCorrect ==
  ASSUME MayRepeat = FALSE
  PROVE  Spec => []LevelSorted
<1>1. Init => Sorted
  BY SortedInit
<1>2. DbInv /\ Sorted /\ [Next]_vars => Sorted'
  BY SortedStep
<1>3. DbInv /\ Sorted => LevelSorted
  <2> SUFFICES ASSUME DbInv, Sorted PROVE LevelSorted
    OBVIOUS
  <2>1. ASSUME NEW i \in Numbers
        PROVE  /\ tables[i] \in Seq(Records) /\ Len(tables[i]) \in Nat \ {0}
               /\ Head(tables[i]) \in ToSet(tables[i]) /\ Last(tables[i]) \in ToSet(tables[i])
    <3>1. tables[i] \in Seq(Records) \ {<<>>}
      BY DEF DbInv, Covered
    <3>2. Len(tables[i]) \in Nat \ {0} /\ DOMAIN tables[i] = 1..Len(tables[i])
          /\ Head(tables[i]) = tables[i][1]
      BY <3>1
    <3>3. QED
      BY <3>1, <3>2 DEF ToSet, Last
  <2>2. TablesSorted
    <3> SUFFICES ASSUME NEW i \in Numbers, NEW j \in 2..Len(tables[i])
                 PROVE  Less(tables[i][j - 1].key, tables[i][j].key)
      BY DEF TablesSorted
    <3>1. j - 1 \in DOMAIN tables[i] /\ j \in DOMAIN tables[i] /\ j - 1 < j
      BY <2>1
    <3>2. Ascending(tables[i])
      BY DEF Sorted
    <3>3. QED
      BY <3>1, <3>2 DEF Ascending
  <2>3. \A i, j \in Numbers :
          i # j => \/ Less(Last(tables[i]).key, Head(tables[j]).key)
                   \/ Less(Last(tables[j]).key, Head(tables[i]).key)
    BY <2>1 DEF Sorted, Apart, Under
  <2>4. QED
    BY <2>2, <2>3 DEF LevelSorted
<1>4. QED
  BY <1>1, <1>2, <1>3, DbInvariant, PTL DEF Spec

===============================================================================
