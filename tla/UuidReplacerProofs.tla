-------------------------- MODULE UuidReplacerProofs --------------------------
(***************************************************************************)
(* Proofs about UuidReplacer, for any table, any world, any number of runs *)
(* and failing calls.                                                      *)
(*                                                                         *)
(* NothingLost: Shape says where a run is in its work, so that no rename   *)
(* goes over a file; the undo of installed names alone may do that, and    *)
(* Safe says when it cannot.                                               *)
(*                                                                         *)
(* ErrorUndone and OkMeansRepaired: Account says what is where at each     *)
(* place of Run, as long as there was no kill and no undo went wrong       *)
(* (Fine).                                                                 *)
(***************************************************************************)
EXTENDS UuidReplacer, FiniteSetTheorems, WellFoundedInduction, TLAPS

-----------------------------------------------------------------------------
(* Numbers, and sets of numbers put in order.                              *)

LEMMA Least ==
    ASSUME NEW T \in SUBSET Nat, T # {}
    PROVE  \E m \in T : \A n \in T : m <= n
<1> DEFINE R == {ss \in Nat \X Nat : ss[1] < ss[2]}
<1>1. IsWellFoundedOn(R, Nat)
  BY NatLessThanWellFounded DEF OpToRel
<1>2. \E x \in T : \A y \in T : ~ (<<y, x>> \in R)
  <2> HIDE DEF R
  <2> QED
    BY <1>1, WFMin
<1>3. ASSUME NEW x \in T, NEW y \in T, y < x PROVE <<y, x>> \in R
  <2> DEFINE s == <<y, x>>
  <2>1. s[1] < s[2] /\ s \in Nat \X Nat
    BY <1>3
  <2> HIDE DEF s
  <2>2. s \in R
    BY <2>1
  <2>3. QED
    BY <2>2 DEF s
<1> HIDE DEF R
<1>4. PICK x \in T : \A y \in T : ~ (<<y, x>> \in R)
  BY <1>2
<1>5. ASSUME NEW y \in T PROVE x <= y
  <2>1. ~(y < x)
    BY <1>3, <1>4
  <2>2. x \in Nat /\ y \in Nat
    OBVIOUS
  <2>3. QED
    BY <2>1, <2>2
<1>6. QED
  BY <1>5

\* Induction, for the set of the numbers for which a claim holds.
LEMMA Ind ==
    ASSUME NEW S \in SUBSET Nat, 0 \in S, \A n \in S : n + 1 \in S
    PROVE  S = Nat
<1> SUFFICES ASSUME NEW m \in Nat, m \notin S PROVE FALSE
  OBVIOUS
<1> DEFINE T == Nat \ S
<1>1. T \in SUBSET Nat /\ T # {}
  OBVIOUS
<1>2. PICK least \in T : \A n \in T : least <= n
  <2> HIDE DEF T
  <2> QED
    BY <1>1, Least
<1>3. least \in Nat /\ least \notin S /\ least # 0
  OBVIOUS
<1>4. least - 1 \in Nat /\ ~(least <= least - 1)
  BY <1>3
<1>5. least - 1 \in S
  BY <1>2, <1>4
<1>6. QED
  BY <1>3, <1>5

Enumerates(s, names) ==
    /\ s \in [1 .. Cardinality(names) -> names]
    /\ \A i, j \in 1 .. Cardinality(names) : i < j => s[i] < s[j]

\* The greatest of a finite set of numbers, by induction on the size.
LEMMA Greatest ==
    ASSUME NEW S \in SUBSET Nat, IsFiniteSet(S), S # {}
    PROVE  \E m \in S : \A n \in S : n <= m
<1> DEFINE Claim(n) == \A T \in SUBSET S : Cardinality(T) = n /\ T # {} => \E m \in T : \A x \in T : x <= m
           Sizes == {n \in Nat : Claim(n)}
<1>1. 0 \in Sizes
  <2>1. \A T \in SUBSET S : Cardinality(T) = 0 => T = {}
    BY FS_Subset, FS_EmptySet
  <2>2. QED
    BY <2>1
<1>2. ASSUME NEW n \in Sizes PROVE n + 1 \in Sizes
  <2>1. Claim(n)
    OBVIOUS
  <2>2. ASSUME NEW T \in SUBSET S, Cardinality(T) = n + 1, T # {}
        PROVE  \E m \in T : \A x \in T : x <= m
    <3>1. PICK one \in T : TRUE
      BY <2>2
    <3>2. Cardinality(T \ {one}) = n
      <4>1. IsFiniteSet(T)
        BY FS_Subset
      <4>2. Cardinality(T \ {one}) = Cardinality(T) - 1
        BY <3>1, <4>1, FS_RemoveElement
      <4>3. n \in Nat
        OBVIOUS
      <4>4. QED
        BY <2>2, <4>2, <4>3
    <3>3. CASE T \ {one} = {}
      BY <3>1, <3>3
    <3>4. CASE T \ {one} # {}
      <4>1. PICK m \in T \ {one} : \A x \in T \ {one} : x <= m
        BY <2>1, <3>2, <3>4
      <4>2. CASE one <= m
        BY <4>1, <4>2
      <4>3. CASE m < one
        BY <4>1, <4>3
      <4>4. QED
        BY <4>2, <4>3
    <3>5. QED
      BY <3>3, <3>4
  <2>3. n + 1 \in Nat /\ Claim(n + 1)
    BY <2>2
  <2>4. QED
    BY <2>3
<1>3. Sizes = Nat
  <2>1. Sizes \in SUBSET Nat
    OBVIOUS
  <2> HIDE DEF Sizes
  <2>2. QED
    BY <1>1, <1>2, <2>1, Ind
<1>4. Cardinality(S) \in Sizes
  BY <1>3, FS_CardinalityType
<1>5. Claim(Cardinality(S))
  BY <1>4
<1>6. QED
  BY <1>5

\* Every finite set of numbers can be put in order.
LEMMA CanBeOrdered ==
    ASSUME NEW S \in SUBSET Nat, IsFiniteSet(S)
    PROVE  \E s : Enumerates(s, S)
<1> DEFINE Claim(n) == \A T \in SUBSET S : Cardinality(T) = n => \E s : Enumerates(s, T)
           Sizes == {n \in Nat : Claim(n)}
<1>1. 0 \in Sizes
  <2>1. ASSUME NEW T \in SUBSET S, Cardinality(T) = 0 PROVE Enumerates(<<>>, T)
    BY <2>1 DEF Enumerates
  <2>2. QED
    BY <2>1
<1>2. ASSUME NEW n \in Sizes PROVE n + 1 \in Sizes
  <2>1. Claim(n)
    OBVIOUS
  <2>2. ASSUME NEW T \in SUBSET S, Cardinality(T) = n + 1 PROVE \E s : Enumerates(s, T)
    <3>1. IsFiniteSet(T) /\ T # {}
      <4>1. n \in Nat /\ n + 1 # 0
        OBVIOUS
      <4>2. Cardinality(T) # 0
        BY <2>2, <4>1
      <4>3. IsFiniteSet(T)
        BY FS_Subset
      <4>4. QED
        BY <4>2, <4>3, FS_EmptySet
    <3>2. PICK m \in T : \A x \in T : x <= m
      BY <3>1, Greatest
    <3>3. Cardinality(T \ {m}) = n
      <4>1. Cardinality(T \ {m}) = Cardinality(T) - 1
        BY <3>1, FS_RemoveElement
      <4>2. n \in Nat
        OBVIOUS
      <4>3. QED
        BY <2>2, <4>1, <4>2
    <3>4. PICK s : Enumerates(s, T \ {m})
      BY <2>1, <3>3
    <3> DEFINE longer == [i \in 1 .. n + 1 |-> IF i = n + 1 THEN m ELSE s[i]]
    <3>5. \A i \in 1 .. n : s[i] \in T /\ s[i] # m
      BY <3>3, <3>4 DEF Enumerates
    <3>6. \A i \in 1 .. n + 1 : i \in 1 .. n \/ i = n + 1
      OBVIOUS
    <3>7. longer \in [1 .. n + 1 -> T]
      BY <3>5, <3>6
    <3>8. ASSUME NEW i \in 1 .. n + 1, NEW j \in 1 .. n + 1, i < j PROVE longer[i] < longer[j]
      <4>1. i \in 1 .. n /\ longer[i] = s[i]
        BY <3>8
      <4>2. CASE j = n + 1
        <5>1. s[i] \in Nat /\ m \in Nat /\ s[i] <= m /\ s[i] # m
          BY <3>2, <3>5, <4>1
        <5>2. QED
          BY <4>1, <4>2, <5>1
      <4>3. CASE j # n + 1
        <5>1. j \in 1 .. n /\ longer[j] = s[j]
          BY <4>3
        <5>2. QED
          BY <3>3, <3>4, <3>8, <4>1, <5>1 DEF Enumerates
      <4>4. QED
        BY <4>2, <4>3
    <3> HIDE DEF longer
    <3>9. QED
      BY <2>2, <3>7, <3>8 DEF Enumerates
  <2>3. n + 1 \in Nat /\ Claim(n + 1)
    BY <2>2
  <2>4. QED
    BY <2>3
<1>3. Sizes = Nat
  <2>1. Sizes \in SUBSET Nat
    OBVIOUS
  <2> HIDE DEF Sizes
  <2>2. QED
    BY <1>1, <1>2, <2>1, Ind
<1>4. Cardinality(S) \in Sizes
  BY <1>3, FS_CardinalityType
<1>5. Claim(Cardinality(S))
  BY <1>4
<1>6. QED
  BY <1>5

\* What std::sort makes of a list of names: each of them, once.
LEMMA Ordered ==
    ASSUME NEW S \in SUBSET Nat, IsFiniteSet(S)
    PROVE  /\ Cardinality(S) \in Nat
           /\ InOrder(S) \in [1 .. Cardinality(S) -> S]
           /\ \A i, j \in 1 .. Cardinality(S) : i # j => InOrder(S)[i] # InOrder(S)[j]
           /\ \A n \in S : \E i \in 1 .. Cardinality(S) : InOrder(S)[i] = n
<1> DEFINE size == Cardinality(S)
           s == InOrder(S)
<1>1. size \in Nat
  BY FS_CardinalityType
<1>2. PICK t : Enumerates(t, S)
  BY CanBeOrdered
<1>3. /\ t \in [1 .. size -> S]
      /\ \A i, j \in DOMAIN t : i < j => t[i] < t[j]
  BY <1>2 DEF Enumerates
<1>4. /\ s \in [1 .. size -> S]
      /\ \A i, j \in DOMAIN s : i < j => s[i] < s[j]
  BY <1>3 DEF InOrder
<1> HIDE DEF s
<1>5. ASSUME NEW i \in 1 .. size, NEW j \in 1 .. size, i # j PROVE s[i] # s[j]
  <2>1. s[i] \in Nat /\ s[j] \in Nat
    BY <1>4
  <2>2. CASE i < j
    <3>1. s[i] < s[j]
      BY <1>4, <2>2
    <3>2. QED
      BY <2>1, <3>1
  <2>3. CASE j < i
    <3>1. s[j] < s[i]
      BY <1>4, <2>3
    <3>2. QED
      BY <2>1, <3>1
  <2>4. QED
    BY <1>1, <1>5, <2>2, <2>3
<1>6. s \in Injection(1 .. size, S)
  BY <1>4, <1>5 DEF Injection, IsInjective
<1>7. IsFiniteSet(1 .. size) /\ Cardinality(1 .. size) = size
  BY <1>1, FS_Interval
<1>8. s \in Surjection(1 .. size, S)
  BY <1>6, <1>7, FS_Injection
<1>9. \A n \in S : \E i \in 1 .. size : s[i] = n
  BY <1>8 DEF Surjection
<1>10. QED
  BY <1>1, <1>4, <1>5, <1>9 DEF s

-----------------------------------------------------------------------------
(* The table.                                                              *)

\* What a table that is not refused maps: UUIDs to UUIDs, and nothing twice
\* unless it is chained.
LEMMA Table ==
    ASSUME rows \in Csvs, ~TableRefused(rows)
    PROVE  /\ \A u \in Uuids : FindMapped(u) \in Uuids
           /\ \A u \in Uuids : u \in DOMAIN Mapping(rows) <=> FindMapped(u) # u
           /\ \A u, v \in Uuids : FindMapped(u) = v /\ FindMapped(u) # u /\ FindMapped(v) # v => Chained
           /\ ~Chained => \A u \in Uuids : FindMapped(FindMapped(u)) = FindMapped(u)
           /\ Torn \notin DOMAIN Mapping(rows) /\ FindMapped(Torn) = Torn
<1> DEFINE kept == {r \in ToSet(rows) : r[1] # r[2]}
           map == [u \in {r[1] : r \in kept} |-> (CHOOSE r \in kept : r[1] = u)[2]]
<1>1. Mapping(rows) = map
  BY DEF Mapping
<1>2. ASSUME NEW u \in DOMAIN map PROVE map[u] \in Uuids /\ map[u] # u
  <2>1. PICK r \in kept : r[1] = u /\ map[u] = r[2]
    <3>1. \E r \in kept : r[1] = u
      BY <1>2
    <3>2. QED
      BY <1>2, <3>1
  <2>2. rows \in Seq((Uuids \cup {Bad}) \X (Uuids \cup {Bad}))
    BY UuidConstants
  <2>3. PICK i \in DOMAIN rows : r = rows[i]
    BY DEF ToSet
  <2>4. r \in (Uuids \cup {Bad}) \X (Uuids \cup {Bad})
    BY <2>2, <2>3
  <2>5. Bad \notin ToSet(r)
    BY <2>3 DEF TableRefused
  <2>6. r[2] \in ToSet(r)
    BY <2>4 DEF ToSet
  <2>7. QED
    BY <2>1, <2>4, <2>5, <2>6
<1> HIDE DEF map
<1>3. ASSUME NEW u \in Uuids PROVE u \in DOMAIN map <=> FindMapped(u) # u
  BY <1>1, <1>2 DEF FindMapped
<1>4. ASSUME NEW u \in Uuids PROVE FindMapped(u) \in Uuids
  BY <1>1, <1>2 DEF FindMapped
<1>5. ASSUME NEW u \in Uuids, NEW v \in Uuids, FindMapped(u) = v, FindMapped(u) # u, FindMapped(v) # v
      PROVE  Chained
  <2>1. u \in DOMAIN map /\ v \in DOMAIN map
    BY <1>3, <1>5
  <2>2. map[u] = v
    BY <1>1, <1>5, <2>1 DEF FindMapped
  <2>3. v \in Range(map)
    BY <2>1, <2>2 DEF Range
  <2>4. QED
    BY <1>1, <2>1, <2>3 DEF Chained
<1>6. ASSUME ~Chained, NEW u \in Uuids PROVE FindMapped(FindMapped(u)) = FindMapped(u)
  <2>1. CASE FindMapped(u) = u
    BY <2>1
  <2>2. CASE FindMapped(u) # u
    BY <1>4, <1>5, <1>6, <2>2
  <2>3. QED
    BY <2>1, <2>2
<1>7. Torn \notin DOMAIN map
  <2>1. SUFFICES ASSUME NEW r \in kept PROVE r[1] # Bad
    BY DEF map, Torn
  <2>2. rows \in Seq((Uuids \cup {Bad}) \X (Uuids \cup {Bad}))
    BY UuidConstants
  <2>3. PICK i \in DOMAIN rows : r = rows[i]
    BY DEF ToSet
  <2>4. r \in (Uuids \cup {Bad}) \X (Uuids \cup {Bad}) /\ Bad \notin ToSet(r)
    BY <2>2, <2>3 DEF TableRefused
  <2>5. r[1] \in ToSet(r)
    BY <2>4 DEF ToSet
  <2>6. QED
    BY <2>4, <2>5
<1>8. QED
  BY <1>1, <1>3, <1>4, <1>5, <1>6, <1>7 DEF FindMapped

\* The names: nobody is renamed to the name he has, and a file may take the
\* name of another one that is renamed only if the table is chained.
LEMMA NewNames ==
    ASSUME rows \in Csvs, ~TableRefused(rows)
    PROVE  /\ \A n \in Names : Target(n) \in Names
           /\ \A n \in Names : UuidOf[Target(n)] = FindMapped(UuidOf[n])
           /\ \A n \in Names : FindMapped(UuidOf[n]) # UuidOf[n] => Target(n) # n
           /\ \A m, n \in Names :
                  FindMapped(UuidOf[m]) # UuidOf[m] /\ FindMapped(UuidOf[n]) # UuidOf[n]
                  /\ Target(m) = n => Chained
<1>1. ASSUME NEW n \in Names
      PROVE  /\ UuidOf[n] \in Uuids /\ FindMapped(UuidOf[n]) \in Uuids
             /\ Target(n) \in Names /\ UuidOf[Target(n)] = FindMapped(UuidOf[n])
  <2>1. UuidOf[n] \in Uuids
    BY UuidConstants
  <2>2. FindMapped(UuidOf[n]) \in Uuids
    BY <2>1, Table
  <2>3. QED
    BY <2>1, <2>2, UuidConstants DEF Target
<1>2. ASSUME NEW n \in Names, FindMapped(UuidOf[n]) # UuidOf[n] PROVE Target(n) # n
  BY <1>1, <1>2
<1>3. ASSUME NEW m \in Names, NEW n \in Names,
             FindMapped(UuidOf[m]) # UuidOf[m], FindMapped(UuidOf[n]) # UuidOf[n], Target(m) = n
      PROVE  Chained
  <2>1. FindMapped(UuidOf[m]) = UuidOf[n]
    BY <1>1, <1>3
  <2>2. UuidOf[m] \in Uuids /\ UuidOf[n] \in Uuids
    BY <1>1
  <2>3. QED
    BY <1>3, <2>1, <2>2, Table
<1>4. \A n \in Names : Target(n) \in Names /\ UuidOf[Target(n)] = FindMapped(UuidOf[n])
  BY <1>1
<1>5. \A n \in Names : FindMapped(UuidOf[n]) # UuidOf[n] => Target(n) # n
  BY <1>2
<1>6. \A m, n \in Names :
          FindMapped(UuidOf[m]) # UuidOf[m] /\ FindMapped(UuidOf[n]) # UuidOf[n]
          /\ Target(m) = n => Chained
  BY <1>3
<1>7. QED
  BY <1>4, <1>5, <1>6

-----------------------------------------------------------------------------
(* The files.                                                              *)

Everyone == Names \cup {Level}
Sides == {"write", "backup", "rename"}

\* A sound disk: only what a writer has just made may be torn, and the files
\* that writers cut short; the siblings that writers make are numbered without
\* a gap, and no run makes more than one sibling of a kind.
Disk(f) ==
    /\ DOMAIN f \subseteq Paths
    /\ \A p \in DOMAIN f :
           /\ f[p] \in [of : DOMAIN original, ref : Uuids \cup {Torn}]
           /\ p[2] # "write" => f[p].ref # Torn \/ f[p].of \in short
           /\ (p[2] = "file" /\ p[3] = 0) \/ (p[2] \in Sides /\ p[3] < runs)
    /\ \A n \in Everyone, kind \in {"write", "backup"}, i, j \in 0 .. MaxRuns :
           j < i /\ <<n, kind, i>> \in DOMAIN f => <<n, kind, j>> \in DOMAIN f

Put(f, p, content) == [q \in DOMAIN f \cup {p} |-> IF q = p THEN content ELSE f[q]]

\* Every file's data is somewhere in one piece, if no writer cut it short.
Kept(f) == \A n \in DOMAIN original \ short : \E p \in DOMAIN f : f[p].of = n /\ f[p].ref # Torn

\* The writers' siblings: p may be removed, p may be added.
Latest(f, p) == p[2] \in {"write", "backup"} =>
    \A i \in 0 .. MaxRuns : p[3] < i => <<p[1], p[2], i>> \notin DOMAIN f

Succeeds(f, p) == p[2] \in {"write", "backup"} =>
    \A i \in 0 .. MaxRuns : i < p[3] => <<p[1], p[2], i>> \in DOMAIN f

LEMMA MovedIs ==
    ASSUME NEW f, NEW from \in DOMAIN f, NEW to
    PROVE  Moved(f, from, to) = Put(Without(f, from), to, f[from])
BY DEF Moved, Put, Without, Restrict

LEMMA WithoutFile ==
    ASSUME NEW f, NEW p
    PROVE  /\ DOMAIN Without(f, p) = DOMAIN f \ {p}
           /\ \A q \in DOMAIN f \ {p} : Without(f, p)[q] = f[q]
BY DEF Without, Restrict

LEMMA PathIs ==
    ASSUME NEW p \in Paths
    PROVE  p = <<p[1], p[2], p[3]>> /\ p[1] \in Everyone /\ p[2] \in Kinds /\ p[3] \in 0 .. MaxRuns
BY DEF Paths, Everyone

LEMMA DiskWithout ==
    ASSUME NEW f, Disk(f), NEW p \in DOMAIN f, Latest(f, p)
    PROVE  Disk(Without(f, p))
<1> DEFINE g == Without(f, p)
<1>1. DOMAIN g = DOMAIN f \ {p} /\ \A q \in DOMAIN g : g[q] = f[q]
  BY WithoutFile
<1> HIDE DEF g
<1>2. ASSUME NEW n \in Everyone, NEW kind \in {"write", "backup"}, NEW i \in 0 .. MaxRuns,
             NEW j \in 0 .. MaxRuns, j < i, <<n, kind, i>> \in DOMAIN g
      PROVE  <<n, kind, j>> \in DOMAIN g
  <2>1. <<n, kind, i>> \in DOMAIN f /\ <<n, kind, j>> \in DOMAIN f
    BY <1>1, <1>2 DEF Disk
  <2>2. SUFFICES ASSUME p = <<n, kind, j>> PROVE FALSE
    BY <1>1, <2>1
  <2>3. p[1] = n /\ p[2] = kind /\ p[3] = j
    BY <2>2
  <2>4. QED
    BY <1>2, <2>1, <2>3 DEF Latest
<1>3. DOMAIN g \subseteq Paths
  BY <1>1 DEF Disk
<1>4. ASSUME NEW q \in DOMAIN g
      PROVE  /\ g[q] \in [of : DOMAIN original, ref : Uuids \cup {Torn}]
             /\ q[2] # "write" => g[q].ref # Torn \/ g[q].of \in short
             /\ (q[2] = "file" /\ q[3] = 0) \/ (q[2] \in Sides /\ q[3] < runs)
  BY <1>1 DEF Disk
<1>5. Disk(g)
  BY <1>2, <1>3, <1>4 DEF Disk
<1>6. QED
  BY <1>5 DEF g

LEMMA DiskPut ==
    ASSUME NEW f, Disk(f), NEW p \in Paths, Succeeds(f, p),
           NEW content \in [of : DOMAIN original, ref : Uuids \cup {Torn}],
           p[2] # "write" => content.ref # Torn \/ content.of \in short,
           (p[2] = "file" /\ p[3] = 0) \/ (p[2] \in Sides /\ p[3] < runs)
    PROVE  Disk(Put(f, p, content))
<1> DEFINE g == Put(f, p, content)
<1>1. DOMAIN g = DOMAIN f \cup {p} /\ g[p] = content /\ \A q \in DOMAIN f \ {p} : g[q] = f[q]
  BY DEF Put
<1> HIDE DEF g
<1>2. ASSUME NEW n \in Everyone, NEW kind \in {"write", "backup"}, NEW i \in 0 .. MaxRuns,
             NEW j \in 0 .. MaxRuns, j < i, <<n, kind, i>> \in DOMAIN g
      PROVE  <<n, kind, j>> \in DOMAIN g
  <2>1. CASE <<n, kind, i>> \in DOMAIN f
    BY <1>1, <1>2, <2>1 DEF Disk
  <2>2. CASE p = <<n, kind, i>>
    <3>1. p[1] = n /\ p[2] = kind /\ p[3] = i
      BY <2>2
    <3>2. QED
      BY <1>1, <1>2, <3>1 DEF Succeeds
  <2>3. QED
    BY <1>1, <1>2, <2>1, <2>2
<1>3. DOMAIN g \subseteq Paths
  BY <1>1 DEF Disk
<1>4. ASSUME NEW q \in DOMAIN g
      PROVE  /\ g[q] \in [of : DOMAIN original, ref : Uuids \cup {Torn}]
             /\ q[2] # "write" => g[q].ref # Torn \/ g[q].of \in short
             /\ (q[2] = "file" /\ q[3] = 0) \/ (q[2] \in Sides /\ q[3] < runs)
  <2>1. CASE q = p
    BY <1>1, <2>1
  <2>2. CASE q # p
    <3>1. q \in DOMAIN f /\ g[q] = f[q]
      BY <1>1, <2>2
    <3>2. QED
      BY <3>1 DEF Disk
  <2>3. QED
    BY <2>1, <2>2
<1>5. Disk(g)
  BY <1>2, <1>3, <1>4 DEF Disk
<1>6. QED
  BY <1>5 DEF g

\* A rename onto a free name loses nothing.
LEMMA DiskMoved ==
    ASSUME NEW f, Disk(f), NEW from \in DOMAIN f, Latest(f, from),
           NEW to \in Paths, to # from, Succeeds(f, to),
           from[2] \notin {"write", "backup"} \/ to[2] \notin {"write", "backup"},
           to[2] # "write" => f[from].ref # Torn \/ f[from].of \in short,
           (to[2] = "file" /\ to[3] = 0) \/ (to[2] \in Sides /\ to[3] < runs)
    PROVE  Disk(Moved(f, from, to))
<1> DEFINE g == Without(f, from)
<1>1. Disk(g)
  BY DiskWithout
<1>2. DOMAIN g = DOMAIN f \ {from}
  BY WithoutFile
<1>3. Succeeds(g, to)
  <2>1. SUFFICES ASSUME to[2] \in {"write", "backup"}, NEW i \in 0 .. MaxRuns, i < to[3]
                 PROVE  <<to[1], to[2], i>> \in DOMAIN g
    BY DEF Succeeds
  <2>2. <<to[1], to[2], i>> \in DOMAIN f
    BY <2>1 DEF Succeeds
  <2>3. <<to[1], to[2], i>>[2] = to[2]
    OBVIOUS
  <2>4. QED
    BY <1>2, <2>1, <2>2, <2>3
<1>4. f[from] \in [of : DOMAIN original, ref : Uuids \cup {Torn}]
  BY DEF Disk
<1> HIDE DEF g
<1>5. Disk(Put(g, to, f[from]))
  BY <1>1, <1>3, <1>4, DiskPut
<1>6. QED
  BY <1>5, MovedIs DEF g

LEMMA KeptMoved ==
    ASSUME NEW f, Kept(f), NEW from \in DOMAIN f, NEW to, to \notin DOMAIN f
    PROVE  Kept(Moved(f, from, to))
<1> DEFINE g == Moved(f, from, to)
<1>1. /\ DOMAIN g = (DOMAIN f \ {from}) \cup {to} /\ g[to] = f[from]
      /\ \A p \in DOMAIN f \ {from, to} : g[p] = f[p]
  BY DEF Moved
<1> HIDE DEF g
<1>2. ASSUME NEW n \in DOMAIN original \ short PROVE \E p \in DOMAIN g : g[p].of = n /\ g[p].ref # Torn
  <2>1. PICK p \in DOMAIN f : f[p].of = n /\ f[p].ref # Torn
    BY DEF Kept
  <2>2. CASE p = from
    BY <1>1, <2>1, <2>2
  <2>3. CASE p # from
    BY <1>1, <2>1, <2>3
  <2>4. QED
    BY <2>2, <2>3
<1>3. Kept(g)
  BY <1>2 DEF Kept
<1>4. QED
  BY <1>3 DEF g

LEMMA KeptPut ==
    ASSUME NEW f, Kept(f), NEW p, p \notin DOMAIN f, NEW content
    PROVE  Kept(Put(f, p, content))
<1> DEFINE g == Put(f, p, content)
<1>1. DOMAIN g = DOMAIN f \cup {p} /\ \A q \in DOMAIN f : g[q] = f[q]
  BY DEF Put
<1> HIDE DEF g
<1>2. Kept(g)
  BY <1>1 DEF Kept
<1>3. QED
  BY <1>2 DEF g

\* A file may be removed when another one has its data, or when they have
\* been cut short.
LEMMA KeptWithout ==
    ASSUME NEW f, Kept(f), NEW p,
           NEW q \in DOMAIN f, q # p, f[q].of = f[p].of,
           f[q].ref # Torn \/ f[p].of \in short
    PROVE  Kept(Without(f, p))
<1> DEFINE g == Without(f, p)
<1>1. DOMAIN g = DOMAIN f \ {p} /\ \A r \in DOMAIN g : g[r] = f[r]
  BY WithoutFile
<1> HIDE DEF g
<1>2. ASSUME NEW n \in DOMAIN original \ short PROVE \E r \in DOMAIN g : g[r].of = n /\ g[r].ref # Torn
  <2>1. PICK r \in DOMAIN f : f[r].of = n /\ f[r].ref # Torn
    BY DEF Kept
  <2>2. CASE r = p
    BY <1>1, <2>1, <2>2
  <2>3. CASE r # p
    BY <1>1, <2>1, <2>3
  <2>4. QED
    BY <2>2, <2>3
<1>3. Kept(g)
  BY <1>2 DEF Kept
<1>4. QED
  BY <1>3 DEF g

-----------------------------------------------------------------------------
(* The siblings.                                                           *)

\* The number that UniqueSibling finds.
FirstFree(f, n, kind) ==
    CHOOSE i \in 0 .. MaxRuns : <<n, kind, i>> \notin DOMAIN f
                                /\ \A j \in 0 .. i - 1 : ~(<<n, kind, j>> \notin DOMAIN f)

IsFirstFree(f, n, kind, m) ==
    /\ m \in 0 .. MaxRuns
    /\ <<n, kind, m>> \notin DOMAIN f
    /\ \A i \in 0 .. m - 1 : <<n, kind, i>> \in DOMAIN f

\* On a sound disk there is a free number; it is below the number of this
\* run when this run has made no sibling yet.
LEMMA FreeNumber ==
    ASSUME NEW f, Disk(f), runs \in 1 .. MaxRuns, MaxRuns \in Nat,
           NEW n \in Everyone, NEW kind \in Sides
    PROVE  \E m \in 0 .. runs : /\ IsFirstFree(f, n, kind, m)
                                /\ <<n, kind, runs - 1>> \notin DOMAIN f => m <= runs - 1
<1> DEFINE T == {i \in 0 .. runs : <<n, kind, i>> \notin DOMAIN f}
<1>1. runs \in T
  <2>1. SUFFICES ASSUME <<n, kind, runs>> \in DOMAIN f PROVE FALSE
    OBVIOUS
  <2> DEFINE p == <<n, kind, runs>>
  <2>2. p[2] = kind /\ p[3] = runs
    OBVIOUS
  <2>3. p \in DOMAIN f
    BY <2>1
  <2> HIDE DEF p
  <2>4. kind # "file" /\ ~(runs < runs)
    BY DEF Sides
  <2>5. QED
    BY <2>2, <2>3, <2>4 DEF Disk
<1>2. PICK m \in T : \A i \in T : m <= i
  <2>1. T \in SUBSET Nat
    OBVIOUS
  <2> HIDE DEF T
  <2>2. QED
    BY <1>1, <2>1, Least
<1>3. IsFirstFree(f, n, kind, m)
  BY <1>2 DEF IsFirstFree
<1>4. <<n, kind, runs - 1>> \notin DOMAIN f => m <= runs - 1
  BY <1>2
<1>5. QED
  BY <1>3, <1>4

LEMMA FirstFreeUnique ==
    ASSUME NEW f, NEW n, NEW kind, NEW m, MaxRuns \in Nat, IsFirstFree(f, n, kind, m)
    PROVE  FirstFree(f, n, kind) = m
<1> DEFINE i == FirstFree(f, n, kind)
<1>1. IsFirstFree(f, n, kind, i)
  BY DEF FirstFree, IsFirstFree
<1> HIDE DEF i
<1>2. ~(i < m) /\ ~(m < i)
  BY <1>1 DEF IsFirstFree
<1>3. i = m
  BY <1>1, <1>2 DEF IsFirstFree
<1>4. QED
  BY <1>3 DEF i

LEMMA FirstFreeIs ==
    ASSUME NEW f, Disk(f), runs \in 1 .. MaxRuns, MaxRuns \in Nat,
           NEW n \in Everyone, NEW kind \in Sides
    PROVE  LET m == FirstFree(f, n, kind)
           IN  /\ m \in 0 .. runs /\ IsFirstFree(f, n, kind, m)
               /\ <<n, kind, runs - 1>> \notin DOMAIN f => m <= runs - 1
BY FreeNumber, FirstFreeUnique

\* Nothing is above the first free number of a writer's siblings.
LEMMA NothingAbove ==
    ASSUME NEW f, Disk(f), MaxRuns \in Nat,
           NEW n \in Everyone, NEW kind \in {"write", "backup"}, NEW m,
           IsFirstFree(f, n, kind, m), NEW i \in 0 .. MaxRuns, m <= i
    PROVE  <<n, kind, i>> \notin DOMAIN f
<1>1. CASE i = m
  BY <1>1 DEF IsFirstFree
<1>2. CASE m < i
  BY <1>2 DEF IsFirstFree, Disk
<1>3. QED
  BY <1>1, <1>2 DEF IsFirstFree

\* Making the sibling moves the first free number up.
LEMMA NextFree ==
    ASSUME NEW f, Disk(f), MaxRuns \in Nat,
           NEW n \in Everyone, NEW kind \in {"write", "backup"}, NEW m,
           IsFirstFree(f, n, kind, m), m < MaxRuns,
           NEW g, \A i \in 0 .. MaxRuns :
                      <<n, kind, i>> \in DOMAIN g <=> <<n, kind, i>> \in DOMAIN f \/ i = m
    PROVE  IsFirstFree(g, n, kind, m + 1)
<1>1. m \in 0 .. MaxRuns /\ m + 1 \in 0 .. MaxRuns /\ ~(m + 1 <= m)
  BY DEF IsFirstFree
<1>2. <<n, kind, m + 1>> \notin DOMAIN f
  BY <1>1, NothingAbove
<1>3. <<n, kind, m + 1>> \notin DOMAIN g
  BY <1>1, <1>2
<1>4. ASSUME NEW i \in 0 .. (m + 1) - 1 PROVE <<n, kind, i>> \in DOMAIN g
  <2>1. i \in 0 .. MaxRuns /\ (i = m \/ i \in 0 .. m - 1)
    BY <1>1
  <2>2. QED
    BY <2>1 DEF IsFirstFree
<1>5. QED
  BY <1>1, <1>3, <1>4 DEF IsFirstFree

\* Steps that leave these siblings alone leave the number alone.
LEMMA SameFree ==
    ASSUME NEW f, NEW g, NEW n, NEW kind, NEW m, IsFirstFree(f, n, kind, m), MaxRuns \in Nat,
           \A i \in 0 .. MaxRuns : <<n, kind, i>> \in DOMAIN g <=> <<n, kind, i>> \in DOMAIN f
    PROVE  IsFirstFree(g, n, kind, m)
BY DEF IsFirstFree

-----------------------------------------------------------------------------
(* Where Run is.                                                           *)

Rewriting == pc \in {"write", "aside", "install", "restore", "cleanup"}
Reading == pc = "visit" \/ Rewriting
Renaming == pc \in {"stage", "name", "unstage", "unname", "unstage_rest"}

\* The file being rewritten is set aside.
Aside == pc \in {"install", "restore"}

Operations == [from : {At(n) : n \in Names}, to : {At(n) : n \in Names},
               tmp : {At(n) : n \in Names} \cup Names \X {"rename"} \X (0 .. MaxRuns)]

Control ==
    /\ DOMAIN original \subseteq Everyone
    /\ \A n \in DOMAIN original : original[n] \in [of : {n}, ref : Uuids]
    /\ rows \in Csvs
    /\ pc \in {"start", "done", "killed", "visit"} \/ Rewriting \/ Renaming
    /\ Reading \/ Renaming => ~TableRefused(rows)
    /\ todo \in Seq(Everyone)
    /\ ops \in Seq(Operations)
    /\ k \in 0 .. Len(ops) + 1
    /\ count \in [changed : Nat, renamed : Nat]
    /\ runs \in 1 .. MaxRuns

\* This run has not made the sibling yet.
Fresh(n, kind) == <<n, kind, runs - 1>> \notin DOMAIN fs

Room ==
    /\ pc = "start" => \A n \in Everyone, kind \in Sides : Fresh(n, kind)
    /\ Reading => \A n \in Everyone : Fresh(n, "rename")
    /\ Reading => \A i \in DOMAIN todo :
           /\ i > 1 \/ pc \in {"visit", "write"} => Fresh(todo[i], "write")
           /\ i > 1 \/ pc \in {"visit", "write", "aside"} => Fresh(todo[i], "backup")
    /\ pc = "stage" => \A i \in DOMAIN ops : i >= k => Fresh(ops[i].from[1], "rename")

\* What a writer that answers true may have made of a content.
WrittenFrom(new, old) == new = Replaced(old) \/ (old.of \in short /\ new = Cut(old))

\* Every file is visited once; while it is rewritten one of the three has it.
Rewrites ==
    /\ Reading => \A i, j \in DOMAIN todo : i # j => todo[i] # todo[j]
    /\ Reading => \A i \in DOMAIN todo : i > 1 \/ ~Aside => Present(todo[i])
    /\ Rewriting => todo # <<>> /\ ~dry
    /\ pc = "aside" => Written \in DOMAIN fs /\ WrittenFrom(fs[Written], fs[File])
    /\ Aside => /\ ~Present(Head(todo))
                /\ Written \in DOMAIN fs /\ SetAside \in DOMAIN fs
                /\ WrittenFrom(fs[Written], fs[SetAside])
    /\ pc = "cleanup" => SetAside \in DOMAIN fs /\ WrittenFrom(fs[File], fs[SetAside])

\* The names in use, that of the file being rewritten included.
InUse == {n \in Everyone : Present(n) \/ (Aside /\ n = Head(todo))}

Plan ==
    Reading \/ Renaming =>
        /\ \A i \in DOMAIN ops : ops[i].from # ops[i].to
        /\ \A i, j \in DOMAIN ops :
               i # j => ops[i].from # ops[j].from /\ ops[i].to # ops[j].to
        /\ \A i, j \in DOMAIN ops : ops[i].to = ops[j].from => Chained

AtTemporary(i) == \E m \in 0 .. MaxRuns : ops[i].tmp = <<ops[i].from[1], "rename", m>>

\* The undo loops have not gone over a file.
Safe == ~Chained \/ past \cap {"overtaken", "undo_failed"} = {}

\* Which names are in use while the files are renamed, and undone.
Planning ==
    Reading =>
        /\ k = 1
        /\ \A i \in DOMAIN ops :
               /\ ops[i].tmp = ops[i].from /\ ops[i].from[1] \in InUse
               /\ ops[i].to[1] \in InUse => \E j \in DOMAIN ops : ops[i].to = ops[j].from

Staging ==
    pc = "stage" =>
        /\ k >= 1
        /\ \A i \in DOMAIN ops :
               /\ i < k => AtTemporary(i) /\ Waiting(i) /\ ops[i].from \notin DOMAIN fs
               /\ i >= k => ops[i].tmp = ops[i].from /\ ops[i].from \in DOMAIN fs
               /\ ops[i].to \in DOMAIN fs => \E j \in DOMAIN ops : ops[i].to = ops[j].from

Naming ==
    pc = "name" =>
        /\ k >= 1
        /\ \A i \in DOMAIN ops :
               /\ AtTemporary(i)
               /\ i < k => ~Waiting(i) /\ ops[i].to \in DOMAIN fs
               /\ i >= k => Waiting(i) /\ ops[i].to \notin DOMAIN fs
               /\ ops[i].from \in DOMAIN fs => \E j \in 1 .. k - 1 : ops[i].from = ops[j].to

Unstaging ==
    pc = "unstage" =>
        /\ k <= Len(ops)
        /\ \A i \in 1 .. k : AtTemporary(i) /\ ops[i].from \notin DOMAIN fs

Unnaming ==
    pc = "unname" =>
        /\ k <= Len(ops)
        /\ \A i \in DOMAIN ops : AtTemporary(i) /\ (i <= k => ~Waiting(i))
        /\ Safe => \A i \in DOMAIN ops : ops[i].from \in DOMAIN fs =>
               /\ i <= k => \E j \in i + 1 .. k : ops[i].from = ops[j].to
               /\ Waiting(i) => \E j \in 1 .. k : ops[i].from = ops[j].to

Restoring ==
    pc = "unstage_rest" =>
        /\ k >= 1
        /\ \A i \in DOMAIN ops : AtTemporary(i)
        /\ Safe => \A i \in DOMAIN ops : i >= k /\ Waiting(i) => ops[i].from \notin DOMAIN fs

Renames == Planning /\ Staging /\ Naming /\ Unstaging /\ Unnaming /\ Restoring

Shape == Disk(fs) /\ Control /\ Room /\ Rewrites /\ Plan /\ Renames /\ (Renaming => ~dry)

IInv == Shape /\ short \subseteq DOMAIN original /\ (Safe => Kept(fs))

\* A file written short is among the exceptions of Disk.
LEMMA WrittenIs ==
    ASSUME rows \in Csvs, ~TableRefused(rows),
           NEW old \in [of : DOMAIN original, ref : Uuids \cup {Torn}],
           old.ref # Torn \/ old.of \in short,
           NEW new, WrittenFrom(new, old)
    PROVE  /\ new \in [of : DOMAIN original, ref : Uuids \cup {Torn}]
           /\ new.of = old.of
           /\ new.ref # Torn \/ new.of \in short
<1>1. CASE new = Replaced(old)
  <2>1. new.of = old.of /\ new.ref = FindMapped(old.ref)
    BY <1>1 DEF Replaced
  <2>2. new = [of |-> new.of, ref |-> new.ref]
    BY <1>1 DEF Replaced
  <2>3. old.ref # Torn => new.ref \in Uuids /\ Torn \notin Uuids
    <3>1. old.ref \in Uuids \cup {Torn} /\ Torn \notin Uuids
      BY UuidConstants DEF Torn
    <3>2. QED
      BY <2>1, <3>1, Table
  <2>4. old.ref = Torn => new.ref = Torn
    BY <2>1, Table
  <2>5. QED
    BY <2>1, <2>2, <2>3, <2>4
<1>2. CASE old.of \in short /\ new = Cut(old)
  BY <1>2 DEF Cut
<1>3. QED
  BY <1>1, <1>2 DEF WrittenFrom

WriteNumber == FirstFree(fs, Head(todo), "write")
BackupNumber == FirstFree(fs, Head(todo), "backup")

LEMMA SiblingNames ==
    /\ Temporary = <<Head(todo), "write", WriteNumber>>
    /\ Written = <<Head(todo), "write", WriteNumber - 1>>
    /\ Backup = <<Head(todo), "backup", BackupNumber>>
    /\ SetAside = <<Head(todo), "backup", BackupNumber - 1>>
BY DEF Temporary, Written, Backup, SetAside, Sibling, WriteNumber, BackupNumber, FirstFree

LEMMA SiblingNamesNext ==
    /\ Written' = <<Head(todo'), "write", FirstFree(fs', Head(todo'), "write") - 1>>
    /\ SetAside' = <<Head(todo'), "backup", FirstFree(fs', Head(todo'), "backup") - 1>>
BY DEF Temporary, Written, Backup, SetAside, Sibling, FirstFree

LEMMA RunsNat == Control => MaxRuns \in Nat /\ runs \in 1 .. MaxRuns /\ runs \in Nat
BY UuidConstants DEF Control

LEMMA HeadOfTodo ==
    ASSUME Control, todo # <<>>
    PROVE  /\ Head(todo) \in Everyone /\ todo[1] = Head(todo) /\ 1 \in DOMAIN todo
           /\ DOMAIN todo = 1 .. Len(todo) /\ Len(todo) \in Nat \ {0}
           /\ At(Head(todo)) \in Paths
<1>1. todo \in Seq(Everyone)
  BY DEF Control
<1>2. Head(todo) \in Everyone /\ todo[1] = Head(todo) /\ 1 \in DOMAIN todo
      /\ DOMAIN todo = 1 .. Len(todo) /\ Len(todo) \in Nat \ {0}
  BY <1>1
<1>3. At(Head(todo)) \in Paths
  BY <1>2, RunsNat DEF At, Paths, Kinds, Everyone
<1>4. QED
  BY <1>2, <1>3

LEMMA Siblings ==
    ASSUME Disk(fs), Control, todo # <<>>
    PROVE  /\ IsFirstFree(fs, Head(todo), "write", WriteNumber)
           /\ IsFirstFree(fs, Head(todo), "backup", BackupNumber)
           /\ Fresh(Head(todo), "write") => WriteNumber < runs
           /\ Fresh(Head(todo), "backup") => BackupNumber < runs
<1>1. runs \in 1 .. MaxRuns /\ MaxRuns \in Nat /\ Head(todo) \in Everyone
  BY RunsNat, HeadOfTodo
<1>2. ASSUME NEW kind \in Sides
      PROVE  /\ IsFirstFree(fs, Head(todo), kind, FirstFree(fs, Head(todo), kind))
             /\ Fresh(Head(todo), kind) => FirstFree(fs, Head(todo), kind) < runs
  <2> DEFINE m == FirstFree(fs, Head(todo), kind)
  <2>1. /\ m \in 0 .. runs /\ IsFirstFree(fs, Head(todo), kind, m)
        /\ <<Head(todo), kind, runs - 1>> \notin DOMAIN fs => m <= runs - 1
    BY <1>1, FirstFreeIs
  <2> HIDE DEF m
  <2>2. IsFirstFree(fs, Head(todo), kind, m) /\ (Fresh(Head(todo), kind) => m < runs)
    BY <1>1, <2>1 DEF Fresh
  <2>3. QED
    BY <2>2 DEF m
<1>3. QED
  BY <1>2 DEF WriteNumber, BackupNumber, Sides

\* The newest siblings may be removed.
LEMMA NewestLast ==
    ASSUME Disk(fs), Control, todo # <<>>
    PROVE  Latest(fs, Written) /\ Latest(fs, SetAside)
<1>1. /\ IsFirstFree(fs, Head(todo), "write", WriteNumber)
      /\ IsFirstFree(fs, Head(todo), "backup", BackupNumber)
      /\ MaxRuns \in Nat /\ Head(todo) \in Everyone
  BY Siblings, RunsNat, HeadOfTodo
<1>2. WriteNumber \in Nat /\ BackupNumber \in Nat
  BY <1>1 DEF IsFirstFree
<1>3. ASSUME NEW i \in 0 .. MaxRuns, WriteNumber - 1 < i PROVE <<Head(todo), "write", i>> \notin DOMAIN fs
  <2>1. WriteNumber <= i
    BY <1>2, <1>3
  <2>2. QED
    BY <1>1, <2>1, NothingAbove
<1>4. ASSUME NEW i \in 0 .. MaxRuns, BackupNumber - 1 < i PROVE <<Head(todo), "backup", i>> \notin DOMAIN fs
  <2>1. BackupNumber <= i
    BY <1>2, <1>4
  <2>2. QED
    BY <1>1, <2>1, NothingAbove
<1>5. QED
  BY <1>3, <1>4, SiblingNames DEF Latest

-----------------------------------------------------------------------------
(* Shape and Kept, step by step: the steps that end a run.                 *)

LEMMA DiskNext ==
    ASSUME Disk(fs'), UNCHANGED <<original, runs>>, short \subseteq short'
    PROVE  Disk(fs)'
BY DEF Disk, Paths

LEMMA KeptNext ==
    ASSUME Kept(fs'), UNCHANGED original, short \subseteq short'
    PROVE  Kept(fs)'
BY DEF Kept

LEMMA Ended ==
    ASSUME Control, pc' \in {"done", "killed"}, Disk(fs)',
           UNCHANGED <<original, rows, ops, k, runs>>, todo' \in Seq(Everyone),
           count' \in [changed : Nat, renamed : Nat]
    PROVE  Shape'
<1>1. ~Reading' /\ ~Renaming' /\ ~Rewriting' /\ ~Aside'
  BY DEF Reading, Renaming, Rewriting, Aside
<1>2. Control'
  BY <1>1 DEF Control, Operations
<1>3. Room' /\ Rewrites' /\ Plan'
  BY <1>1 DEF Room, Rewrites, Plan
<1>4. Renames'
  BY <1>1 DEF Renames, Planning, Staging, Naming, Unstaging, Unnaming, Restoring
<1>5. QED
  BY <1>1, <1>2, <1>3, <1>4 DEF Shape

\* A run that ends and leaves the files as they are.
LEMMA EndedHere ==
    ASSUME Shape, pc' \in {"done", "killed"}, UNCHANGED <<fs, given, todo, ops, k, runs>>,
           count' \in [changed : Nat, renamed : Nat]
    PROVE  Shape' /\ (Kept(fs) => Kept(fs)')
<1>1. Disk(fs)' /\ (Kept(fs) => Kept(fs)')
  BY DiskNext, KeptNext DEF Shape, given
<1>2. todo' \in Seq(Everyone)
  BY DEF Shape, Control
<1>3. Shape'
  BY <1>1, <1>2, Ended DEF Shape, given
<1>4. QED
  BY <1>1, <1>3

\* A run that ends after a step on the files.
LEMMA EndedThere ==
    ASSUME Shape, pc' \in {"done", "killed"}, UNCHANGED <<given, todo, ops, k, count, runs>>,
           Disk(fs'), Kept(fs) => Kept(fs')
    PROVE  Shape' /\ (Kept(fs) => Kept(fs)')
<1>1. Disk(fs)' /\ (Kept(fs) => Kept(fs)')
  BY DiskNext, KeptNext DEF given
<1>2. todo' \in Seq(Everyone) /\ count' \in [changed : Nat, renamed : Nat]
  BY DEF Shape, Control
<1>3. Shape'
  BY <1>1, <1>2, Ended DEF Shape, given
<1>4. QED
  BY <1>1, <1>3

LEMMA RefuseStep ==
    ASSUME Shape, Refuse
    PROVE  Shape' /\ (Kept(fs) => Kept(fs)')
<1>1. pc' = "done" /\ UNCHANGED <<fs, given, todo, ops, k, count, runs>>
  BY DEF Refuse, Fail
<1>2. count' \in [changed : Nat, renamed : Nat]
  BY <1>1 DEF Shape, Control
<1>3. QED
  BY <1>1, <1>2, EndedHere

LEMMA CannotReadStep ==
    ASSUME Shape, CannotRead
    PROVE  Shape' /\ (Kept(fs) => Kept(fs)')
<1>1. pc' = "done" /\ UNCHANGED <<fs, given, todo, ops, k, count, runs>>
  BY DEF CannotRead, Fail
<1>2. count' \in [changed : Nat, renamed : Nat]
  BY <1>1 DEF Shape, Control
<1>3. QED
  BY <1>1, <1>2, EndedHere

LEMMA UndoneStep ==
    ASSUME Shape, Undone
    PROVE  Shape' /\ (Kept(fs) => Kept(fs)')
<1>1. pc' = "done" /\ UNCHANGED <<fs, given, todo, ops, k, count, runs>>
  BY DEF Undone, Fail
<1>2. count' \in [changed : Nat, renamed : Nat]
  BY <1>1 DEF Shape, Control
<1>3. QED
  BY <1>1, <1>2, EndedHere

LEMMA SucceedStep ==
    ASSUME Shape, Succeed
    PROVE  Shape' /\ (Kept(fs) => Kept(fs)')
<1>1. pc' = "done" /\ UNCHANGED <<fs, given, todo, ops, k, count, runs>>
  BY DEF Succeed
<1>2. count' \in [changed : Nat, renamed : Nat]
  BY <1>1 DEF Shape, Control
<1>3. QED
  BY <1>1, <1>2, EndedHere

\* The file being rewritten, before it is set aside.
LEMMA FileThere ==
    ASSUME Shape, pc \in {"visit", "write", "aside"}, todo # <<>>
    PROVE  /\ File \in DOMAIN fs /\ File \in Paths /\ File[2] = "file" /\ File[3] = 0
           /\ fs[File] \in [of : DOMAIN original, ref : Uuids \cup {Torn}]
           /\ fs[File].ref # Torn \/ fs[File].of \in short
<1>1. File = At(Head(todo)) /\ Head(todo) = todo[1] /\ 1 \in DOMAIN todo /\ File \in Paths
  BY HeadOfTodo DEF File, Shape
<1>2. Present(todo[1])
  BY <1>1 DEF Shape, Rewrites, Reading, Rewriting, Aside
<1>3. File \in DOMAIN fs /\ File[2] = "file" /\ File[3] = 0
  BY <1>1, <1>2 DEF Present, At
<1>4. QED
  BY <1>1, <1>3 DEF Shape, Disk

\* A temporary file can be made beside it, whatever is written to it.
LEMMA TemporaryMade ==
    ASSUME Shape, pc = "write", NEW content \in [of : DOMAIN original, ref : Uuids \cup {Torn}]
    PROVE  /\ Disk(Put(fs, Temporary, content))
           /\ Kept(fs) => Kept(Put(fs, Temporary, content))
           /\ Temporary \notin DOMAIN fs /\ Temporary \in Paths
<1>1. todo # <<>>
  BY DEF Shape, Rewrites, Rewriting
<1>2. todo[1] = Head(todo) /\ 1 \in DOMAIN todo /\ Head(todo) \in Everyone
  BY <1>1, HeadOfTodo DEF Shape
<1>3. Fresh(Head(todo), "write")
  BY <1>2 DEF Shape, Room, Reading, Rewriting
<1>4. IsFirstFree(fs, Head(todo), "write", WriteNumber) /\ WriteNumber < runs
  BY <1>1, <1>3, Siblings DEF Shape
<1>5. Temporary = <<Head(todo), "write", WriteNumber>>
  BY SiblingNames
<1>6. Temporary \in Paths /\ Temporary \notin DOMAIN fs
  BY <1>2, <1>4, <1>5 DEF IsFirstFree, Paths, Kinds, Everyone
<1>7. Succeeds(fs, Temporary)
  <2>1. \A i \in 0 .. MaxRuns : i < WriteNumber => i \in 0 .. WriteNumber - 1
    BY <1>4 DEF IsFirstFree
  <2>2. QED
    BY <2>1, <1>4, <1>5 DEF Succeeds, IsFirstFree
<1>8. Disk(fs)
  BY DEF Shape
<1>9. Temporary[2] = "write" /\ Temporary[3] < runs /\ Temporary[2] \in Sides
  BY <1>4, <1>5 DEF Sides
<1>10. Disk(Put(fs, Temporary, content))
  BY <1>6, <1>7, <1>8, <1>9, DiskPut
<1>11. QED
  BY <1>6, <1>10, KeptPut

LEMMA TornIs ==
    ASSUME Shape, pc = "write", fs' \in {fs, TornTemporary}
    PROVE  Disk(fs') /\ (Kept(fs) => Kept(fs'))
<1>1. CASE fs' = fs
  BY <1>1 DEF Shape
<1>2. CASE fs' = TornTemporary
  <2> DEFINE content == Cut(fs[File])
  <2>1. todo # <<>>
    BY DEF Shape, Rewrites, Rewriting
  <2>2. content \in [of : DOMAIN original, ref : Uuids \cup {Torn}]
    BY <2>1, FileThere DEF Cut
  <2>3. TornTemporary = Put(fs, Temporary, content)
    BY DEF TornTemporary, Put
  <2> HIDE DEF content
  <2>4. QED
    BY <1>2, <2>2, <2>3, TemporaryMade
<1>3. QED
  BY <1>1, <1>2

LEMMA CannotWriteStep ==
    ASSUME Shape, CannotWrite
    PROVE  Shape' /\ (Kept(fs) => Kept(fs)')
<1>1. pc = "write" /\ pc' = "done" /\ UNCHANGED <<given, todo, ops, k, count, runs>>
  BY DEF CannotWrite, Fail
<1>2. Disk(fs') /\ (Kept(fs) => Kept(fs'))
  BY <1>1, TornIs DEF CannotWrite
<1>3. QED
  BY <1>1, <1>2, EndedThere

LEMMA CrashStep ==
    ASSUME Shape, Crash
    PROVE  Shape' /\ (Kept(fs) => Kept(fs)')
<1>1. pc' = "killed" /\ UNCHANGED <<given, todo, ops, k, count, runs>>
  BY DEF Crash
<1>2. Disk(fs') /\ (Kept(fs) => Kept(fs'))
  <2>1. CASE pc = "write"
    BY <2>1, TornIs DEF Crash
  <2>2. CASE pc # "write"
    BY <2>2 DEF Crash, Shape
  <2>3. QED
    BY <2>1, <2>2
<1>3. QED
  BY <1>1, <1>2, EndedThere

\* The temporary file may be removed as long as the original is there, under
\* its name or set aside.
LEMMA TemporaryRemoved ==
    ASSUME Disk(fs), Control, todo # <<>>, NEW f, Disk(f), Written \in DOMAIN f, Latest(f, Written),
           NEW q \in DOMAIN f, f[Written].of = f[q].of, q[2] # "write"
    PROVE  Disk(Without(f, Written)) /\ (Kept(f) => Kept(Without(f, Written)))
<1>1. Written[2] = "write"
  BY SiblingNames
<1>2. (f[q].ref # Torn \/ f[Written].of \in short) /\ q # Written
  BY <1>1 DEF Disk
<1>3. Disk(Without(f, Written))
  BY DiskWithout
<1>4. QED
  BY <1>2, <1>3, KeptWithout

LEMMA CannotPutAsideStep ==
    ASSUME Shape, CannotPutAside
    PROVE  Shape' /\ (Kept(fs) => Kept(fs)')
<1>1. pc = "aside" /\ pc' = "done" /\ UNCHANGED <<given, todo, ops, k, count, runs>>
  BY DEF CannotPutAside, Fail
<1>2. todo # <<>> /\ Disk(fs) /\ Control
  BY <1>1 DEF Shape, Rewrites, Rewriting
<1>3. Written \in DOMAIN fs /\ WrittenFrom(fs[Written], fs[File])
  BY <1>1 DEF Shape, Rewrites
<1>4. /\ File \in DOMAIN fs /\ File[2] # "write"
      /\ fs[File] \in [of : DOMAIN original, ref : Uuids \cup {Torn}]
  BY <1>1, <1>2, FileThere
<1>5. fs[Written].of = fs[File].of
  BY <1>3, <1>4 DEF WrittenFrom, Replaced, Cut
<1>6. Latest(fs, Written)
  BY <1>2, NewestLast
<1>7. Disk(Without(fs, Written)) /\ (Kept(fs) => Kept(Without(fs, Written)))
  BY <1>2, <1>3, <1>4, <1>5, <1>6, TemporaryRemoved
<1>8. Disk(fs') /\ (Kept(fs) => Kept(fs'))
  BY <1>2, <1>7 DEF CannotPutAside
<1>9. QED
  BY <1>1, <1>8, EndedThere

\* While it is set aside.
LEMMA FileAside ==
    ASSUME Shape, Aside
    PROVE  /\ todo # <<>> /\ File \notin DOMAIN fs /\ File \in Paths
           /\ File[2] = "file" /\ File[3] = 0
           /\ Written \in DOMAIN fs /\ SetAside \in DOMAIN fs
           /\ Written[2] = "write" /\ SetAside[2] = "backup"
           /\ fs[SetAside] \in [of : DOMAIN original, ref : Uuids \cup {Torn}]
           /\ fs[SetAside].ref # Torn \/ fs[SetAside].of \in short
           /\ WrittenFrom(fs[Written], fs[SetAside])
           /\ fs[Written].of = fs[SetAside].of
<1>1. todo # <<>> /\ Control
  BY DEF Shape, Rewrites, Rewriting, Aside
<1>2. File \in Paths /\ File[2] = "file" /\ File[3] = 0
  BY <1>1, HeadOfTodo DEF File, At
<1>3. /\ File \notin DOMAIN fs /\ Written \in DOMAIN fs /\ SetAside \in DOMAIN fs
      /\ WrittenFrom(fs[Written], fs[SetAside])
  BY DEF Shape, Rewrites, File, Present
<1>4. Written[2] = "write" /\ SetAside[2] = "backup"
  BY SiblingNames
<1>5. /\ fs[SetAside] \in [of : DOMAIN original, ref : Uuids \cup {Torn}]
      /\ fs[SetAside].ref # Torn \/ fs[SetAside].of \in short
  BY <1>3, <1>4 DEF Shape, Disk
<1>6. fs[Written].of = fs[SetAside].of
  BY <1>3, <1>5 DEF WrittenFrom, Replaced, Cut
<1>7. QED
  BY <1>1, <1>2, <1>3, <1>4, <1>5, <1>6

LEMMA RestoreStep ==
    ASSUME Shape, Restore
    PROVE  Shape' /\ (Kept(fs) => Kept(fs)')
<1>1. pc = "restore" /\ pc' = "done" /\ UNCHANGED <<given, todo, ops, k, count, runs>>
  BY DEF Restore, Fail
<1>2. Aside /\ Disk(fs) /\ Control
  BY <1>1 DEF Aside, Shape
<1>3. /\ todo # <<>> /\ File \notin DOMAIN fs /\ File \in Paths
      /\ File[2] = "file" /\ File[3] = 0
      /\ Written \in DOMAIN fs /\ SetAside \in DOMAIN fs
      /\ Written[2] = "write" /\ SetAside[2] = "backup"
      /\ fs[SetAside].ref # Torn \/ fs[SetAside].of \in short
      /\ fs[Written].of = fs[SetAside].of
  BY <1>2, FileAside
<1>4. Latest(fs, Written) /\ Latest(fs, SetAside)
  BY <1>2, <1>3, NewestLast
<1> DEFINE f == Moved(fs, SetAside, File)
<1>5. Disk(f) /\ (Kept(fs) => Kept(f))
  <2>1. Succeeds(fs, File)
    BY <1>3 DEF Succeeds
  <2>2. File # SetAside
    BY <1>3
  <2>3. Disk(f)
    BY <1>2, <1>3, <1>4, <2>1, <2>2, DiskMoved
  <2>4. QED
    BY <1>3, <2>3, KeptMoved
<1>6. /\ Written \in DOMAIN f /\ File \in DOMAIN f
      /\ f[Written] = fs[Written] /\ f[File] = fs[SetAside]
      /\ \A p \in DOMAIN f : p \in DOMAIN fs \/ p = File
  <2>1. Written # File /\ Written # SetAside
    BY <1>3
  <2>2. QED
    BY <1>3, <2>1 DEF Moved
<1>7. Latest(f, Written)
  <2>1. SUFFICES ASSUME NEW i \in 0 .. MaxRuns, Written[3] < i
                 PROVE  <<Written[1], Written[2], i>> \notin DOMAIN f
    BY DEF Latest
  <2>2. <<Written[1], Written[2], i>> \notin DOMAIN fs
    BY <1>3, <1>4, <2>1 DEF Latest
  <2>3. <<Written[1], Written[2], i>>[2] = "write"
    BY <1>3
  <2>4. QED
    BY <1>3, <1>6, <2>2, <2>3
<1> HIDE DEF f
<1>8. Disk(Without(f, Written)) /\ (Kept(f) => Kept(Without(f, Written)))
  <2>1. f[Written].of = f[File].of /\ File[2] # "write"
    BY <1>3, <1>6
  <2>2. QED
    BY <1>2, <1>3, <1>5, <1>6, <1>7, <2>1, TemporaryRemoved
<1>9. Disk(Without(fs, Written)) /\ (Kept(fs) => Kept(Without(fs, Written)))
  <2>1. SetAside[2] # "write"
    BY <1>3
  <2>2. QED
    BY <1>2, <1>3, <1>4, <2>1, TemporaryRemoved
<1>10. fs' \in {f, Without(f, Written), Without(fs, Written)}
  BY DEF Restore, f
<1>11. Disk(fs') /\ (Kept(fs) => Kept(fs'))
  BY <1>5, <1>8, <1>9, <1>10
<1>12. QED
  BY <1>1, <1>11, EndedThere

-----------------------------------------------------------------------------
(* The beginning, and a new run.                                           *)

LEMMA InitShape == Init => Shape /\ Kept(fs)
<1> SUFFICES ASSUME Init PROVE Shape /\ Kept(fs)
  OBVIOUS
<1>1. MaxRuns \in Nat \ {0} /\ Host \in Uuids /\ UuidOf \in [Names -> Uuids] /\ Worlds \subseteq SUBSET Names
      /\ 0 \notin Uuids
  BY UuidConstants DEF Bad
<1>2. PICK w \in Worlds : original = [n \in w \cup {Level} |->
              [of |-> n, ref |-> IF n = Level THEN Host ELSE UuidOf[n]]]
  BY DEF Init
<1>3. DOMAIN original \subseteq Everyone
  BY <1>1, <1>2 DEF Everyone
<1>4. \A n \in DOMAIN original : original[n] \in [of : {n}, ref : Uuids]
  BY <1>1, <1>2
<1>5. /\ pc = "start" /\ rows \in Csvs /\ todo = <<>> /\ ops = <<>> /\ k = 1 /\ runs = 1
      /\ count = [changed |-> 0, renamed |-> 0]
      /\ fs = [p \in {At(n) : n \in DOMAIN original} |-> original[p[1]]]
  BY DEF Init
<1>6. ~Reading /\ ~Renaming /\ ~Rewriting /\ ~Aside
  BY <1>5 DEF Reading, Renaming, Rewriting, Aside
<1>7. Control
  BY <1>1, <1>3, <1>4, <1>5, <1>6 DEF Control
<1>8. \A p \in DOMAIN fs : \E n \in DOMAIN original :
          /\ p = <<n, "file", 0>> /\ p[1] = n /\ p[2] = "file" /\ p[3] = 0
          /\ fs[p] = original[n]
  BY <1>5 DEF At
<1>9. Disk(fs)
  <2>1. DOMAIN fs \subseteq Paths
    BY <1>1, <1>3, <1>8 DEF Paths, Kinds, Everyone
  <2>2. ASSUME NEW p \in DOMAIN fs
        PROVE  /\ fs[p] \in [of : DOMAIN original, ref : Uuids \cup {Torn}]
               /\ p[2] # "write" => fs[p].ref # Torn
               /\ (p[2] = "file" /\ p[3] = 0) \/ (p[2] \in Sides /\ p[3] < runs)
    BY <1>1, <1>4, <1>8 DEF Torn, Bad
  <2>3. ASSUME NEW n \in Everyone, NEW kind \in Sides, NEW i
        PROVE  <<n, kind, i>> \notin DOMAIN fs
    <3>1. <<n, kind, i>>[2] # "file"
      BY DEF Sides
    <3>2. QED
      BY <3>1, <1>8
  <2>4. QED
    BY <2>1, <2>2, <2>3 DEF Disk, Sides
<1>10. Room
  <2>1. ASSUME NEW n \in Everyone, NEW kind \in Sides
        PROVE  <<n, kind, runs - 1>> \notin DOMAIN fs
    <3>1. <<n, kind, runs - 1>>[2] # "file"
      BY DEF Sides
    <3>2. QED
      BY <3>1, <1>8
  <2>2. QED
    BY <2>1, <1>5, <1>6 DEF Room, Fresh
<1>11. Rewrites /\ Plan /\ Renames
  BY <1>5, <1>6 DEF Rewrites, Plan, Renames, Planning, Staging, Naming, Unstaging, Unnaming, Restoring
<1>12. Kept(fs)
  <2>1. ASSUME NEW n \in DOMAIN original PROVE fs[At(n)].of = n /\ fs[At(n)].ref # Torn /\ At(n) \in DOMAIN fs
    <3>1. At(n) \in DOMAIN fs /\ fs[At(n)] = original[n]
      BY <1>5 DEF At
    <3>2. QED
      BY <1>1, <1>4, <3>1 DEF Torn, Bad
  <2>2. QED
    BY <2>1 DEF Kept
<1>13. QED
  BY <1>6, <1>7, <1>9, <1>10, <1>11, <1>12 DEF Shape

LEMMA RunAgainStep ==
    ASSUME Shape, RunAgain
    PROVE  Shape' /\ (Kept(fs) => Kept(fs)')
<1>1. /\ runs' = runs + 1 /\ runs < MaxRuns /\ pc' = "start"
      /\ todo' = <<>> /\ ops' = <<>> /\ k' = 1 /\ count' = [changed |-> 0, renamed |-> 0]
      /\ UNCHANGED <<fs, original, short, rows>>
  BY DEF RunAgain
<1>2. MaxRuns \in Nat /\ runs \in 1 .. MaxRuns /\ Control /\ Disk(fs)
  BY RunsNat DEF Shape
<1>3. ~Reading' /\ ~Renaming' /\ ~Rewriting' /\ ~Aside'
  BY <1>1 DEF Reading, Renaming, Rewriting, Aside
<1>4. Control'
  BY <1>1, <1>2, <1>3 DEF Control
<1>5. ASSUME NEW p \in DOMAIN fs PROVE p[3] \in Nat /\ (p[2] \in Sides => p[3] < runs)
  <2>1. p[3] \in Nat
    BY <1>2, PathIs DEF Disk
  <2>2. QED
    BY <1>2, <2>1 DEF Disk, Sides
<1>6. Disk(fs)'
  BY <1>1, <1>2, <1>5 DEF Disk, Paths
<1>7. Room'
  <2>1. ASSUME NEW n \in Everyone, NEW kind \in Sides
        PROVE  <<n, kind, runs' - 1>> \notin DOMAIN fs'
    <3>1. <<n, kind, runs' - 1>>[2] = kind /\ <<n, kind, runs' - 1>>[3] = runs
      BY <1>1, <1>2
    <3>2. ~(runs < runs)
      BY <1>2
    <3>3. QED
      BY <1>1, <1>5, <3>1, <3>2
  <2>2. QED
    BY <2>1, <1>1, <1>3 DEF Room, Fresh
<1>8. Rewrites' /\ Plan' /\ Renames'
  BY <1>1, <1>3 DEF Rewrites, Plan, Renames, Planning, Staging, Naming, Unstaging, Unnaming, Restoring
<1>9. Kept(fs) => Kept(fs)'
  BY <1>1 DEF Kept
<1>10. QED
  BY <1>3, <1>4, <1>6, <1>7, <1>8, <1>9 DEF Shape

\* What a name is made of.
LEMMA AtFacts ==
    /\ \A n : At(n)[1] = n /\ At(n)[2] = "file" /\ At(n)[3] = 0
    /\ \A m, n : At(m) = At(n) => m = n
BY DEF At

LEMMA SameTable ==
    ASSUME UNCHANGED rows
    PROVE  /\ Chained' <=> Chained
           /\ \A u : FindMapped(u)' = FindMapped(u)
           /\ TableRefused(rows)' <=> TableRefused(rows)
BY DEF Chained, FindMapped, Mapping

\* The plan: whose files are renamed, and to which names.
LEMMA PlanMade ==
    ASSUME Shape, pc = "start", ~TableRefused(rows), ~PlanRefused
    PROVE  /\ Renamed \subseteq Names
           /\ Planned \in Seq(Operations)
           /\ \A i \in DOMAIN Planned : \E n \in Renamed :
                  /\ Planned[i].from = At(n) /\ Planned[i].to = At(Target(n))
                  /\ Planned[i].tmp = At(n)
           /\ \A i, j \in DOMAIN Planned : i # j =>
                  Planned[i].from # Planned[j].from /\ Planned[i].to # Planned[j].to
           /\ \A n \in Renamed : \E i \in DOMAIN Planned : Planned[i].from = At(n)
<1> DEFINE size == Cardinality(Renamed)
           order == InOrder(Renamed)
<1>1. Renamed \subseteq Names /\ Renamed \in SUBSET Nat /\ IsFiniteSet(Renamed)
  <2>1. Renamed \subseteq Names
    BY DEF Renamed
  <2>2. QED
    BY <2>1, UuidConstants, FS_Subset
<1>2. /\ size \in Nat /\ order \in [1 .. size -> Renamed]
      /\ \A i, j \in 1 .. size : i # j => order[i] # order[j]
      /\ \A n \in Renamed : \E i \in 1 .. size : order[i] = n
  BY <1>1, Ordered
<1>3. Planned = [i \in 1 .. size |-> [from |-> At(order[i]), to |-> At(Target(order[i])), tmp |-> At(order[i])]]
  BY DEF Planned
<1> HIDE DEF size, order
<1>4. rows \in Csvs
  BY DEF Shape, Control
<1>5. \A n \in Renamed : Target(n) \in Names
  BY <1>1, <1>4, NewNames
<1>6. DOMAIN Planned = 1 .. size
  BY <1>3
<1>7. ASSUME NEW i \in 1 .. size
      PROVE  /\ order[i] \in Renamed
             /\ Planned[i] = [from |-> At(order[i]), to |-> At(Target(order[i])), tmp |-> At(order[i])]
             /\ Planned[i].from = At(order[i]) /\ Planned[i].to = At(Target(order[i]))
             /\ Planned[i].tmp = At(order[i])
             /\ Planned[i] \in Operations
  <2>1. order[i] \in Renamed
    BY <1>2
  <2>2. Planned[i] = [from |-> At(order[i]), to |-> At(Target(order[i])), tmp |-> At(order[i])]
    BY <1>3
  <2>3. At(order[i]) \in {At(n) : n \in Names} /\ At(Target(order[i])) \in {At(n) : n \in Names}
    BY <1>1, <1>5, <2>1
  <2>4. QED
    BY <2>1, <2>2, <2>3 DEF Operations
<1>8. Planned \in Seq(Operations)
  <2>1. Planned \in [1 .. size -> Operations]
    BY <1>3, <1>7
  <2>2. QED
    BY <1>2, <2>1
<1>9. ASSUME NEW i \in 1 .. size, NEW j \in 1 .. size, i # j
      PROVE  Planned[i].from # Planned[j].from /\ Planned[i].to # Planned[j].to
  <2>1. order[i] # order[j] /\ order[i] \in Renamed /\ order[j] \in Renamed
    BY <1>2, <1>9
  <2>2. Target(order[i]) # Target(order[j])
    BY <2>1 DEF PlanRefused
  <2>3. At(order[i]) # At(order[j]) /\ At(Target(order[i])) # At(Target(order[j]))
    BY ONLY <2>1, <2>2 DEF At
  <2>4. QED
    BY <1>7, <2>3
<1>10. ASSUME NEW n \in Renamed PROVE \E i \in 1 .. size : Planned[i].from = At(n)
  BY <1>2, <1>7
<1>11. QED
  BY <1>1, <1>6, <1>7, <1>8, <1>9, <1>10

LEMMA StartStep ==
    ASSUME Shape, Start
    PROVE  Shape' /\ (Kept(fs) => Kept(fs)')
<1> DEFINE Here == {n \in Names \cup {Level} : Present(n)}
           size == Cardinality(Here)
<1>1. /\ pc = "start" /\ ~TableRefused(rows) /\ ~PlanRefused
      /\ todo' = InOrder(Here) /\ ops' = Planned /\ k' = 1 /\ pc' = "visit"
      /\ count' = [changed |-> 0, renamed |-> 0]
      /\ UNCHANGED <<fs, original, short, rows, dry, runs, past>>
  BY DEF Start, given
<1>2. /\ size \in Nat /\ todo' \in [1 .. size -> Here]
      /\ \A i, j \in 1 .. size : i # j => todo'[i] # todo'[j]
  <2>1. Here \in SUBSET Nat /\ IsFiniteSet(Here)
    <3>1. IsFiniteSet(Names \cup {Level})
      BY UuidConstants, FS_AddElement
    <3>2. QED
      BY <3>1, UuidConstants, FS_Subset DEF Level
  <2> HIDE DEF Here
  <2>2. QED
    BY <1>1, <2>1, Ordered
<1>3. todo' \in Seq(Everyone) /\ DOMAIN todo' = 1 .. size /\ \A i \in 1 .. size : todo'[i] \in Everyone /\ Present(todo'[i])
  <2>1. \A n \in Here : n \in Everyone /\ Present(n)
    BY DEF Everyone
  <2> HIDE DEF Here
  <2>2. QED
    BY <1>2, <2>1
<1> HIDE DEF Here, size
<1>4. /\ Renamed \subseteq Names
      /\ Planned \in Seq(Operations)
      /\ \A i \in DOMAIN Planned : \E n \in Renamed :
             /\ Planned[i].from = At(n) /\ Planned[i].to = At(Target(n))
             /\ Planned[i].tmp = At(n)
      /\ \A i, j \in DOMAIN Planned : i # j =>
             Planned[i].from # Planned[j].from /\ Planned[i].to # Planned[j].to
      /\ \A n \in Renamed : \E i \in DOMAIN Planned : Planned[i].from = At(n)
  BY <1>1, PlanMade
<1>5. Reading' /\ ~Renaming' /\ ~Rewriting' /\ ~Aside' /\ ~Aside
  BY <1>1 DEF Reading, Renaming, Rewriting, Aside
<1>6. /\ MaxRuns \in Nat /\ runs \in 1 .. MaxRuns /\ Control /\ Disk(fs) /\ rows \in Csvs
  BY RunsNat DEF Shape, Control
<1>7. Control'
  <2>1. k' \in 0 .. Len(ops') + 1
    BY <1>1, <1>4
  <2>2. ops' \in Seq(Operations)'
    BY <1>1, <1>4 DEF Operations
  <2>3. ~TableRefused(rows)'
    BY <1>1, SameTable
  <2>4. QED
    BY <1>1, <1>3, <1>5, <1>6, <2>1, <2>2, <2>3 DEF Control
<1>8. Disk(fs)' /\ (Kept(fs) => Kept(fs)')
  BY <1>1, <1>6, DiskNext, KeptNext
<1>9. Room'
  <2>1. \A n \in Everyone, kind \in Sides : Fresh(n, kind)
    BY <1>1 DEF Shape, Room
  <2>2. \A n \in Everyone, kind \in Sides : Fresh(n, kind)'
    BY <1>1, <2>1 DEF Fresh
  <2>3. QED
    BY <1>1, <1>3, <1>5, <2>2 DEF Room, Sides
<1>10. Rewrites'
  <2>1. \A i \in DOMAIN todo' : Present(todo[i])'
    BY <1>1, <1>3 DEF Present
  <2>2. QED
    BY <1>1, <1>2, <1>3, <1>5, <2>1 DEF Rewrites
<1>11. Plan'
  <2>1. ASSUME NEW i \in DOMAIN Planned PROVE Planned[i].from # Planned[i].to
    BY <1>1, <1>4, <1>6, NewNames, AtFacts DEF Renamed
  <2>2. ASSUME NEW i \in DOMAIN Planned, NEW j \in DOMAIN Planned, Planned[i].to = Planned[j].from
        PROVE  Chained'
    <3>1. PICK m \in Renamed : Planned[i].to = At(Target(m))
      BY <1>4
    <3>2. PICK n \in Renamed : Planned[j].from = At(n)
      BY <1>4
    <3>3. Target(m) = n
      BY <2>2, <3>1, <3>2, AtFacts
    <3>4. m \in Names /\ n \in Names /\ FindMapped(UuidOf[m]) # UuidOf[m] /\ FindMapped(UuidOf[n]) # UuidOf[n]
      BY DEF Renamed
    <3>5. Chained
      BY <1>1, <1>6, <3>3, <3>4, NewNames
    <3>6. QED
      BY <1>1, <3>5, SameTable
  <2>3. QED
    BY <1>1, <1>4, <2>1, <2>2 DEF Plan
<1>12. Planning'
  <2>1. ASSUME NEW n \in Everyone PROVE n \in InUse' <=> Present(n)
    BY <1>1, <1>5 DEF InUse, Present
  <2>2. ASSUME NEW i \in DOMAIN Planned
        PROVE  /\ Planned[i].tmp = Planned[i].from /\ Planned[i].from[1] \in InUse'
               /\ Planned[i].to[1] \in InUse' => \E j \in DOMAIN Planned : Planned[i].to = Planned[j].from
    <3>1. PICK n \in Renamed : /\ Planned[i].from = At(n) /\ Planned[i].to = At(Target(n))
                               /\ Planned[i].tmp = At(n)
      BY <1>4
    <3>2. n \in Names /\ Present(n) /\ FindMapped(UuidOf[n]) # UuidOf[n] /\ Target(n) \in Names
      BY <1>1, <1>6, NewNames DEF Renamed
    <3>3. n \in Everyone /\ Target(n) \in Everyone
      BY <3>2 DEF Everyone
    <3>4. Present(Target(n)) => Target(n) \in Renamed
      BY <1>1 DEF PlanRefused, TargetTaken
    <3>5. Present(Target(n)) => \E j \in DOMAIN Planned : At(Target(n)) = Planned[j].from
      BY <1>4, <3>4
    <3>6. Planned[i].from[1] = n /\ Planned[i].to[1] = Target(n)
      BY <3>1, AtFacts
    <3>7. QED
      BY <2>1, <3>1, <3>2, <3>3, <3>5, <3>6
  <2>3. QED
    BY <1>1, <2>2 DEF Planning
<1>13. Renames'
  BY <1>1, <1>12 DEF Renames, Staging, Naming, Unstaging, Unnaming, Restoring
<1>14. QED
  BY <1>5, <1>7, <1>8, <1>9, <1>10, <1>11, <1>13 DEF Shape

-----------------------------------------------------------------------------
(* Reading and rewriting the files.                                        *)

\* Steps after which Run is still before the renames.
LEMMA StillReading ==
    ASSUME Shape, Reading, Reading', UNCHANGED <<original, rows, ops, k, runs>>, short \subseteq short',
           todo' \in Seq(Everyone), count' \in [changed : Nat, renamed : Nat],
           Disk(fs'), Room', Rewrites', \A n \in Everyone : n \in InUse' <=> n \in InUse
    PROVE  Shape'
<1>1. Disk(fs)'
  BY DiskNext
<1>2. ~Renaming' /\ (pc' = "visit" \/ Rewriting')
  BY DEF Reading, Rewriting, Renaming
<1>3. Control /\ Plan /\ Planning /\ ~TableRefused(rows)
  BY DEF Shape, Control, Renames
<1>4. (Chained' <=> Chained) /\ (TableRefused(rows)' <=> TableRefused(rows))
  BY SameTable
<1>5. Control'
  <2>1. ops' \in Seq(Operations)'
    BY <1>3 DEF Control, Operations
  <2>2. QED
    BY <1>2, <1>3, <1>4, <2>1 DEF Control
<1>6. Plan'
  BY <1>3, <1>4 DEF Plan
<1>7. Planning'
  <2>1. ASSUME NEW i \in DOMAIN ops
        PROVE  ops[i].from[1] \in Everyone /\ ops[i].to[1] \in Everyone
    <3>1. ops[i] \in Operations
      BY <1>3 DEF Control
    <3>2. QED
      BY <3>1, AtFacts DEF Operations, Everyone
  <2>2. QED
    BY <1>3, <2>1 DEF Planning
<1>8. Renames'
  BY <1>2, <1>7 DEF Renames, Staging, Naming, Unstaging, Unnaming, Restoring, Renaming
<1>9. QED
  BY <1>1, <1>2, <1>5, <1>6, <1>8 DEF Shape

LEMMA VisitStep ==
    ASSUME Shape, Visit
    PROVE  Shape' /\ (Kept(fs) => Kept(fs)')
<1>1. /\ pc = "visit" /\ todo # <<>> /\ UNCHANGED <<fs, original, short, rows, dry, ops, k, runs>>
      /\ count' = [count EXCEPT !.changed = IF Refers(fs[File]) THEN @ + 1 ELSE @]
      /\ \/ pc' = "write" /\ todo' = todo /\ ~dry
         \/ pc' = "visit" /\ todo' = Tail(todo)
  BY DEF Visit, given
<1>2. Control /\ Disk(fs) /\ Room /\ Rewrites
  BY DEF Shape
<1>3. Reading /\ Reading' /\ ~Aside /\ ~Aside'
  BY <1>1 DEF Reading, Rewriting, Aside
<1>4. /\ todo' \in Seq(Everyone)
      /\ \A i \in DOMAIN todo' : \E j \in DOMAIN todo :
             todo'[i] = todo[j] /\ (j = i \/ j = i + 1)
      /\ \A i, j \in DOMAIN todo' : i # j => todo'[i] # todo'[j]
  <2>1. todo \in Seq(Everyone) /\ \A i, j \in DOMAIN todo : i # j => todo[i] # todo[j]
    BY <1>2, <1>3 DEF Control, Rewrites
  <2>2. CASE todo' = todo
    BY <2>1, <2>2
  <2>3. CASE todo' = Tail(todo)
    <3>1. /\ todo' \in Seq(Everyone) /\ Len(todo') = Len(todo) - 1 /\ Len(todo) \in Nat
          /\ \A i \in 1 .. Len(todo) - 1 : todo'[i] = todo[i + 1] /\ i + 1 \in DOMAIN todo
      BY <1>1, <2>1, <2>3
    <3>2. DOMAIN todo' = 1 .. Len(todo) - 1
      BY <3>1
    <3>3. \A i \in DOMAIN todo' : i \in DOMAIN todo /\ i + 1 \in DOMAIN todo /\ todo'[i] = todo[i + 1]
      BY <2>1, <3>1, <3>2
    <3>4. \A i, j \in DOMAIN todo' : i # j => i + 1 # j + 1
      BY <3>2
    <3>5. \A i, j \in DOMAIN todo' : i # j => todo'[i] # todo'[j]
      BY <2>1, <3>3, <3>4
    <3>6. QED
      BY <3>1, <3>3, <3>5
  <2>4. QED
    BY <1>1, <2>2, <2>3
<1>5. count' \in [changed : Nat, renamed : Nat]
  BY <1>1, <1>2 DEF Control
<1>6. \A n : Present(n)' <=> Present(n)
  BY <1>1 DEF Present
<1>7. Room'
  <2>1. \A n, kind : Fresh(n, kind)' <=> Fresh(n, kind)
    BY <1>1 DEF Fresh
  <2>2. \A i \in DOMAIN todo : Fresh(todo[i], "write") /\ Fresh(todo[i], "backup")
    BY <1>1, <1>2, <1>3 DEF Room
  <2>3. \A n \in Everyone : Fresh(n, "rename")
    BY <1>2, <1>3 DEF Room
  <2>4. \A i \in DOMAIN todo' : Fresh(todo[i], "write")' /\ Fresh(todo[i], "backup")'
    BY <1>1, <1>4, <2>2 DEF Fresh
  <2>5. QED
    BY <1>1, <2>1, <2>3, <2>4 DEF Room
<1>8. Rewrites'
  <2>1. \A i \in DOMAIN todo' : Present(todo[i])'
    BY <1>1, <1>2, <1>3, <1>4 DEF Rewrites, Present
  <2>2. pc' = "write" => todo' # <<>> /\ ~dry'
    BY <1>1
  <2>3. QED
    BY <1>1, <1>3, <1>4, <2>1, <2>2 DEF Rewrites, Rewriting
<1>9. \A n \in Everyone : n \in InUse' <=> n \in InUse
  BY <1>3, <1>6 DEF InUse
<1>10. Disk(fs')
  BY <1>1, <1>2
<1>11. Shape'
  BY <1>1, <1>3, <1>4, <1>5, <1>7, <1>8, <1>9, <1>10, StillReading
<1>12. Kept(fs) => Kept(fs)'
  BY <1>1 DEF Kept
<1>13. QED
  BY <1>11, <1>12

\* Steps of WriteAtomically that leave the list alone.
LEMMA SameList ==
    ASSUME Shape, UNCHANGED todo
    PROVE  /\ todo' \in Seq(Everyone)
           /\ Reading => \A i, j \in DOMAIN todo' : i # j => todo'[i] # todo'[j]
           /\ Rewriting => /\ todo' # <<>> /\ ~dry
                           /\ \A i \in DOMAIN todo : i > 1 => todo[i] # Head(todo)
                           /\ \A i \in DOMAIN todo : i = 1 \/ i > 1
<1>1. Control /\ Rewrites
  BY DEF Shape
<1>2. ASSUME Rewriting
      PROVE  /\ todo' # <<>> /\ ~dry
             /\ \A i \in DOMAIN todo : i > 1 => todo[i] # Head(todo)
             /\ \A i \in DOMAIN todo : i = 1 \/ i > 1
  <2>1. todo # <<>> /\ ~dry
    BY <1>1, <1>2 DEF Rewrites
  <2>2. todo[1] = Head(todo) /\ 1 \in DOMAIN todo /\ DOMAIN todo = 1 .. Len(todo) /\ Len(todo) \in Nat
    BY <1>1, <2>1, HeadOfTodo
  <2>3. Reading
    BY <1>2 DEF Reading
  <2>4. ASSUME NEW i \in DOMAIN todo, i > 1 PROVE todo[i] # Head(todo)
    <3>1. i # 1
      BY <2>2, <2>4
    <3>2. QED
      BY <1>1, <2>2, <2>3, <3>1 DEF Rewrites
  <2>5. QED
    BY <2>1, <2>2, <2>4
<1>3. QED
  BY <1>1, <1>2 DEF Control, Rewrites

\* Both writers that answer true: the one that wrote all, and the other.
LEMMA WriteFiles ==
    ASSUME WriteTemporary \/ WriteShort
    PROVE  /\ pc = "write" /\ pc' = "aside"
           /\ UNCHANGED <<original, rows, dry, todo, ops, k, count, runs, past>>
           /\ short \subseteq short' /\ short' \subseteq short \cup {fs[File].of}
           /\ \E content : /\ fs' = Put(fs, Temporary, content)
                           /\ \/ content = Replaced(fs[File])
                              \/ content = Cut(fs[File]) /\ fs[File].of \in short'
<1>1. CASE WriteTemporary
  BY <1>1 DEF WriteTemporary, given, Put
<1>2. CASE WriteShort
  BY <1>2 DEF WriteShort, TornTemporary, Put
<1>3. QED
  BY <1>1, <1>2

LEMMA WriteTemporaryStep ==
    ASSUME Shape, WriteTemporary \/ WriteShort
    PROVE  Shape' /\ (Kept(fs) => Kept(fs)')
<1>1. /\ pc = "write" /\ pc' = "aside"
      /\ UNCHANGED <<original, rows, dry, todo, ops, k, count, runs>>
      /\ short \subseteq short'
  BY WriteFiles
<1> PICK content : /\ fs' = Put(fs, Temporary, content)
                   /\ \/ content = Replaced(fs[File])
                      \/ content = Cut(fs[File]) /\ fs[File].of \in short'
  BY WriteFiles
<1>2. Control /\ Disk(fs) /\ Room /\ Rewrites
  BY DEF Shape
<1>3. Reading /\ Reading' /\ Rewriting /\ Rewriting' /\ ~Aside /\ ~Aside'
  BY <1>1 DEF Reading, Rewriting, Aside
<1>4. todo # <<>> /\ ~TableRefused(rows) /\ rows \in Csvs
  BY <1>2, <1>3 DEF Rewrites, Control
<1>5. /\ File \in DOMAIN fs /\ File[2] = "file"
      /\ fs[File] \in [of : DOMAIN original, ref : Uuids \cup {Torn}]
  BY <1>1, <1>4, FileThere
<1>6. content \in [of : DOMAIN original, ref : Uuids \cup {Torn}]
  <2>1. FindMapped(fs[File].ref) \in Uuids \cup {Torn}
    BY <1>4, <1>5, Table
  <2>2. QED
    BY <1>5, <2>1 DEF Replaced, Cut
<1>7. /\ fs' = Put(fs, Temporary, content)
      /\ Disk(fs') /\ (Kept(fs) => Kept(fs')) /\ Temporary \notin DOMAIN fs
  BY <1>1, <1>6, TemporaryMade
<1>8. /\ DOMAIN fs' = DOMAIN fs \cup {Temporary} /\ fs'[Temporary] = content
      /\ \A p \in DOMAIN fs : fs'[p] = fs[p]
  BY <1>7 DEF Put
<1>9. /\ Head(todo) \in Everyone /\ todo[1] = Head(todo) /\ 1 \in DOMAIN todo
      /\ MaxRuns \in Nat /\ runs \in 1 .. MaxRuns
  BY <1>2, <1>4, HeadOfTodo, RunsNat
<1>10. /\ IsFirstFree(fs, Head(todo), "write", WriteNumber) /\ WriteNumber < runs
       /\ Temporary = <<Head(todo), "write", WriteNumber>>
  <2>1. Fresh(todo[1], "write")
    BY <1>1, <1>2, <1>3, <1>9 DEF Room
  <2>2. QED
    BY <1>2, <1>4, <1>9, <2>1, Siblings, SiblingNames
<1>11. \A n : Present(n)' <=> Present(n)
  BY <1>8, <1>10 DEF Present, At
<1>12. /\ \A n : Fresh(n, "rename")' <=> Fresh(n, "rename")
       /\ \A n : Fresh(n, "backup")' <=> Fresh(n, "backup")
       /\ \A n : n # Head(todo) /\ Fresh(n, "write") => Fresh(n, "write")'
  BY <1>1, <1>8, <1>10 DEF Fresh
<1>13. /\ todo' \in Seq(Everyone)
       /\ \A i, j \in DOMAIN todo' : i # j => todo'[i] # todo'[j]
       /\ todo' # <<>> /\ ~dry
       /\ \A i \in DOMAIN todo : i > 1 => todo[i] # Head(todo)
  BY <1>1, <1>3, SameList
<1>14. Room'
  BY <1>1, <1>2, <1>3, <1>12, <1>13 DEF Room
<1>15. Written' = Temporary
  <2>1. \A i \in 0 .. MaxRuns : <<Head(todo), "write", i>> \in DOMAIN fs'
                                <=> <<Head(todo), "write", i>> \in DOMAIN fs \/ i = WriteNumber
    BY <1>8, <1>10
  <2>2. WriteNumber < MaxRuns /\ WriteNumber \in Nat
    BY <1>9, <1>10 DEF IsFirstFree
  <2>3. IsFirstFree(fs', Head(todo), "write", WriteNumber + 1)
    BY <1>2, <1>9, <1>10, <2>1, <2>2, NextFree
  <2>4. FirstFree(fs', Head(todo), "write") = WriteNumber + 1
    BY <1>9, <2>3, FirstFreeUnique
  <2>5. QED
    BY <1>1, <1>10, <2>2, <2>4, SiblingNamesNext
<1>16. Rewrites'
  <2>1. File' = File
    BY <1>1 DEF File
  <2>3. Written' \in DOMAIN fs' /\ WrittenFrom(fs[Written], fs[File])'
    <3>1. fs'[File'] = fs[File] /\ fs'[Written'] = content
      BY <1>5, <1>8, <1>15, <2>1
    <3>2. QED
      BY <1>1, <1>8, <1>15, <3>1, SameTable DEF WrittenFrom, Replaced, Cut
  <2>4. \A i \in DOMAIN todo : Present(todo[i])
    BY <1>2, <1>3 DEF Rewrites
  <2>5. \A i \in DOMAIN todo' : Present(todo[i])'
    BY <1>1, <1>8, <2>4 DEF Present
  <2>6. QED
    BY <1>1, <1>3, <1>13, <2>3, <2>5 DEF Rewrites
<1>17. \A n \in Everyone : n \in InUse' <=> n \in InUse
  BY <1>3, <1>11 DEF InUse
<1>18. count' \in [changed : Nat, renamed : Nat]
  BY <1>1, <1>2 DEF Control
<1>19. Shape'
  BY <1>1, <1>3, <1>7, <1>13, <1>14, <1>16, <1>17, <1>18, StillReading
<1>20. QED
  BY <1>1, <1>7, <1>19, KeptNext

\* The number of a writer's sibling that a step leaves alone.
LEMMA SameNumbers ==
    ASSUME Disk(fs), Control, todo # <<>>, UNCHANGED todo
    PROVE  /\ (\A i \in 0 .. MaxRuns : <<Head(todo), "write", i>> \in DOMAIN fs'
                                       <=> <<Head(todo), "write", i>> \in DOMAIN fs)
              => Written' = Written
           /\ (\A i \in 0 .. MaxRuns : <<Head(todo), "backup", i>> \in DOMAIN fs'
                                       <=> <<Head(todo), "backup", i>> \in DOMAIN fs)
              => SetAside' = SetAside
<1>1. /\ IsFirstFree(fs, Head(todo), "write", WriteNumber)
      /\ IsFirstFree(fs, Head(todo), "backup", BackupNumber)
      /\ MaxRuns \in Nat
  BY Siblings, RunsNat
<1>2. ASSUME \A i \in 0 .. MaxRuns : <<Head(todo), "write", i>> \in DOMAIN fs'
                                     <=> <<Head(todo), "write", i>> \in DOMAIN fs
      PROVE  Written' = Written
  <2>1. IsFirstFree(fs', Head(todo), "write", WriteNumber)
    BY <1>1, <1>2, SameFree
  <2>2. FirstFree(fs', Head(todo), "write") = WriteNumber
    BY <1>1, <2>1, FirstFreeUnique
  <2>3. QED
    BY <2>2, SiblingNames, SiblingNamesNext
<1>3. ASSUME \A i \in 0 .. MaxRuns : <<Head(todo), "backup", i>> \in DOMAIN fs'
                                     <=> <<Head(todo), "backup", i>> \in DOMAIN fs
      PROVE  SetAside' = SetAside
  <2>1. IsFirstFree(fs', Head(todo), "backup", BackupNumber)
    BY <1>1, <1>3, SameFree
  <2>2. FirstFree(fs', Head(todo), "backup") = BackupNumber
    BY <1>1, <2>1, FirstFreeUnique
  <2>3. QED
    BY <2>2, SiblingNames, SiblingNamesNext
<1>4. QED
  BY <1>2, <1>3

\* The file that is being rewritten becomes the newest backup, and stays it.
LEMMA PutAsideFiles ==
    ASSUME Shape, PutAside
    PROVE  /\ todo # <<>> /\ File \in DOMAIN fs /\ File # Backup /\ Backup[2] = "backup"
           /\ DOMAIN fs' = (DOMAIN fs \ {File}) \cup {Backup} /\ fs'[Backup] = fs[File]
           /\ \A p \in DOMAIN fs : p # File /\ p # Backup => fs'[p] = fs[p]
           /\ SetAside' = Backup
<1>1. pc = "aside" /\ UNCHANGED <<todo, runs>> /\ fs' = Moved(fs, File, Backup)
  BY DEF PutAside
<1>2. Control /\ Disk(fs) /\ Room /\ Rewrites
  BY DEF Shape
<1>3. Reading /\ Rewriting
  BY <1>1 DEF Reading, Rewriting
<1>4. todo # <<>>
  BY <1>2, <1>3 DEF Rewrites
<1>5. File \in DOMAIN fs /\ File[2] = "file"
  BY <1>1, <1>4, FileThere
<1>6. /\ Head(todo) \in Everyone /\ todo[1] = Head(todo) /\ 1 \in DOMAIN todo
      /\ MaxRuns \in Nat /\ runs \in 1 .. MaxRuns
  BY <1>2, <1>4, HeadOfTodo, RunsNat
<1>7. /\ IsFirstFree(fs, Head(todo), "backup", BackupNumber) /\ BackupNumber < runs
      /\ Backup = <<Head(todo), "backup", BackupNumber>>
  <2>1. Fresh(todo[1], "backup")
    BY <1>1, <1>2, <1>3, <1>6 DEF Room
  <2>2. QED
    BY <1>2, <1>4, <1>6, <2>1, Siblings, SiblingNames
<1>8. Backup # File /\ Backup[2] = "backup"
  BY <1>5, <1>7
<1>9. /\ DOMAIN fs' = (DOMAIN fs \ {File}) \cup {Backup} /\ fs'[Backup] = fs[File]
      /\ \A p \in DOMAIN fs : p # File /\ p # Backup => fs'[p] = fs[p]
  BY <1>1, <1>8 DEF Moved
<1>10. SetAside' = Backup
  <2>1. \A i : <<Head(todo), "backup", i>>[2] = "backup"
    OBVIOUS
  <2>2. \A i \in 0 .. MaxRuns : <<Head(todo), "backup", i>> \in DOMAIN fs'
                                <=> <<Head(todo), "backup", i>> \in DOMAIN fs \/ i = BackupNumber
    BY <1>5, <1>7, <1>9, <2>1
  <2>3. BackupNumber < MaxRuns /\ BackupNumber \in Nat
    BY <1>6, <1>7 DEF IsFirstFree
  <2>4. IsFirstFree(fs', Head(todo), "backup", BackupNumber + 1)
    BY <1>2, <1>6, <1>7, <2>2, <2>3, NextFree
  <2>5. FirstFree(fs', Head(todo), "backup") = BackupNumber + 1
    BY <1>6, <2>4, FirstFreeUnique
  <2>6. QED
    BY <1>1, <1>7, <2>3, <2>5, SiblingNamesNext
<1>11. QED
  BY <1>4, <1>5, <1>8, <1>9, <1>10

LEMMA InstallFiles ==
    ASSUME Shape, Install
    PROVE  /\ todo # <<>> /\ File = At(Head(todo)) /\ SetAside # Written /\ SetAside # File
           /\ Written[2] = "write" /\ SetAside \in DOMAIN fs
           /\ DOMAIN fs' = (DOMAIN fs \ {Written}) \cup {File}
           /\ \A p \in DOMAIN fs : p # Written => fs'[p] = fs[p]
           /\ SetAside' = SetAside
<1>1. Aside /\ UNCHANGED todo /\ fs' = Moved(fs, Written, File)
  BY DEF Install, Aside
<1>2. /\ todo # <<>> /\ File \notin DOMAIN fs /\ File[2] = "file"
      /\ Written \in DOMAIN fs /\ SetAside \in DOMAIN fs
      /\ Written[2] = "write" /\ SetAside[2] = "backup"
  BY <1>1, FileAside
<1>3. SetAside # File /\ SetAside # Written /\ File = At(Head(todo))
  BY <1>2 DEF File
<1>4. /\ DOMAIN fs' = (DOMAIN fs \ {Written}) \cup {File}
      /\ \A p \in DOMAIN fs : p # Written => fs'[p] = fs[p]
  BY <1>1, <1>2 DEF Moved
<1>5. SetAside' = SetAside
  <2>1. \A i : <<Head(todo), "backup", i>>[2] = "backup"
    OBVIOUS
  <2>2. \A i \in 0 .. MaxRuns : <<Head(todo), "backup", i>> \in DOMAIN fs'
                                <=> <<Head(todo), "backup", i>> \in DOMAIN fs
    BY <1>2, <1>4, <2>1
  <2>3. QED
    BY <1>1, <1>2, <2>2, SameNumbers DEF Shape
<1>6. QED
  BY <1>2, <1>3, <1>4, <1>5

LEMMA PutAsideStep ==
    ASSUME Shape, PutAside
    PROVE  Shape' /\ (Kept(fs) => Kept(fs)')
<1>1. /\ pc = "aside" /\ pc' = "install"
      /\ UNCHANGED <<original, short, rows, dry, todo, ops, k, count, runs>>
      /\ fs' = Moved(fs, File, Backup)
  BY DEF PutAside, given
<1>2. Control /\ Disk(fs) /\ Room /\ Rewrites
  BY DEF Shape
<1>3. Reading /\ Reading' /\ Rewriting /\ Rewriting' /\ ~Aside /\ Aside'
  BY <1>1 DEF Reading, Rewriting, Aside
<1>4. todo # <<>>
  BY <1>2, <1>3 DEF Rewrites
<1>5. /\ File \in DOMAIN fs /\ File[2] = "file" /\ File[3] = 0
      /\ fs[File].ref # Torn \/ fs[File].of \in short
  BY <1>1, <1>4, FileThere
<1>6. /\ Head(todo) \in Everyone /\ todo[1] = Head(todo) /\ 1 \in DOMAIN todo
      /\ MaxRuns \in Nat /\ runs \in 1 .. MaxRuns
  BY <1>2, <1>4, HeadOfTodo, RunsNat
<1>7. /\ IsFirstFree(fs, Head(todo), "backup", BackupNumber) /\ BackupNumber < runs
      /\ Backup = <<Head(todo), "backup", BackupNumber>>
      /\ Written = <<Head(todo), "write", WriteNumber - 1>>
  <2>1. Fresh(todo[1], "backup")
    BY <1>1, <1>2, <1>3, <1>6 DEF Room
  <2>2. QED
    BY <1>2, <1>4, <1>6, <2>1, Siblings, SiblingNames
<1>8. Backup \notin DOMAIN fs /\ Backup \in Paths /\ Backup # File
  BY <1>5, <1>6, <1>7 DEF IsFirstFree, Paths, Kinds, Everyone
<1>9. /\ DOMAIN fs' = (DOMAIN fs \ {File}) \cup {Backup} /\ fs'[Backup] = fs[File]
      /\ \A p \in DOMAIN fs : p # File => fs'[p] = fs[p]
  BY <1>1, <1>8 DEF Moved
<1>10. Disk(fs') /\ (Kept(fs) => Kept(fs'))
  <2>1. Succeeds(fs, Backup)
    <3>1. \A i \in 0 .. MaxRuns : i < BackupNumber => i \in 0 .. BackupNumber - 1
      BY <1>7 DEF IsFirstFree
    <3>2. QED
      BY <3>1, <1>7 DEF Succeeds, IsFirstFree
  <2>2. Latest(fs, File)
    BY <1>5 DEF Latest
  <2>3. Backup[2] = "backup" /\ Backup[2] \in Sides /\ Backup[3] < runs
    BY <1>7 DEF Sides
  <2>4. Disk(Moved(fs, File, Backup))
    BY <1>2, <1>5, <1>8, <2>1, <2>2, <2>3, DiskMoved
  <2>5. QED
    BY <1>1, <1>5, <1>8, <2>4, KeptMoved
<1>11. File = At(Head(todo))
  BY DEF File
<1>12. \A n : n # Head(todo) => (At(n) \in DOMAIN fs' <=> At(n) \in DOMAIN fs)
  BY <1>7, <1>9, <1>11 DEF At
<1>13. /\ todo' \in Seq(Everyone)
       /\ \A i, j \in DOMAIN todo' : i # j => todo'[i] # todo'[j]
       /\ todo' # <<>> /\ ~dry
       /\ \A i \in DOMAIN todo : i > 1 => todo[i] # Head(todo)
  BY <1>1, <1>3, SameList
<1>14. Room'
  <2>1. /\ \A n : Fresh(n, "rename")' <=> Fresh(n, "rename")
        /\ \A n : Fresh(n, "write")' <=> Fresh(n, "write")
        /\ \A n : n # Head(todo) /\ Fresh(n, "backup") => Fresh(n, "backup")'
    BY <1>1, <1>5, <1>7, <1>9 DEF Fresh
  <2>2. QED
    BY <1>1, <1>2, <1>3, <1>13, <2>1 DEF Room
<1>15. Written' = Written
  <2>1. \A i : <<Head(todo), "write", i>>[2] = "write"
    OBVIOUS
  <2>2. \A i \in 0 .. MaxRuns : <<Head(todo), "write", i>> \in DOMAIN fs'
                                <=> <<Head(todo), "write", i>> \in DOMAIN fs
    BY <1>5, <1>7, <1>9, <2>1
  <2>3. QED
    BY <1>1, <1>2, <1>4, <2>2, SameNumbers
<1>16. SetAside' = Backup
  BY PutAsideFiles
<1>17. Rewrites'
  <2>1. Written \in DOMAIN fs /\ WrittenFrom(fs[Written], fs[File])
    BY <1>1, <1>2 DEF Rewrites
  <2>2. Written # File
    BY <1>5, <1>7
  <2>3. /\ Written' \in DOMAIN fs' /\ SetAside' \in DOMAIN fs'
        /\ fs'[Written'] = fs[Written] /\ fs'[SetAside'] = fs[File]
    BY <1>9, <1>15, <1>16, <2>1, <2>2
  <2>4. WrittenFrom(fs[Written], fs[SetAside])'
    BY <1>1, <2>1, <2>3, SameTable DEF WrittenFrom, Replaced, Cut
  <2>5. ~Present(Head(todo))'
    BY <1>1, <1>8, <1>9, <1>11 DEF Present
  <2>6. \A i \in DOMAIN todo' : i > 1 => Present(todo[i])'
    BY <1>1, <1>2, <1>3, <1>12, <1>13 DEF Rewrites, Present
  <2>7. QED
    BY <1>1, <1>3, <1>13, <2>3, <2>4, <2>5, <2>6 DEF Rewrites
<1>18. \A n \in Everyone : n \in InUse' <=> n \in InUse
  <2>1. At(Head(todo)) \in DOMAIN fs
    BY <1>5, <1>11
  <2>2. QED
    BY <1>1, <1>3, <1>12, <2>1 DEF InUse, Present
<1>19. count' \in [changed : Nat, renamed : Nat]
  BY <1>1, <1>2 DEF Control
<1>20. Shape'
  BY <1>1, <1>3, <1>10, <1>13, <1>14, <1>17, <1>18, <1>19, StillReading
<1>21. QED
  BY <1>1, <1>10, <1>20, KeptNext

LEMMA InstallStep ==
    ASSUME Shape, Install
    PROVE  Shape' /\ (Kept(fs) => Kept(fs)')
<1>1. /\ pc = "install" /\ pc' = "cleanup"
      /\ UNCHANGED <<original, short, rows, dry, todo, ops, k, count, runs>>
      /\ fs' = Moved(fs, Written, File)
  BY DEF Install, given
<1>2. Control /\ Disk(fs) /\ Room /\ Rewrites
  BY DEF Shape
<1>3. Reading /\ Reading' /\ Rewriting /\ Rewriting' /\ Aside /\ ~Aside'
  BY <1>1 DEF Reading, Rewriting, Aside
<1>4. /\ todo # <<>> /\ File \notin DOMAIN fs /\ File \in Paths
      /\ File[2] = "file" /\ File[3] = 0
      /\ Written \in DOMAIN fs /\ SetAside \in DOMAIN fs
      /\ Written[2] = "write" /\ SetAside[2] = "backup"
      /\ fs[SetAside] \in [of : DOMAIN original, ref : Uuids \cup {Torn}]
      /\ fs[SetAside].ref # Torn \/ fs[SetAside].of \in short
      /\ WrittenFrom(fs[Written], fs[SetAside])
  BY <1>3, FileAside
<1>5. fs[Written].ref # Torn \/ fs[Written].of \in short
  <2>1. rows \in Csvs /\ ~TableRefused(rows)
    BY <1>2, <1>3 DEF Control
  <2>2. QED
    BY <1>4, <2>1, WrittenIs
<1>6. Written # File /\ SetAside # File /\ SetAside # Written /\ File = At(Head(todo))
  BY <1>4 DEF File
<1>7. /\ DOMAIN fs' = (DOMAIN fs \ {Written}) \cup {File} /\ fs'[File] = fs[Written]
      /\ \A p \in DOMAIN fs : p # Written => fs'[p] = fs[p]
  BY <1>1, <1>4 DEF Moved
<1>8. Disk(fs') /\ (Kept(fs) => Kept(fs'))
  <2>1. Succeeds(fs, File)
    BY <1>4 DEF Succeeds
  <2>2. Latest(fs, Written)
    BY <1>2, <1>4, NewestLast
  <2>3. Disk(Moved(fs, Written, File))
    BY <1>2, <1>4, <1>5, <1>6, <2>1, <2>2, DiskMoved
  <2>4. QED
    BY <1>1, <1>4, <2>3, KeptMoved
<1>9. \A n : n # Head(todo) => (At(n) \in DOMAIN fs' <=> At(n) \in DOMAIN fs)
  <2>1. \A n : At(n)[2] # Written[2]
    BY <1>4, AtFacts
  <2>2. \A n : n # Head(todo) => At(n) # File
    BY <1>6, AtFacts
  <2>3. QED
    BY <1>7, <2>1, <2>2
<1>10. /\ todo' \in Seq(Everyone)
       /\ \A i, j \in DOMAIN todo' : i # j => todo'[i] # todo'[j]
       /\ todo' # <<>> /\ ~dry
       /\ \A i \in DOMAIN todo : i > 1 => todo[i] # Head(todo)
       /\ \A i \in DOMAIN todo : i = 1 \/ i > 1
       /\ todo[1] = Head(todo) /\ Head(todo) \in Everyone
  BY <1>1, <1>2, <1>3, <1>4, SameList, HeadOfTodo
<1>11. Room'
  <2>1. /\ \A n : Fresh(n, "rename")' <=> Fresh(n, "rename")
        /\ \A n : Fresh(n, "backup")' <=> Fresh(n, "backup")
        /\ \A n : Fresh(n, "write") => Fresh(n, "write")'
    <3>1. \A n, kind : <<n, kind, runs - 1>>[2] = kind
      OBVIOUS
    <3>2. QED
      BY <1>1, <1>4, <1>7, <3>1 DEF Fresh
  <2>2. QED
    BY <1>1, <1>2, <1>3, <1>10, <2>1 DEF Room
<1>12. SetAside' = SetAside
  BY InstallFiles
<1>13. Rewrites'
  <2>1. SetAside' \in DOMAIN fs' /\ fs'[SetAside'] = fs[SetAside] /\ File' = File
    BY <1>1, <1>4, <1>6, <1>7, <1>12 DEF File
  <2>2. WrittenFrom(fs[File], fs[SetAside])'
    BY <1>1, <1>4, <1>7, <2>1, SameTable DEF WrittenFrom, Replaced, Cut
  <2>3. \A i \in DOMAIN todo' : Present(todo[i])'
    BY <1>1, <1>2, <1>3, <1>6, <1>7, <1>9, <1>10 DEF Rewrites, Present
  <2>4. QED
    BY <1>1, <1>3, <1>10, <2>1, <2>2, <2>3 DEF Rewrites
<1>14. \A n \in Everyone : n \in InUse' <=> n \in InUse
  <2>1. At(Head(todo)) \in DOMAIN fs'
    BY <1>6, <1>7
  <2>2. QED
    BY <1>1, <1>3, <1>9, <2>1 DEF InUse, Present
<1>15. count' \in [changed : Nat, renamed : Nat]
  BY <1>1, <1>2 DEF Control
<1>16. Shape'
  BY <1>1, <1>3, <1>8, <1>10, <1>11, <1>13, <1>14, <1>15, StillReading
<1>17. QED
  BY <1>1, <1>8, <1>16, KeptNext

LEMMA CannotInstallStep ==
    ASSUME Shape, CannotInstall
    PROVE  Shape' /\ (Kept(fs) => Kept(fs)')
<1>1. /\ pc = "install" /\ pc' = "restore"
      /\ UNCHANGED <<fs, original, short, rows, dry, todo, ops, k, count, runs>>
  BY DEF CannotInstall, given
<1>2. Control /\ Disk(fs) /\ Room /\ Rewrites
  BY DEF Shape
<1>3. Reading /\ Reading' /\ Rewriting /\ Rewriting' /\ Aside /\ Aside'
  BY <1>1 DEF Reading, Rewriting, Aside
<1>4. Room'
  <2>1. \A n, kind : Fresh(n, kind)' <=> Fresh(n, kind)
    BY <1>1 DEF Fresh
  <2>2. QED
    BY <1>1, <1>2, <1>3, <2>1 DEF Room
<1>5. /\ todo # <<>> /\ Written \in DOMAIN fs /\ SetAside \in DOMAIN fs
      /\ WrittenFrom(fs[Written], fs[SetAside])
  BY <1>3, FileAside
<1>6. Written' = Written /\ SetAside' = SetAside
  BY <1>1, <1>2, <1>5, SameNumbers
<1>7. Rewrites'
  <2>1. WrittenFrom(fs[Written], fs[SetAside])'
    BY <1>1, <1>5, <1>6, SameTable DEF WrittenFrom, Replaced, Cut
  <2>2. ~Present(Head(todo))' /\ \A i \in DOMAIN todo' : i > 1 => Present(todo[i])'
    BY <1>1, <1>2, <1>3 DEF Rewrites, Present
  <2>3. QED
    BY <1>1, <1>2, <1>3, <1>5, <1>6, <2>1, <2>2 DEF Rewrites
<1>8. \A n \in Everyone : n \in InUse' <=> n \in InUse
  BY <1>1, <1>3 DEF InUse, Present
<1>9. count' \in [changed : Nat, renamed : Nat] /\ todo' \in Seq(Everyone) /\ Disk(fs')
  BY <1>1, <1>2 DEF Control
<1>10. Shape'
  BY <1>1, <1>3, <1>4, <1>7, <1>8, <1>9, StillReading
<1>11. QED
  BY <1>1, <1>10 DEF Kept

LEMMA RemoveBackupStep ==
    ASSUME Shape, RemoveBackup
    PROVE  Shape' /\ (Kept(fs) => Kept(fs)')
<1>1. CASE pc' = "done" /\ UNCHANGED <<fs, todo>>
  <2>1. UNCHANGED <<fs, given, todo, ops, k, count, runs>>
    BY <1>1 DEF RemoveBackup
  <2>2. count' \in [changed : Nat, renamed : Nat]
    BY <2>1 DEF Shape, Control
  <2>3. QED
    BY <1>1, <2>1, <2>2, EndedHere
<1>2. CASE fs' = Without(fs, SetAside) /\ todo' = Tail(todo) /\ pc' = "visit"
  <2>1. pc = "cleanup" /\ UNCHANGED <<original, short, rows, dry, ops, k, count, runs>>
    BY DEF RemoveBackup, given
  <2>2. Control /\ Disk(fs) /\ Room /\ Rewrites
    BY DEF Shape
  <2>3. Reading /\ Reading' /\ Rewriting /\ ~Rewriting' /\ ~Aside /\ ~Aside'
    BY <1>2, <2>1 DEF Reading, Rewriting, Aside
  <2>4. todo # <<>> /\ SetAside \in DOMAIN fs /\ WrittenFrom(fs[File], fs[SetAside])
    BY <2>1, <2>2, <2>3 DEF Rewrites
  <2>5. /\ SetAside[2] = "backup"
        /\ DOMAIN fs' = DOMAIN fs \ {SetAside} /\ \A p \in DOMAIN fs' : fs'[p] = fs[p]
    BY <1>2, SiblingNames, WithoutFile
  <2>6. Disk(fs') /\ (Kept(fs) => Kept(fs'))
    <3>1. Disk(fs')
      BY <1>2, <2>2, <2>4, NewestLast, DiskWithout
    <3>2. File \in DOMAIN fs /\ File[2] = "file"
      <4>1. todo[1] = Head(todo) /\ 1 \in DOMAIN todo
        BY <2>2, <2>4, HeadOfTodo
      <4>2. Present(todo[1])
        BY <2>2, <2>3, <4>1 DEF Rewrites
      <4>3. QED
        BY <4>1, <4>2 DEF File, Present, At
    <3>3. /\ fs[File].of = fs[SetAside].of /\ File # SetAside
          /\ fs[File].ref # Torn \/ fs[SetAside].of \in short
      <4>1. fs[SetAside] \in [of : DOMAIN original, ref : Uuids \cup {Torn}]
        BY <2>2, <2>4 DEF Disk
      <4>2. fs[File].of = fs[SetAside].of
        BY <2>4, <4>1 DEF WrittenFrom, Replaced, Cut
      <4>3. fs[File].ref # Torn \/ fs[File].of \in short
        BY <2>2, <3>2 DEF Disk
      <4>4. QED
        BY <2>5, <3>2, <4>2, <4>3
    <3>4. QED
      BY <1>2, <3>1, <3>2, <3>3, KeptWithout
  <2>7. /\ todo' \in Seq(Everyone)
        /\ \A i \in DOMAIN todo' : i \in DOMAIN todo /\ i + 1 \in DOMAIN todo /\ i + 1 > 1
                                   /\ todo'[i] = todo[i + 1]
        /\ \A i, j \in DOMAIN todo' : i # j => todo'[i] # todo'[j]
    <3>1. todo \in Seq(Everyone) /\ \A i, j \in DOMAIN todo : i # j => todo[i] # todo[j]
      BY <2>2, <2>3 DEF Control, Rewrites
    <3>2. /\ todo' \in Seq(Everyone) /\ Len(todo') = Len(todo) - 1 /\ Len(todo) \in Nat
          /\ \A i \in 1 .. Len(todo) - 1 : todo'[i] = todo[i + 1] /\ i + 1 \in DOMAIN todo
      BY <1>2, <2>4, <3>1
    <3>3. DOMAIN todo' = 1 .. Len(todo) - 1
      BY <3>2
    <3>4. \A i \in DOMAIN todo' : i \in DOMAIN todo /\ i + 1 \in DOMAIN todo /\ i + 1 > 1
                                  /\ todo'[i] = todo[i + 1]
      BY <3>1, <3>2, <3>3
    <3>5. \A i, j \in DOMAIN todo' : i # j => i + 1 # j + 1
      BY <3>3
    <3>6. \A i, j \in DOMAIN todo' : i # j => todo'[i] # todo'[j]
      BY <3>1, <3>4, <3>5
    <3>7. QED
      BY <3>2, <3>4, <3>6
  <2>8. \A n : At(n) \in DOMAIN fs' <=> At(n) \in DOMAIN fs
    BY <2>5, AtFacts
  <2>9. Room'
    <3>1. \A n, kind : Fresh(n, kind) => Fresh(n, kind)'
      BY <2>1, <2>5 DEF Fresh
    <3>2. \A i \in DOMAIN todo : i > 1 => Fresh(todo[i], "write") /\ Fresh(todo[i], "backup")
      BY <2>2, <2>3 DEF Room
    <3>3. \A i \in DOMAIN todo' : Fresh(todo[i], "write")' /\ Fresh(todo[i], "backup")'
      BY <2>1, <2>5, <2>7, <3>2 DEF Fresh
    <3>4. \A n \in Everyone : Fresh(n, "rename")'
      BY <2>2, <2>3, <3>1 DEF Room
    <3>5. QED
      BY <1>2, <3>3, <3>4 DEF Room
  <2>10. Rewrites'
    <3>1. \A i \in DOMAIN todo' : Present(todo[i])'
      BY <2>2, <2>3, <2>7, <2>8 DEF Rewrites, Present
    <3>2. QED
      BY <1>2, <2>3, <2>7, <3>1 DEF Rewrites
  <2>11. \A n \in Everyone : n \in InUse' <=> n \in InUse
    BY <2>3, <2>8 DEF InUse, Present
  <2>12. count' \in [changed : Nat, renamed : Nat]
    BY <2>1, <2>2 DEF Control
  <2>13. Shape'
    BY <2>1, <2>3, <2>6, <2>7, <2>9, <2>10, <2>11, <2>12, StillReading
  <2>14. QED
    BY <2>1, <2>6, <2>13, KeptNext
<1>3. QED
  BY <1>1, <1>2 DEF RemoveBackup, Fail

-----------------------------------------------------------------------------
(* Renaming.                                                               *)

LEMMA Operation ==
    ASSUME Control, NEW i \in DOMAIN ops
    PROVE  /\ ops[i] \in Operations
           /\ ops[i].from \in Paths /\ ops[i].from[1] \in Names /\ ops[i].from = At(ops[i].from[1])
           /\ ops[i].from[2] = "file" /\ ops[i].from[3] = 0
           /\ ops[i].to \in Paths /\ ops[i].to[2] = "file" /\ ops[i].to[3] = 0
           /\ ops[i].to[1] \in Names /\ ops[i].to = At(ops[i].to[1])
           /\ AtTemporary(i) => ops[i].tmp[1] = ops[i].from[1] /\ ops[i].tmp[2] = "rename"
<1>1. ops[i] \in Operations /\ MaxRuns \in Nat
  BY RunsNat DEF Control
<1>2. PICK m \in Names, n \in Names : ops[i].from = At(m) /\ ops[i].to = At(n)
  BY <1>1 DEF Operations
<1>3. At(m) \in Paths /\ At(n) \in Paths
  BY <1>1 DEF Paths, Kinds, At
<1>4. AtTemporary(i) => ops[i].tmp[1] = ops[i].from[1] /\ ops[i].tmp[2] = "rename"
  BY DEF AtTemporary
<1>5. /\ At(m)[1] = m /\ At(m)[2] = "file" /\ At(m)[3] = 0
      /\ At(n)[1] = n /\ At(n)[2] = "file" /\ At(n)[3] = 0
  BY AtFacts
<1>6. QED
  BY <1>1, <1>2, <1>3, <1>4, <1>5

LEMMA OpsList ==
    ASSUME Control
    PROVE  DOMAIN ops = 1 .. Len(ops) /\ Len(ops) \in Nat /\ k \in 0 .. Len(ops) + 1 /\ k \in Nat
BY DEF Control

\* Steps after which Run is among the renames.
LEMMA StillRenaming ==
    ASSUME Shape, Reading \/ Renaming, Renaming', ~dry, UNCHANGED <<original, short, rows, dry, todo, runs>>,
           count' \in [changed : Nat, renamed : Nat],
           ops' \in Seq(Operations), Len(ops') = Len(ops),
           \A i \in DOMAIN ops : ops'[i].from = ops[i].from /\ ops'[i].to = ops[i].to,
           k' \in 0 .. Len(ops) + 1, Disk(fs'),
           pc' = "stage" => \A i \in DOMAIN ops' : i >= k' => Fresh(ops[i].from[1], "rename")',
           Staging', Naming', Unstaging', Unnaming', Restoring'
    PROVE  Shape'
<1>1. Disk(fs)'
  BY DiskNext
<1>2. ~Reading' /\ ~Rewriting' /\ ~Aside' /\ pc' \notin {"start", "aside", "cleanup"}
  BY DEF Reading, Rewriting, Aside, Renaming
<1>3. Control /\ Plan /\ ~TableRefused(rows)
  BY DEF Shape, Control
<1>4. (Chained' <=> Chained) /\ (TableRefused(rows)' <=> TableRefused(rows))
  BY SameTable
<1>5. DOMAIN ops' = DOMAIN ops
  BY <1>3 DEF Control
<1>6. Control'
  <2>1. ops' \in Seq(Operations)'
    BY DEF Operations
  <2>2. QED
    BY <1>2, <1>3, <1>4, <2>1 DEF Control
<1>7. Plan'
  BY <1>3, <1>4, <1>5 DEF Plan
<1>8. Room'
  BY <1>2 DEF Room
<1>9. Rewrites'
  BY <1>2 DEF Rewrites
<1>10. Renames'
  BY <1>2 DEF Renames, Planning
<1>11. QED
  BY <1>1, <1>6, <1>7, <1>8, <1>9, <1>10 DEF Shape

LEMMA BeginRenamesStep ==
    ASSUME Shape, BeginRenames
    PROVE  Shape' /\ (Kept(fs) => Kept(fs)')
<1>1. /\ pc = "visit" /\ todo = <<>> /\ UNCHANGED <<fs, original, short, rows, dry, todo, ops, k, runs>>
      /\ count' = [count EXCEPT !.renamed = Len(ops)]
      /\ IF dry THEN pc' = "done" ELSE pc' = "stage"
  BY DEF BeginRenames, given
<1>2. Control /\ Disk(fs) /\ Room /\ Planning
  BY DEF Shape, Renames
<1>3. count' \in [changed : Nat, renamed : Nat]
  BY <1>1, <1>2, OpsList DEF Control
<1>4. CASE pc' = "done"
  BY <1>1, <1>3, <1>4, EndedHere DEF given
<1>5. CASE pc' = "stage"
  <2>1. Reading /\ ~Aside /\ Renaming' /\ ~dry
    BY <1>1, <1>5 DEF Reading, Aside, Renaming
  <2>2. DOMAIN ops = 1 .. Len(ops) /\ Len(ops) \in Nat /\ k = 1
    BY <1>2, <2>1, OpsList DEF Planning
  <2>3. \A i \in DOMAIN ops : ops[i].from[1] \in Everyone /\ Fresh(ops[i].from[1], "rename")
    BY <1>2, <2>1, Operation DEF Room, Everyone
  <2>4. \A i \in DOMAIN ops' : i >= k' => Fresh(ops[i].from[1], "rename")'
    BY <1>1, <2>3 DEF Fresh
  <2>5. ASSUME NEW i \in DOMAIN ops
        PROVE  /\ ops[i].tmp = ops[i].from /\ ops[i].from \in DOMAIN fs
               /\ ops[i].to \in DOMAIN fs => \E j \in DOMAIN ops : ops[i].to = ops[j].from
    <3>1. /\ ops[i].from = At(ops[i].from[1]) /\ ops[i].to = At(ops[i].to[1])
          /\ ops[i].to[1] \in Everyone
      BY <1>2, Operation DEF Everyone
    <3>2. QED
      BY <1>2, <2>1, <3>1 DEF Planning, InUse, Present
  <2>6. Staging'
    <3>1. ASSUME NEW i \in DOMAIN ops' PROVE ~(i < k')
      BY <1>1, <2>2
    <3>2. QED
      BY <1>1, <2>2, <2>5, <3>1 DEF Staging
  <2>7. Naming' /\ Unstaging' /\ Unnaming' /\ Restoring'
    BY <1>5 DEF Naming, Unstaging, Unnaming, Restoring
  <2>8. ops' \in Seq(Operations) /\ k' \in 0 .. Len(ops) + 1
    BY <1>1, <1>2 DEF Control
  <2>9. Shape'
    BY <1>1, <1>2, <1>3, <2>1, <2>4, <2>6, <2>7, <2>8, StillRenaming
  <2>10. QED
    BY <1>1, <2>9 DEF Kept
<1>6. QED
  BY <1>1, <1>4, <1>5

LEMMA StageStep ==
    ASSUME Shape, Stage
    PROVE  Shape' /\ (Kept(fs) => Kept(fs)')
<1> DEFINE from == ops[k].from
           temporary == Sibling(from[1], "rename")
           m == FirstFree(fs, from[1], "rename")
<1>1. /\ pc = "stage" /\ pc' = "stage" /\ k <= Len(ops) /\ k' = k + 1
      /\ UNCHANGED <<original, short, rows, dry, todo, count, runs>>
      /\ fs' = Moved(fs, from, temporary)
      /\ ops' = [ops EXCEPT ![k].tmp = temporary]
  BY DEF Stage, given
<1>2. Control /\ Disk(fs) /\ Room /\ Staging /\ Plan
  BY DEF Shape, Renames
<1>3. /\ k >= 1
      /\ \A i \in DOMAIN ops :
             /\ i < k => AtTemporary(i) /\ Waiting(i) /\ ops[i].from \notin DOMAIN fs
             /\ i >= k => ops[i].tmp = ops[i].from /\ ops[i].from \in DOMAIN fs
             /\ ops[i].to \in DOMAIN fs => \E j \in DOMAIN ops : ops[i].to = ops[j].from
  BY <1>1, <1>2 DEF Staging
<1>4. /\ DOMAIN ops = 1 .. Len(ops) /\ Len(ops) \in Nat /\ k \in DOMAIN ops /\ k \in Nat
      /\ MaxRuns \in Nat /\ runs \in 1 .. MaxRuns
  BY <1>1, <1>2, <1>3, OpsList, RunsNat
<1>5. /\ from \in Paths /\ from[1] \in Names /\ from = At(from[1])
      /\ from[2] = "file" /\ from[3] = 0 /\ from \in DOMAIN fs
  BY <1>2, <1>3, <1>4, Operation
<1>6. /\ temporary = <<from[1], "rename", m>>
      /\ IsFirstFree(fs, from[1], "rename", m) /\ m <= runs - 1
  <2>1. temporary = <<from[1], "rename", m>>
    BY DEF Sibling, FirstFree
  <2>2. <<from[1], "rename", runs - 1>> \notin DOMAIN fs
    <3>1. Fresh(ops[k].from[1], "rename")
      BY <1>1, <1>2, <1>4 DEF Room
    <3>2. QED
      BY <3>1 DEF Fresh
  <2>3. from[1] \in Everyone /\ "rename" \in Sides
    BY <1>5 DEF Everyone, Sides
  <2> HIDE DEF temporary, from
  <2>4. IsFirstFree(fs, from[1], "rename", m) /\ m <= runs - 1
    BY <1>2, <1>4, <2>2, <2>3, FirstFreeIs
  <2>5. QED
    BY <2>1, <2>4
<1> HIDE DEF from, temporary, m
<1>7. /\ temporary[1] = from[1] /\ temporary[2] = "rename" /\ temporary[3] = m /\ m < runs
      /\ temporary \notin DOMAIN fs /\ temporary \in Paths /\ temporary # from
      /\ temporary \in Names \X {"rename"} \X (0 .. MaxRuns) /\ m \in 0 .. MaxRuns
  BY <1>4, <1>5, <1>6 DEF IsFirstFree, Paths, Kinds
<1>8. DOMAIN fs' = (DOMAIN fs \ {from}) \cup {temporary}
  BY <1>1 DEF Moved
<1>9. Disk(fs') /\ (Kept(fs) => Kept(fs'))
  <2>1. Latest(fs, from) /\ Succeeds(fs, temporary)
    BY <1>5, <1>7 DEF Latest, Succeeds
  <2>2. fs[from].ref # Torn \/ fs[from].of \in short
    BY <1>2, <1>5 DEF Disk
  <2>3. temporary[2] \in Sides /\ temporary[3] < runs
    BY <1>7 DEF Sides
  <2>4. Disk(Moved(fs, from, temporary))
    BY <1>2, <1>5, <1>7, <2>1, <2>2, <2>3, DiskMoved
  <2>5. QED
    BY <1>1, <1>5, <1>7, <2>4, KeptMoved
<1>10. /\ ops' \in Seq(Operations) /\ Len(ops') = Len(ops) /\ DOMAIN ops' = DOMAIN ops
       /\ \A i \in DOMAIN ops : /\ ops'[i].from = ops[i].from /\ ops'[i].to = ops[i].to
                                /\ ops'[i].tmp = IF i = k THEN temporary ELSE ops[i].tmp
  <2>1. ops \in Seq(Operations)
    BY <1>2 DEF Control
  <2>2. ops[k] \in Operations
    BY <1>4, <2>1
  <2>3. [ops[k] EXCEPT !.tmp = temporary] \in Operations
    BY <1>7, <2>2 DEF Operations
  <2>4. \A i \in DOMAIN ops : ops[i] \in Operations
    BY <2>1
  <2>5. ASSUME NEW i \in DOMAIN ops
        PROVE  /\ ops'[i] \in Operations
               /\ ops'[i].from = ops[i].from /\ ops'[i].to = ops[i].to
               /\ ops'[i].tmp = IF i = k THEN temporary ELSE ops[i].tmp
    <3>1. CASE i = k
      BY <1>1, <2>2, <2>3, <3>1 DEF Operations
    <3>2. CASE i # k
      BY <1>1, <2>4, <3>2
    <3>3. QED
      BY <3>1, <3>2
  <2>6. ops' \in [1 .. Len(ops) -> Operations] /\ DOMAIN ops' = 1 .. Len(ops)
    BY <1>1, <1>4, <2>5
  <2>7. QED
    BY <1>4, <2>5, <2>6
<1>11. \A i \in DOMAIN ops : i # k => ops[i].from # from /\ ops[i].from[1] # from[1]
  <2>1. Renaming
    BY <1>1 DEF Renaming
  <2>2. \A i \in DOMAIN ops : i # k => ops[i].from # from
    BY <1>2, <1>4, <2>1 DEF Plan, from
  <2>3. \A i \in DOMAIN ops : ops[i].from = At(ops[i].from[1])
    BY <1>2, Operation
  <2>4. QED
    BY <1>5, <2>2, <2>3
<1>12. \A i \in DOMAIN ops :
           /\ ops[i].from[2] = "file" /\ ops[i].to[2] = "file"
           /\ i < k => ops[i].tmp[2] = "rename"
  BY <1>2, <1>3, Operation
<1>13. \A i \in DOMAIN ops' : i >= k' => Fresh(ops[i].from[1], "rename")'
  <2>1. ASSUME NEW i \in DOMAIN ops', i >= k' PROVE <<ops'[i].from[1], "rename", runs' - 1>> \notin DOMAIN fs'
    <3>1. i \in DOMAIN ops /\ i >= k /\ i # k
      BY <1>1, <1>4, <1>10, <2>1
    <3>2. <<ops[i].from[1], "rename", runs - 1>> \notin DOMAIN fs
      BY <1>1, <1>2, <3>1 DEF Room, Fresh
    <3>3. <<ops[i].from[1], "rename", runs - 1>> # temporary
      BY <1>7, <1>11, <3>1
    <3>4. QED
      BY <1>1, <1>8, <1>10, <3>1, <3>2, <3>3
  <2>2. QED
    BY <2>1 DEF Fresh
<1>14. Staging'
  <2>1. ASSUME NEW i \in DOMAIN ops'
        PROVE  /\ i < k' => AtTemporary(i)' /\ Waiting(i)' /\ ops'[i].from \notin DOMAIN fs'
               /\ i >= k' => ops'[i].tmp = ops'[i].from /\ ops'[i].from \in DOMAIN fs'
               /\ ops'[i].to \in DOMAIN fs' => \E j \in DOMAIN ops' : ops'[i].to = ops'[j].from
    <3>0. i \in DOMAIN ops /\ i \in Nat
      BY <1>4, <1>10
    <3>1. CASE i < k
      <4>1. AtTemporary(i) /\ Waiting(i) /\ ops[i].from \notin DOMAIN fs /\ i # k
        BY <1>3, <1>4, <3>0, <3>1
      <4>2. AtTemporary(i)'
        BY <1>10, <3>0, <4>1 DEF AtTemporary
      <4>3. Waiting(i)'
        BY <1>5, <1>8, <1>10, <1>12, <3>0, <3>1, <4>1 DEF Waiting
      <4>4. ops'[i].from \notin DOMAIN fs'
        BY <1>7, <1>8, <1>10, <1>12, <3>0, <4>1
      <4>5. ~(i >= k')
        BY <1>1, <1>4, <3>0, <3>1
      <4>6. ops'[i].to \in DOMAIN fs' => ops[i].to \in DOMAIN fs
        BY <1>7, <1>8, <1>10, <1>12, <3>0
      <4>7. QED
        BY <1>3, <1>10, <3>0, <4>2, <4>3, <4>4, <4>5, <4>6
    <3>2. CASE i = k
      <4>1. AtTemporary(i)'
        BY <1>6, <1>7, <1>10, <3>0, <3>2 DEF AtTemporary, from
      <4>2. Waiting(i)'
        BY <1>8, <1>10, <3>0, <3>2 DEF Waiting
      <4>3. ops'[i].from \notin DOMAIN fs'
        BY <1>7, <1>8, <1>10, <3>0, <3>2 DEF from
      <4>4. ~(i >= k')
        BY <1>1, <1>4, <3>0, <3>2
      <4>5. ops'[i].to \in DOMAIN fs' => ops[i].to \in DOMAIN fs
        BY <1>7, <1>8, <1>10, <1>12, <3>0
      <4>6. QED
        BY <1>3, <1>10, <3>0, <4>1, <4>2, <4>3, <4>4, <4>5
    <3>3. CASE i > k
      <4>1. ops[i].tmp = ops[i].from /\ ops[i].from \in DOMAIN fs /\ i # k
        BY <1>3, <1>4, <3>0, <3>3
      <4>2. ops'[i].tmp = ops'[i].from /\ ops'[i].from \in DOMAIN fs'
        BY <1>8, <1>10, <1>11, <3>0, <4>1
      <4>3. ~(i < k')
        BY <1>1, <1>4, <3>0, <3>3
      <4>4. ops'[i].to \in DOMAIN fs' => ops[i].to \in DOMAIN fs
        BY <1>7, <1>8, <1>10, <1>12, <3>0
      <4>5. QED
        BY <1>3, <1>10, <3>0, <4>2, <4>3, <4>4
    <3>4. QED
      BY <1>4, <3>0, <3>1, <3>2, <3>3
  <2>2. k' >= 1
    BY <1>1, <1>4
  <2>3. QED
    BY <2>1, <2>2 DEF Staging
<1>15. Naming' /\ Unstaging' /\ Unnaming' /\ Restoring'
  BY <1>1 DEF Naming, Unstaging, Unnaming, Restoring
<1>16. Renaming /\ Renaming' /\ ~dry /\ count' \in [changed : Nat, renamed : Nat]
       /\ k' \in 0 .. Len(ops) + 1
  BY <1>1, <1>2, <1>4 DEF Renaming, Shape, Control
<1>17. Shape'
  BY <1>1, <1>9, <1>10, <1>13, <1>14, <1>15, <1>16, StillRenaming
<1>18. QED
  BY <1>1, <1>9, <1>17, KeptNext

\* Steps of the renames that leave the files and the operations alone.
LEMMA OnlyPlace ==
    ASSUME Shape, Renaming, Renaming', UNCHANGED <<fs, original, short, rows, dry, todo, ops, count, runs>>,
           k' \in 0 .. Len(ops) + 1, pc' # "stage", Naming', Unstaging', Unnaming', Restoring'
    PROVE  Shape' /\ (Kept(fs) => Kept(fs)')
<1>1. Disk(fs') /\ ~dry /\ count' \in [changed : Nat, renamed : Nat] /\ ops' \in Seq(Operations)
  BY DEF Shape, Control
<1>2. Staging'
  BY DEF Staging
<1>3. Shape'
  BY <1>1, <1>2, StillRenaming
<1>4. QED
  BY <1>3 DEF Kept

LEMMA CannotStageStep ==
    ASSUME Shape, CannotStage
    PROVE  Shape' /\ (Kept(fs) => Kept(fs)')
<1>1. /\ pc = "stage" /\ pc' = "unstage" /\ k <= Len(ops) /\ k' = k - 1
      /\ UNCHANGED <<fs, original, short, rows, dry, todo, ops, count, runs>>
  BY DEF CannotStage, given
<1>2. Control /\ Staging
  BY DEF Shape, Renames
<1>3. DOMAIN ops = 1 .. Len(ops) /\ Len(ops) \in Nat /\ k \in Nat /\ k >= 1
  BY <1>1, <1>2, OpsList DEF Staging
<1>4. Unstaging'
  <2>1. ASSUME NEW i \in 1 .. k' PROVE AtTemporary(i)' /\ ops[i].from \notin DOMAIN fs
    <3>1. i \in DOMAIN ops /\ i < k
      BY <1>1, <1>3
    <3>2. AtTemporary(i) /\ ops[i].from \notin DOMAIN fs
      BY <1>1, <1>2, <3>1 DEF Staging
    <3>3. QED
      BY <1>1, <3>2 DEF AtTemporary
  <2>2. k' <= Len(ops')
    BY <1>1, <1>3
  <2>3. QED
    BY <1>1, <2>1, <2>2 DEF Unstaging
<1>5. Renaming /\ Renaming' /\ k' \in 0 .. Len(ops) + 1 /\ Naming' /\ Unnaming' /\ Restoring'
  BY <1>1, <1>3 DEF Renaming, Naming, Unnaming, Restoring
<1>6. QED
  BY <1>1, <1>4, <1>5, OnlyPlace

LEMMA StagedStep ==
    ASSUME Shape, Staged
    PROVE  Shape' /\ (Kept(fs) => Kept(fs)')
<1>1. /\ pc = "stage" /\ pc' = "name" /\ k > Len(ops) /\ k' = 1
      /\ UNCHANGED <<fs, original, short, rows, dry, todo, ops, count, runs>>
  BY DEF Staged, given
<1>2. Control /\ Staging
  BY DEF Shape, Renames
<1>3. DOMAIN ops = 1 .. Len(ops) /\ Len(ops) \in Nat /\ k \in Nat
  BY <1>1, <1>2, OpsList
<1>4. ASSUME NEW i \in DOMAIN ops
      PROVE  AtTemporary(i) /\ Waiting(i) /\ ops[i].from \notin DOMAIN fs
  <2>1. i < k
    BY <1>1, <1>3
  <2>2. QED
    BY <1>1, <1>2, <2>1 DEF Staging
<1>5. ASSUME NEW i \in DOMAIN ops PROVE ops[i].to \notin DOMAIN fs
  BY <1>1, <1>2, <1>4 DEF Staging
<1>6. Naming'
  <2>1. \A i \in DOMAIN ops' : AtTemporary(i)' /\ Waiting(i)' /\ ~(i < 1)
    BY <1>1, <1>3, <1>4 DEF AtTemporary, Waiting
  <2>2. QED
    BY <1>1, <1>4, <1>5, <2>1 DEF Naming
<1>7. Renaming /\ Renaming' /\ k' \in 0 .. Len(ops) + 1 /\ Unstaging' /\ Unnaming' /\ Restoring'
  BY <1>1, <1>3 DEF Renaming, Unstaging, Unnaming, Restoring
<1>8. QED
  BY <1>1, <1>6, <1>7, OnlyPlace

\* A file under a temporary name is put under another name.
LEMMA FromTemporary ==
    ASSUME Shape, NEW i \in DOMAIN ops, AtTemporary(i), Waiting(i),
           NEW to \in Paths, to[2] = "file", to[3] = 0
    PROVE  Disk(Moved(fs, ops[i].tmp, to))
<1>1. Control /\ Disk(fs) /\ ops[i].tmp \in DOMAIN fs /\ ops[i].tmp[2] = "rename"
  BY Operation DEF Shape, Waiting
<1>2. /\ Latest(fs, ops[i].tmp) /\ Succeeds(fs, to) /\ to # ops[i].tmp
      /\ fs[ops[i].tmp].ref # Torn \/ fs[ops[i].tmp].of \in short
  BY <1>1 DEF Latest, Succeeds, Disk
<1>3. QED
  BY <1>1, <1>2, DiskMoved

\* No two files have one name, at any of the three places.
LEMMA Apart ==
    ASSUME Shape, Renaming, NEW i \in DOMAIN ops, NEW j \in DOMAIN ops, i # j
    PROVE  /\ ops[i].from # ops[j].from /\ ops[i].to # ops[j].to
           /\ AtTemporary(i) /\ AtTemporary(j) => ops[i].tmp # ops[j].tmp
<1>1. ops[i].from # ops[j].from /\ ops[i].to # ops[j].to
  BY DEF Shape, Plan
<1>2. ops[i].from[1] # ops[j].from[1]
  <2>1. ops[i].from = At(ops[i].from[1]) /\ ops[j].from = At(ops[j].from[1])
    BY Operation DEF Shape
  <2>2. QED
    BY <1>1, <2>1
<1>3. AtTemporary(i) /\ AtTemporary(j) => ops[i].tmp[1] = ops[i].from[1] /\ ops[j].tmp[1] = ops[j].from[1]
  BY Operation DEF Shape
<1>4. QED
  BY <1>1, <1>2, <1>3

LEMMA InstallNameStep ==
    ASSUME Shape, InstallName
    PROVE  Shape' /\ (Kept(fs) => Kept(fs)')
<1>1. /\ pc = "name" /\ pc' = "name" /\ k <= Len(ops) /\ k' = k + 1
      /\ UNCHANGED <<original, short, rows, dry, todo, ops, count, runs>>
      /\ fs' = Moved(fs, ops[k].tmp, ops[k].to)
  BY DEF InstallName, given
<1>2. Control /\ Disk(fs) /\ Naming /\ Renaming /\ Renaming'
  BY <1>1 DEF Shape, Renames, Renaming
<1>3. /\ k >= 1
      /\ \A i \in DOMAIN ops :
             /\ AtTemporary(i)
             /\ i < k => ~Waiting(i) /\ ops[i].to \in DOMAIN fs
             /\ i >= k => Waiting(i) /\ ops[i].to \notin DOMAIN fs
             /\ ops[i].from \in DOMAIN fs => \E j \in 1 .. k - 1 : ops[i].from = ops[j].to
  BY <1>1, <1>2 DEF Naming
<1>4. DOMAIN ops = 1 .. Len(ops) /\ Len(ops) \in Nat /\ k \in DOMAIN ops /\ k \in Nat
  BY <1>1, <1>2, <1>3, OpsList
<1>5. AtTemporary(k) /\ Waiting(k) /\ ops[k].tmp \in DOMAIN fs /\ ops[k].to \notin DOMAIN fs
  BY <1>3, <1>4 DEF Waiting
<1>6. \A i \in DOMAIN ops :
          ops[i].from[2] = "file" /\ ops[i].to[2] = "file" /\ ops[i].tmp[2] = "rename"
  BY <1>2, <1>3, Operation
<1>7. \A i \in DOMAIN ops : i # k =>
          ops[i].from # ops[k].from /\ ops[i].to # ops[k].to /\ ops[i].tmp # ops[k].tmp
  BY <1>2, <1>3, <1>4, Apart
<1>8. DOMAIN fs' = (DOMAIN fs \ {ops[k].tmp}) \cup {ops[k].to}
  BY <1>1 DEF Moved
<1>9. Disk(fs') /\ (Kept(fs) => Kept(fs'))
  <2>1. ops[k].to \in Paths /\ ops[k].to[2] = "file" /\ ops[k].to[3] = 0
    BY <1>2, <1>4, Operation
  <2>2. Disk(fs')
    BY <1>1, <1>4, <1>5, <2>1, FromTemporary
  <2>3. QED
    BY <1>1, <1>5, <2>2, KeptMoved
<1>10. Naming'
  <2>1. ASSUME NEW i \in DOMAIN ops
        PROVE  /\ i < k' => ops[i].tmp \notin DOMAIN fs' /\ ops[i].to \in DOMAIN fs'
               /\ i >= k' => ops[i].tmp \in DOMAIN fs' /\ ops[i].to \notin DOMAIN fs'
               /\ ops[i].from \in DOMAIN fs' => \E j \in 1 .. k' - 1 : ops[i].from = ops[j].to
    <3>1. ops[i].tmp # ops[k].to /\ ops[i].to # ops[k].tmp /\ ops[i].from # ops[k].tmp
      <4>1. ops[i].tmp[2] # ops[k].to[2] /\ ops[i].to[2] # ops[k].tmp[2] /\ ops[i].from[2] # ops[k].tmp[2]
        BY <1>4, <1>6
      <4>2. QED
        BY <4>1
    <3>2. CASE i < k
      <4>1. ops[i].tmp \notin DOMAIN fs /\ ops[i].to \in DOMAIN fs
        BY <1>3, <3>2 DEF Waiting
      <4>2. ~(i >= k')
        BY <1>1, <1>4, <3>2
      <4>3. ops[i].tmp \notin DOMAIN fs' /\ ops[i].to \in DOMAIN fs'
        BY <1>8, <3>1, <4>1
      <4>4. ops[i].from \in DOMAIN fs' => \E j \in 1 .. k' - 1 : ops[i].from = ops[j].to
        BY <1>1, <1>3, <1>4, <1>8
      <4>5. QED
        BY <4>2, <4>3, <4>4
    <3>3. CASE i = k
      <4>1. ~(i >= k')
        BY <1>1, <1>4, <3>3
      <4>2. ops[i].tmp \notin DOMAIN fs' /\ ops[i].to \in DOMAIN fs'
        BY <1>8, <3>1, <3>3
      <4>3. ops[i].from \in DOMAIN fs' => \E j \in 1 .. k' - 1 : ops[i].from = ops[j].to
        BY <1>1, <1>3, <1>4, <1>8
      <4>4. QED
        BY <4>1, <4>2, <4>3
    <3>4. CASE i > k
      <4>1. ops[i].tmp \in DOMAIN fs /\ ops[i].to \notin DOMAIN fs /\ i # k
        BY <1>3, <1>4, <3>4 DEF Waiting
      <4>2. ~(i < k')
        BY <1>1, <1>4, <3>4
      <4>3. ops[i].tmp \in DOMAIN fs' /\ ops[i].to \notin DOMAIN fs'
        BY <1>7, <1>8, <3>1, <4>1
      <4>4. ops[i].from \in DOMAIN fs' => \E j \in 1 .. k' - 1 : ops[i].from = ops[j].to
        BY <1>1, <1>3, <1>4, <1>8
      <4>5. QED
        BY <4>2, <4>3, <4>4
    <3>5. QED
      BY <1>4, <3>2, <3>3, <3>4
  <2>2. \A i \in DOMAIN ops' : AtTemporary(i)'
    BY <1>1, <1>3 DEF AtTemporary
  <2>3. k' >= 1
    BY <1>1, <1>4
  <2>4. QED
    BY <1>1, <2>1, <2>2, <2>3 DEF Naming, Waiting
<1>11. Staging' /\ Unstaging' /\ Unnaming' /\ Restoring' /\ pc' # "stage"
  BY <1>1 DEF Staging, Unstaging, Unnaming, Restoring
<1>12. /\ ~dry /\ count' \in [changed : Nat, renamed : Nat] /\ ops' \in Seq(Operations)
       /\ k' \in 0 .. Len(ops) + 1
  BY <1>1, <1>2, <1>4 DEF Shape, Control
<1>13. Shape'
  BY <1>1, <1>2, <1>9, <1>10, <1>11, <1>12, StillRenaming
<1>14. QED
  BY <1>1, <1>9, <1>13, KeptNext

LEMMA CannotInstallNameStep ==
    ASSUME Shape, CannotInstallName
    PROVE  Shape' /\ (Kept(fs) => Kept(fs)')
<1>1. /\ pc = "name" /\ pc' = "unname" /\ k <= Len(ops) /\ k' = k - 1
      /\ UNCHANGED <<fs, original, short, rows, dry, todo, ops, count, runs>>
      /\ past' = IF Overtaken THEN past \cup {"overtaken"} ELSE past
  BY DEF CannotInstallName, given
<1>2. Control /\ Naming /\ Plan /\ Renaming /\ Renaming'
  BY <1>1 DEF Shape, Renames, Renaming
<1>3. /\ k >= 1
      /\ \A i \in DOMAIN ops :
             /\ AtTemporary(i)
             /\ i < k => ~Waiting(i)
             /\ ops[i].from \in DOMAIN fs => \E j \in 1 .. k - 1 : ops[i].from = ops[j].to
  BY <1>1, <1>2 DEF Naming
<1>4. DOMAIN ops = 1 .. Len(ops) /\ Len(ops) \in Nat /\ k \in Nat
  BY <1>2, OpsList
<1>5. \A i, j \in DOMAIN ops : ops[i].to # ops[i].from /\ (ops[i].to = ops[j].from => Chained)
  BY <1>2 DEF Plan
<1>6. ASSUME Safe', NEW i \in DOMAIN ops, ops[i].from \in DOMAIN fs, i <= k'
      PROVE  \E j \in i + 1 .. k' : ops[i].from = ops[j].to
  <2>1. PICK j \in 1 .. k - 1 : ops[i].from = ops[j].to
    BY <1>3, <1>6
  <2>2. j \in DOMAIN ops /\ j \in Nat /\ i \in Nat /\ j # i /\ i \in 1 .. k - 1
    BY <1>1, <1>4, <1>5, <1>6, <2>1
  <2>3. CASE j < i
    <3>1. Overtaken
      BY <2>1, <2>2, <2>3 DEF Overtaken
    <3>2. "overtaken" \in past' /\ Chained
      BY <1>1, <1>5, <2>1, <2>2, <3>1
    <3>3. Chained'
      BY <1>1, <3>2, SameTable
    <3>4. QED
      BY <1>6, <3>2, <3>3 DEF Safe
  <2>4. CASE i < j
    <3>1. j \in i + 1 .. k'
      BY <1>1, <1>4, <2>1, <2>2, <2>4
    <3>2. QED
      BY <2>1, <3>1
  <2>5. QED
    BY <2>2, <2>3, <2>4
<1>7. Unnaming'
  <2>1. \A i \in DOMAIN ops' : AtTemporary(i)' /\ (i <= k' => ~Waiting(i)')
    <3>1. \A i \in DOMAIN ops : i <= k' => i < k
      BY <1>1, <1>4
    <3>2. QED
      BY <1>1, <1>3, <3>1 DEF AtTemporary, Waiting
  <2>2. k' <= Len(ops')
    BY <1>1, <1>4
  <2>3. \A i \in DOMAIN ops : ops[i].from \in DOMAIN fs => \E j \in 1 .. k' : ops[i].from = ops[j].to
    BY <1>1, <1>3
  <2>4. QED
    BY <1>1, <1>6, <2>1, <2>2, <2>3 DEF Unnaming
<1>8. k' \in 0 .. Len(ops) + 1 /\ Naming' /\ Unstaging' /\ Restoring'
  BY <1>1, <1>3, <1>4 DEF Naming, Unstaging, Restoring
<1>9. QED
  BY <1>1, <1>2, <1>7, <1>8, OnlyPlace

\* What the undo loops remember never becomes safe again.
LEMMA StaysUnsafe ==
    ASSUME past \subseteq past', UNCHANGED rows
    PROVE  Safe' => Safe
BY SameTable DEF Safe

LEMMA UndoFacts ==
    ASSUME NEW from, NEW to, Undo(from, to)
    PROVE  /\ UNCHANGED <<original, short, rows, dry, todo, ops, count, runs>>
           /\ past \subseteq past'
           /\ \/ from \in DOMAIN fs /\ fs' = Moved(fs, from, to)
              \/ from \notin DOMAIN fs /\ fs' = fs
              \/ fs' = fs /\ "undo_failed" \in past'
BY DEF Undo, MovedBack, given

LEMMA UnstageStep ==
    ASSUME Shape, Unstage
    PROVE  Shape' /\ (Kept(fs) => Kept(fs)')
<1>1. /\ pc = "unstage" /\ pc' = "unstage" /\ k >= 1 /\ k' = k - 1
      /\ UNCHANGED <<original, short, rows, dry, todo, ops, count, runs>>
      /\ \/ ops[k].tmp \in DOMAIN fs /\ fs' = Moved(fs, ops[k].tmp, ops[k].from)
         \/ fs' = fs
  BY UndoFacts DEF Unstage
<1>2. Control /\ Disk(fs) /\ Unstaging /\ Renaming /\ Renaming'
  BY <1>1 DEF Shape, Renames, Renaming
<1>3. k <= Len(ops) /\ \A i \in 1 .. k : AtTemporary(i) /\ ops[i].from \notin DOMAIN fs
  BY <1>1, <1>2 DEF Unstaging
<1>4. DOMAIN ops = 1 .. Len(ops) /\ Len(ops) \in Nat /\ k \in DOMAIN ops /\ k \in Nat /\ k \in 1 .. k
  BY <1>1, <1>2, <1>3, OpsList
<1>5. Disk(fs') /\ (Kept(fs) => Kept(fs')) /\ DOMAIN fs' \subseteq DOMAIN fs \cup {ops[k].from}
  <2>1. CASE fs' = fs
    BY <1>2, <2>1
  <2>2. CASE ops[k].tmp \in DOMAIN fs /\ fs' = Moved(fs, ops[k].tmp, ops[k].from)
    <3>1. /\ ops[k].from \in Paths /\ ops[k].from[2] = "file" /\ ops[k].from[3] = 0
          /\ AtTemporary(k) /\ Waiting(k) /\ ops[k].from \notin DOMAIN fs
      BY <1>2, <1>3, <1>4, <2>2, Operation DEF Waiting
    <3>2. Disk(fs')
      BY <1>4, <2>2, <3>1, FromTemporary
    <3>3. DOMAIN fs' = (DOMAIN fs \ {ops[k].tmp}) \cup {ops[k].from}
      BY <2>2 DEF Moved
    <3>4. QED
      BY <2>2, <3>1, <3>2, <3>3, KeptMoved
  <2>3. QED
    BY <1>1, <2>1, <2>2
<1>6. Unstaging'
  <2>1. ASSUME NEW i \in 1 .. k' PROVE AtTemporary(i)' /\ ops[i].from \notin DOMAIN fs'
    <3>1. i \in 1 .. k /\ i \in DOMAIN ops /\ i # k
      BY <1>1, <1>3, <1>4
    <3>2. ops[i].from # ops[k].from
      BY <1>2, <1>4, <3>1, Apart
    <3>3. QED
      BY <1>1, <1>3, <1>5, <3>1, <3>2 DEF AtTemporary
  <2>2. k' <= Len(ops')
    BY <1>1, <1>3, <1>4
  <2>3. QED
    BY <1>1, <2>1, <2>2 DEF Unstaging
<1>7. Staging' /\ Naming' /\ Unnaming' /\ Restoring' /\ pc' # "stage"
  BY <1>1 DEF Staging, Naming, Unnaming, Restoring
<1>8. /\ ~dry /\ count' \in [changed : Nat, renamed : Nat] /\ ops' \in Seq(Operations)
      /\ k' \in 0 .. Len(ops) + 1
  BY <1>1, <1>2, <1>4 DEF Shape, Control
<1>9. Shape'
  BY <1>1, <1>2, <1>5, <1>6, <1>7, <1>8, StillRenaming
<1>10. QED
  BY <1>1, <1>5, <1>9, KeptNext

LEMMA UninstallStep ==
    ASSUME Shape, Uninstall
    PROVE  Shape' /\ (Safe /\ Kept(fs) => Kept(fs)')
<1>1. /\ pc = "unname" /\ pc' = "unname" /\ k >= 1 /\ k' = k - 1
      /\ UNCHANGED <<original, short, rows, dry, todo, ops, count, runs>>
  BY UndoFacts DEF Uninstall
<1>undo. /\ past \subseteq past'
         /\ \/ ops[k].to \in DOMAIN fs /\ fs' = Moved(fs, ops[k].to, ops[k].from)
            \/ ops[k].to \notin DOMAIN fs /\ fs' = fs
            \/ fs' = fs /\ "undo_failed" \in past'
  BY UndoFacts DEF Uninstall
<1>2. Control /\ Disk(fs) /\ Unnaming /\ Plan /\ Renaming /\ Renaming'
  BY <1>1 DEF Shape, Renames, Renaming
<1>3. /\ k <= Len(ops)
      /\ \A i \in DOMAIN ops : AtTemporary(i) /\ (i <= k => ~Waiting(i))
      /\ Safe => \A i \in DOMAIN ops : ops[i].from \in DOMAIN fs =>
             /\ i <= k => \E j \in i + 1 .. k : ops[i].from = ops[j].to
             /\ Waiting(i) => \E j \in 1 .. k : ops[i].from = ops[j].to
  BY <1>1, <1>2 DEF Unnaming
<1>4. DOMAIN ops = 1 .. Len(ops) /\ Len(ops) \in Nat /\ k \in DOMAIN ops /\ k \in Nat
  BY <1>1, <1>2, <1>3, OpsList
<1>5. \A i, j \in DOMAIN ops : ops[i].to # ops[i].from /\ (ops[i].to = ops[j].from => Chained)
  BY <1>2 DEF Plan
<1>6. /\ ops[k].from \in Paths /\ ops[k].from[2] = "file" /\ ops[k].from[3] = 0
      /\ ops[k].to[2] = "file" /\ ops[k].to # ops[k].from
  BY <1>2, <1>4, <1>5, Operation
<1>7. Safe => ops[k].from \notin DOMAIN fs
  BY <1>3, <1>4
<1>8. Disk(fs') /\ (Safe /\ Kept(fs) => Kept(fs'))
  <2>1. CASE fs' = fs
    BY <1>2, <2>1
  <2>2. CASE ops[k].to \in DOMAIN fs /\ fs' = Moved(fs, ops[k].to, ops[k].from)
    <3>1. /\ Latest(fs, ops[k].to) /\ Succeeds(fs, ops[k].from)
          /\ fs[ops[k].to].ref # Torn \/ fs[ops[k].to].of \in short
      BY <1>2, <1>6, <2>2 DEF Latest, Succeeds, Disk
    <3>2. Disk(fs')
      BY <1>2, <1>6, <2>2, <3>1, DiskMoved
    <3>3. QED
      BY <1>7, <2>2, <3>2, KeptMoved
  <2>3. QED
    BY <1>undo, <2>1, <2>2
<1>9. \A i \in DOMAIN ops : i # k => ops[i].from # ops[k].from
  BY <1>2, <1>4, Apart
<1>10. \A i \in DOMAIN ops : ops[i].tmp # ops[k].from /\ ops[i].tmp # ops[k].to
  <2>1. \A i \in DOMAIN ops : ops[i].tmp[2] = "rename"
    BY <1>2, <1>3, Operation
  <2>2. QED
    BY <1>6, <2>1
<1>11. \A i \in DOMAIN ops : ops[i].tmp \in DOMAIN fs' <=> ops[i].tmp \in DOMAIN fs
  BY <1>undo, <1>10 DEF Moved
<1>12. ASSUME Safe', NEW i \in DOMAIN ops, ops[i].from \in DOMAIN fs',
              i <= k' \/ Waiting(i)
       PROVE  /\ i <= k' => \E j \in i + 1 .. k' : ops[i].from = ops[j].to
              /\ Waiting(i) => \E j \in 1 .. k' : ops[i].from = ops[j].to
  <2>1. Safe
    BY <1>1, <1>12, <1>undo, StaysUnsafe
  <2>2. i # k /\ (i <= k' => i <= k)
    BY <1>1, <1>3, <1>4, <1>12
  <2>3. ops[i].from \in DOMAIN fs /\ (fs' # fs => ops[i].from # ops[k].to)
    <3>1. CASE fs' = fs
      BY <1>12, <3>1
    <3>2. CASE fs' = Moved(fs, ops[k].to, ops[k].from)
      <4>1. DOMAIN fs' = (DOMAIN fs \ {ops[k].to}) \cup {ops[k].from}
        BY <3>2 DEF Moved
      <4>2. QED
        BY <1>9, <1>12, <2>2, <4>1
    <3>3. QED
      BY <1>undo, <3>1, <3>2
  <2>4. ops[i].from # ops[k].to
    <3>1. SUFFICES ASSUME ops[i].from = ops[k].to PROVE FALSE
      OBVIOUS
    <3>2. Chained /\ fs' = fs /\ ops[k].to \in DOMAIN fs
      BY <1>4, <1>5, <2>3, <3>1
    <3>3. "undo_failed" \in past' \/ fs' = Moved(fs, ops[k].to, ops[k].from)
      BY <1>undo, <3>2
    <3>4. CASE "undo_failed" \in past'
      <4>1. Chained'
        BY <1>1, <3>2, SameTable
      <4>2. QED
        BY <1>12, <3>4, <4>1 DEF Safe
    <3>5. CASE fs' = Moved(fs, ops[k].to, ops[k].from)
      <4>1. ops[k].to \notin DOMAIN fs'
        BY <1>6, <3>5 DEF Moved
      <4>2. QED
        BY <3>2, <4>1
    <3>6. QED
      BY <3>3, <3>4, <3>5
  <2>5. i <= k' => \E j \in i + 1 .. k' : ops[i].from = ops[j].to
    <3>1. SUFFICES ASSUME i <= k' PROVE \E j \in i + 1 .. k' : ops[i].from = ops[j].to
      OBVIOUS
    <3>2. PICK j \in i + 1 .. k : ops[i].from = ops[j].to
      BY <1>3, <2>1, <2>2, <2>3, <3>1
    <3>3. j # k /\ i \in Nat
      BY <1>4, <2>4, <3>2
    <3>4. j \in i + 1 .. k'
      BY <1>1, <1>4, <3>3
    <3>5. QED
      BY <3>2, <3>4
  <2>6. Waiting(i) => \E j \in 1 .. k' : ops[i].from = ops[j].to
    <3>1. SUFFICES ASSUME Waiting(i) PROVE \E j \in 1 .. k' : ops[i].from = ops[j].to
      OBVIOUS
    <3>2. PICK j \in 1 .. k : ops[i].from = ops[j].to
      BY <1>3, <2>1, <2>3, <3>1
    <3>3. j # k
      BY <2>4, <3>2
    <3>4. j \in 1 .. k'
      BY <1>1, <1>4, <3>3
    <3>5. QED
      BY <3>2, <3>4
  <2>7. QED
    BY <2>5, <2>6
<1>13. Unnaming'
  <2>1. k' <= Len(ops')
    BY <1>1, <1>3, <1>4
  <2>2. \A i \in DOMAIN ops : i <= k' => i <= k
    BY <1>1, <1>4
  <2>3. \A i \in DOMAIN ops' : AtTemporary(i)' /\ (Waiting(i)' <=> Waiting(i))
    BY <1>1, <1>3, <1>11 DEF AtTemporary, Waiting
  <2>4. QED
    BY <1>1, <1>3, <1>12, <2>1, <2>2, <2>3 DEF Unnaming
<1>14. Staging' /\ Naming' /\ Unstaging' /\ Restoring' /\ pc' # "stage"
  BY <1>1 DEF Staging, Naming, Unstaging, Restoring
<1>15. /\ ~dry /\ count' \in [changed : Nat, renamed : Nat] /\ ops' \in Seq(Operations)
       /\ k' \in 0 .. Len(ops) + 1
  BY <1>1, <1>2, <1>4 DEF Shape, Control
<1>16. Shape'
  BY <1>1, <1>2, <1>8, <1>13, <1>14, <1>15, StillRenaming
<1>17. QED
  BY <1>1, <1>8, <1>16, KeptNext

LEMMA UpTo ==
    ASSUME NEW n \in Nat
    PROVE  IsFiniteSet(1 .. n) /\ Cardinality(1 .. n) = n
<1>1. 1 \in Int /\ n \in Int
  OBVIOUS
<1>2. IsFiniteSet(1 .. n) /\ Cardinality(1 .. n) = IF 1 > n THEN 0 ELSE n - 1 + 1
  BY <1>1, FS_Interval
<1>3. (IF 1 > n THEN 0 ELSE n - 1 + 1) = n
  OBVIOUS
<1>4. QED
  BY <1>2, <1>3

LEMMA RestoreOthersStep ==
    ASSUME Shape, RestoreOthers
    PROVE  Shape' /\ (Kept(fs) => Kept(fs)')
<1> DEFINE waiting == {i \in DOMAIN ops : Waiting(i)}
<1>1. /\ pc = "unname" /\ pc' = "unstage_rest" /\ k = 0
      /\ k' = 1 + Len(ops) - Cardinality(waiting)
      /\ UNCHANGED <<fs, original, short, rows, dry, todo, ops, count, runs, past>>
  BY DEF RestoreOthers, given
<1>2. Control /\ Unnaming /\ Renaming /\ Renaming'
  BY <1>1 DEF Shape, Renames, Renaming
<1>3. DOMAIN ops = 1 .. Len(ops) /\ Len(ops) \in Nat
  BY <1>2, OpsList
<1>4. Cardinality(waiting) \in Nat /\ Cardinality(waiting) <= Len(ops)
  <2>1. IsFiniteSet(1 .. Len(ops)) /\ Cardinality(1 .. Len(ops)) = Len(ops)
    BY <1>3, UpTo
  <2>2. waiting \subseteq 1 .. Len(ops)
    BY <1>3
  <2> HIDE DEF waiting
  <2>3. IsFiniteSet(waiting) /\ Cardinality(waiting) <= Cardinality(1 .. Len(ops))
    BY <2>1, <2>2, FS_Subset
  <2>4. QED
    BY <2>1, <2>3, FS_CardinalityType
<1> HIDE DEF waiting
<1>5. k' \in 0 .. Len(ops) + 1 /\ k' >= 1
  <2> DEFINE size == Cardinality(waiting)
  <2>1. Len(ops) \in Nat /\ size \in Nat /\ size <= Len(ops) /\ k' = 1 + Len(ops) - size
    BY <1>1, <1>3, <1>4
  <2> HIDE DEF size
  <2>2. QED
    BY <2>1
<1>6. Restoring'
  <2>1. \A i \in DOMAIN ops : AtTemporary(i)
    BY <1>1, <1>2 DEF Unnaming
  <2>2. Safe' => \A i \in DOMAIN ops : Waiting(i) => ops[i].from \notin DOMAIN fs
    <3>1. Safe' => Safe
      BY <1>1, StaysUnsafe
    <3>2. \A i \in DOMAIN ops : ~(ops[i].from \in DOMAIN fs /\ Waiting(i)) \/ ~Safe
      <4>1. ASSUME NEW i \in DOMAIN ops, ops[i].from \in DOMAIN fs, Waiting(i), Safe PROVE FALSE
        <5>1. \E j \in 1 .. k : ops[i].from = ops[j].to
          BY <1>1, <1>2, <4>1 DEF Unnaming
        <5>2. QED
          BY <1>1, <5>1
      <4>2. QED
        BY <4>1
    <3>3. QED
      BY <3>1, <3>2
  <2>3. \A i \in DOMAIN ops' : AtTemporary(i)' /\ (Waiting(i)' <=> Waiting(i))
    BY <1>1, <2>1 DEF AtTemporary, Waiting
  <2>4. QED
    BY <1>1, <1>5, <2>2, <2>3 DEF Restoring
<1>7. Naming' /\ Unstaging' /\ Unnaming' /\ pc' # "stage"
  BY <1>1 DEF Naming, Unstaging, Unnaming
<1>8. QED
  BY <1>1, <1>2, <1>5, <1>6, <1>7, OnlyPlace

LEMMA RestoreNextStep ==
    ASSUME Shape, RestoreNext
    PROVE  Shape' /\ (Safe /\ Kept(fs) => Kept(fs)')
<1>1. /\ pc = "unstage_rest" /\ pc' = "unstage_rest" /\ k <= Len(ops) /\ k' = k + 1
      /\ UNCHANGED <<original, short, rows, dry, todo, ops, count, runs>>
  BY UndoFacts DEF RestoreNext
<1>undo. /\ past \subseteq past'
         /\ \/ ops[k].tmp \in DOMAIN fs /\ fs' = Moved(fs, ops[k].tmp, ops[k].from)
            \/ fs' = fs
  BY UndoFacts DEF RestoreNext
<1>2. Control /\ Disk(fs) /\ Restoring /\ Renaming /\ Renaming'
  BY <1>1 DEF Shape, Renames, Renaming
<1>3. k >= 1 /\ \A i \in DOMAIN ops : AtTemporary(i)
  BY <1>1, <1>2 DEF Restoring
<1>free. Safe => \A i \in DOMAIN ops : i >= k /\ Waiting(i) => ops[i].from \notin DOMAIN fs
  BY <1>1, <1>2 DEF Restoring
<1>4. DOMAIN ops = 1 .. Len(ops) /\ Len(ops) \in Nat /\ k \in DOMAIN ops /\ k \in Nat
  <2>1. k >= 1 /\ k <= Len(ops)
    BY <1>1, <1>3
  <2>2. DOMAIN ops = 1 .. Len(ops) /\ Len(ops) \in Nat /\ k \in Nat
    BY <1>2, OpsList
  <2>3. QED
    BY <2>1, <2>2
<1>5. /\ ops[k].from \in Paths /\ ops[k].from[2] = "file" /\ ops[k].from[3] = 0
  BY <1>2, <1>4, Operation
<1>6. /\ Disk(fs') /\ (Safe /\ Kept(fs) => Kept(fs'))
      /\ DOMAIN fs' \subseteq DOMAIN fs \cup {ops[k].from}
  <2>1. CASE fs' = fs
    BY <1>2, <2>1
  <2>2. CASE ops[k].tmp \in DOMAIN fs /\ fs' = Moved(fs, ops[k].tmp, ops[k].from)
    <3>1. AtTemporary(k) /\ Waiting(k)
      BY <1>3, <1>4, <2>2 DEF Waiting
    <3>2. Disk(fs')
      BY <1>4, <1>5, <2>2, <3>1, FromTemporary
    <3>3. DOMAIN fs' = (DOMAIN fs \ {ops[k].tmp}) \cup {ops[k].from}
      BY <2>2 DEF Moved
    <3>4. Safe => ops[k].from \notin DOMAIN fs
      BY <1>free, <1>4, <3>1
    <3>5. QED
      BY <2>2, <3>2, <3>3, <3>4, KeptMoved
  <2>3. QED
    BY <1>undo, <2>1, <2>2
<1>7. Restoring'
  <2>1. ASSUME Safe', NEW i \in DOMAIN ops, i >= k', ops[i].tmp \in DOMAIN fs'
        PROVE  ops[i].from \notin DOMAIN fs'
    <3>1. Safe
      BY <1>1, <1>undo, <2>1, StaysUnsafe
    <3>7. i >= k'
      BY <2>1
    <3>8. i # k /\ i >= k
      BY <1>1, <1>4, <3>7
    <3>2. ops[i].tmp[2] = "rename"
      BY <1>2, <1>3, Operation
    <3>3. ops[i].tmp \in DOMAIN fs
      BY <1>5, <1>6, <2>1, <3>2
    <3>4. ops[i].from \notin DOMAIN fs
      BY <1>free, <3>1, <3>3, <3>8 DEF Waiting
    <3>5. ops[i].from # ops[k].from
      BY <1>2, <1>4, <3>8, Apart
    <3>6. QED
      BY <1>6, <3>4, <3>5
  <2>2. k' >= 1
    BY <1>1, <1>4
  <2>3. \A i \in DOMAIN ops' : AtTemporary(i)'
    BY <1>1, <1>3 DEF AtTemporary
  <2>4. QED
    BY <1>1, <2>1, <2>2, <2>3 DEF Restoring, Waiting
<1>8. Staging' /\ Naming' /\ Unstaging' /\ Unnaming' /\ pc' # "stage"
  BY <1>1 DEF Staging, Naming, Unstaging, Unnaming
<1>9. /\ ~dry /\ count' \in [changed : Nat, renamed : Nat] /\ ops' \in Seq(Operations)
      /\ k' \in 0 .. Len(ops) + 1
  <2>1. ~dry /\ count' \in [changed : Nat, renamed : Nat] /\ ops' \in Seq(Operations)
    BY <1>1, <1>2 DEF Shape, Control
  <2>2. k' \in 0 .. Len(ops) + 1
    BY <1>1, <1>4
  <2>3. QED
    BY <2>1, <2>2
<1>10. Shape'
  BY <1>1, <1>2, <1>6, <1>7, <1>8, <1>9, StillRenaming
<1>11. QED
  BY <1>1, <1>6, <1>10, KeptNext

LEMMA StutterStep ==
    ASSUME Shape, UNCHANGED vars
    PROVE  Shape' /\ (Kept(fs) => Kept(fs)')
<1>1. /\ UNCHANGED <<fs, original, short, rows, dry, pc, todo, ops, k, count, runs, past>>
      /\ (Chained' <=> Chained) /\ (TableRefused(rows)' <=> TableRefused(rows))
  BY SameTable DEF vars
<1>2. (Reading' <=> Reading) /\ (Renaming' <=> Renaming) /\ (Rewriting' <=> Rewriting) /\ (Aside' <=> Aside)
  BY <1>1 DEF Reading, Renaming, Rewriting, Aside
<1>3. Disk(fs)' /\ Control' /\ Room'
  BY <1>1, <1>2 DEF Shape, Disk, Control, Room, Fresh
<1>4. Written' = Written /\ SetAside' = SetAside /\ File' = File
  BY <1>1 DEF Written, SetAside, Temporary, Backup, Sibling, File
<1>5. \A content : Replaced(content)' = Replaced(content)
  BY <1>1, SameTable DEF Replaced
<1>6. Rewrites'
  BY <1>1, <1>2, <1>4, <1>5 DEF Shape, Rewrites, Present, WrittenFrom, Cut
<1>7. Plan' /\ (Safe' <=> Safe)
  BY <1>1, <1>2 DEF Shape, Plan, Safe
<1>8. InUse' = InUse
  BY <1>1, <1>2 DEF InUse, Present
<1>9. Planning' /\ Staging' /\ Naming'
  BY <1>1, <1>2, <1>8 DEF Shape, Renames, Planning, Staging, Naming, AtTemporary, Waiting
<1>10. Unstaging' /\ Unnaming' /\ Restoring'
  BY <1>1, <1>7 DEF Shape, Renames, Unstaging, Unnaming, Restoring, AtTemporary, Waiting
<1>11. QED
  BY <1>1, <1>2, <1>3, <1>6, <1>7, <1>9, <1>10 DEF Shape, Renames, Kept

\* What the history remembers is never forgotten.
LEMMA PastGrows ==
    ASSUME [Next]_vars
    PROVE  past \subseteq past' /\ UNCHANGED <<original, rows>> /\ short \subseteq short'
<1>1. CASE Unstage \/ Uninstall \/ RestoreNext
  BY <1>1, UndoFacts DEF Unstage, Uninstall, RestoreNext
<1>2. CASE UNCHANGED vars
  BY <1>2 DEF vars
<1>3. CASE RunAgain \/ Crash \/ CannotInstallName \/ Restore
  BY <1>3 DEF RunAgain, Crash, CannotInstallName, Restore, given
<1>4. CASE Start \/ Refuse \/ Visit \/ CannotRead \/ WriteTemporary \/ WriteShort \/ CannotWrite
           \/ PutAside \/ CannotPutAside
  BY <1>4 DEF Start, Refuse, Visit, CannotRead, WriteTemporary, WriteShort, CannotWrite, PutAside,
              CannotPutAside, given
<1>5. CASE Install \/ CannotInstall \/ RemoveBackup \/ BeginRenames \/ Stage \/ CannotStage \/ Staged
  BY <1>5 DEF Install, CannotInstall, RemoveBackup, BeginRenames, Stage, CannotStage, Staged, given
<1>6. CASE InstallName \/ Succeed \/ RestoreOthers \/ Undone \/ Over
  BY <1>6 DEF InstallName, Succeed, RestoreOthers, Undone, Over, vars, given
<1>7. QED
  BY <1>1, <1>2, <1>3, <1>4, <1>5, <1>6 DEF Next

\* Only a writer cuts a file short, and it is a file of the world.
LEMMA ShortIsOfWorld ==
    ASSUME Shape, short \subseteq DOMAIN original, [Next]_vars
    PROVE  short' \subseteq DOMAIN original'
<1>1. CASE WriteShort
  <2>1. pc = "write" /\ short' = short \cup {fs[File].of} /\ UNCHANGED original
    BY <1>1 DEF WriteShort
  <2>2. todo # <<>>
    BY <2>1 DEF Shape, Rewrites, Rewriting
  <2>3. fs[File] \in [of : DOMAIN original, ref : Uuids \cup {Torn}]
    BY <2>1, <2>2, FileThere
  <2>4. QED
    BY <2>1, <2>3
<1>2. CASE Unstage \/ Uninstall \/ RestoreNext
  BY <1>2, UndoFacts DEF Unstage, Uninstall, RestoreNext
<1>3. CASE RunAgain \/ Crash \/ CannotInstallName \/ Restore \/ UNCHANGED vars
  BY <1>3 DEF RunAgain, Crash, CannotInstallName, Restore, given, vars
<1>4. CASE Start \/ Refuse \/ Visit \/ CannotRead \/ WriteTemporary \/ CannotWrite \/ PutAside
           \/ CannotPutAside
  BY <1>4 DEF Start, Refuse, Visit, CannotRead, WriteTemporary, CannotWrite, PutAside,
              CannotPutAside, given
<1>5. CASE Install \/ CannotInstall \/ RemoveBackup \/ BeginRenames \/ Stage \/ CannotStage \/ Staged
  BY <1>5 DEF Install, CannotInstall, RemoveBackup, BeginRenames, Stage, CannotStage, Staged, given
<1>6. CASE InstallName \/ Succeed \/ RestoreOthers \/ Undone \/ Over
  BY <1>6 DEF InstallName, Succeed, RestoreOthers, Undone, Over, vars, given
<1>7. QED
  BY <1>1, <1>2, <1>3, <1>4, <1>5, <1>6 DEF Next

LEMMA ShapeStep ==
    ASSUME Shape, [Next]_vars
    PROVE  Shape' /\ (Safe /\ Kept(fs) => Kept(fs)')
<1>1. CASE Start \/ Refuse \/ Visit \/ CannotRead
  BY <1>1, StartStep, RefuseStep, VisitStep, CannotReadStep
<1>2. CASE WriteTemporary \/ WriteShort \/ CannotWrite \/ PutAside \/ CannotPutAside
  BY <1>2, WriteTemporaryStep, CannotWriteStep, PutAsideStep, CannotPutAsideStep
<1>3. CASE Install \/ CannotInstall \/ Restore \/ RemoveBackup
  BY <1>3, InstallStep, CannotInstallStep, RestoreStep, RemoveBackupStep
<1>4. CASE BeginRenames \/ Stage \/ CannotStage \/ Staged
  BY <1>4, BeginRenamesStep, StageStep, CannotStageStep, StagedStep
<1>5. CASE InstallName \/ CannotInstallName \/ Succeed
  BY <1>5, InstallNameStep, CannotInstallNameStep, SucceedStep
<1>6. CASE Unstage \/ Uninstall \/ RestoreOthers \/ RestoreNext \/ Undone
  BY <1>6, UnstageStep, UninstallStep, RestoreOthersStep, RestoreNextStep, UndoneStep
<1>7. CASE Crash \/ RunAgain
  BY <1>7, CrashStep, RunAgainStep
<1>8. CASE Over \/ UNCHANGED vars
  BY <1>8, StutterStep DEF Over
<1>9. QED
  BY <1>1, <1>2, <1>3, <1>4, <1>5, <1>6, <1>7, <1>8 DEF Next

LEMMA Invariance == Spec => []IInv
<1>1. Init => IInv
  BY InitShape DEF IInv, Init
<1>2. IInv /\ [Next]_vars => IInv'
  <2>1. SUFFICES ASSUME IInv, [Next]_vars PROVE IInv'
    OBVIOUS
  <2>2. Shape /\ short \subseteq DOMAIN original /\ (Safe => Kept(fs))
    BY <2>1 DEF IInv
  <2>3. Safe' => Safe
    BY <2>1, PastGrows, StaysUnsafe
  <2>4. Shape' /\ (Safe /\ Kept(fs) => Kept(fs)')
    BY <2>1, <2>2, ShapeStep
  <2>5. short' \subseteq DOMAIN original'
    BY <2>1, <2>2, ShortIsOfWorld
  <2>6. QED
    BY <2>2, <2>3, <2>4, <2>5 DEF IInv
<1>3. QED
  BY <1>1, <1>2, PTL DEF Spec

\* The lists and the counters are in range: the variables of Run and the disk
\* have their types.
THEOREM TypeCorrect == Spec => []TypeOK
<1>1. IInv => TypeOK
  <2>1. SUFFICES ASSUME Shape, short \subseteq DOMAIN original PROVE TypeOK
    BY DEF IInv
  <2>2. /\ DOMAIN fs \subseteq Paths
        /\ \A p \in DOMAIN fs : fs[p] \in [of : DOMAIN original, ref : Uuids \cup {Torn}]
    BY <2>1 DEF Shape, Disk
  <2>3. todo \in Seq(Names \cup {Level}) /\ k \in 0 .. Len(ops) + 1 /\ count \in [changed : Nat, renamed : Nat]
    BY <2>1 DEF Shape, Control, Everyone
  <2>4. ToSet(todo) \subseteq Names \cup {Level}
    BY <2>3 DEF ToSet
  <2>5. QED
    BY <2>1, <2>2, <2>3, <2>4 DEF TypeOK
<1>2. QED
  BY <1>1, Invariance, PTL

\* No rename, write or removal takes the last copy of a file's data, whatever
\* fails, and whenever the program is killed and started again.  Two things
\* may: the undo of the renames of a chained table; and for one file a write
\* that is cut short when its stream is closed, which nobody notices.
THEOREM NothingLostCorrect == Spec => []NothingLost
<1>1. IInv => NothingLost
  BY DEF IInv, Safe, Kept, NothingLost
<1>2. QED
  BY <1>1, Invariance, PTL

-----------------------------------------------------------------------------
(* What is where, as long as nothing unusual has happened.                 *)

Fine ==
    /\ past \cap {"crash", "undo_failed", "overtaken"} = {}
    /\ "incomplete_run" \in past => ~Chained

New(n) == Rewritten(original[n])

\* The file as it should become, or what a writer that noticed nothing has
\* left of it.
Renewed(n, content) == content = New(n) \/ (n \in short /\ content = Cut(original[n]))

\* What a run finds, and what it may leave.
Found(n, content) == content = original[n] \/ ("incomplete_run" \in past /\ Renewed(n, content))

Left(n, content) == (content = original[n] \/ Renewed(n, content)) /\ (dry => Found(n, content))

\* The names that the table changes, and the others.
Moving == {n \in Names \cap DOMAIN original : FindMapped(UuidOf[n]) # UuidOf[n]}
Staying == DOMAIN original \ Moving

\* No two files come to have one name.
NamesApart ==
    /\ \A m, n \in Moving : m # n => Target(m) # Target(n)
    /\ \A n \in Moving : Target(n) \notin Staying

Owner(i) == ops[i].from[1]

Pairing ==
    /\ \A i \in DOMAIN ops : Owner(i) \in Moving /\ ops[i].to = At(Target(Owner(i)))
    /\ \A n \in Moving : \E i \in DOMAIN ops : Owner(i) = n

Holds(f, path, n) == path \in DOMAIN f /\ Renewed(n, f[path])

\* Every file that is renamed is at its place, the others are where they were.
Laid(f, place) ==
    /\ \A i \in DOMAIN ops : Holds(f, place[i], Owner(i))
    /\ \A n \in Staying : Holds(f, At(n), n)
    /\ \A n \in Everyone : At(n) \in DOMAIN f => n \in Staying \/ \E i \in DOMAIN ops : place[i] = At(n)

AllThere == \A n \in Everyone : Present(n) <=> n \in DOMAIN original

\* Files not visited yet, files done, the file that is set aside.
WhileReading ==
    Reading =>
        /\ InUse = DOMAIN original
        /\ \A n \in DOMAIN original :
               /\ n \in ToSet(todo) /\ (n # Head(todo) \/ pc \in {"visit", "write", "aside"}) =>
                      Found(n, fs[At(n)])
               /\ n \notin ToSet(todo) => IF dry THEN Found(n, fs[At(n)]) ELSE Renewed(n, fs[At(n)])
        /\ pc \in {"install", "restore", "cleanup"} => Found(Head(todo), fs[SetAside])

WhileStaging ==
    /\ pc = "stage" => Laid(fs, [i \in DOMAIN ops |-> ops[i].tmp])
    /\ pc = "unstage" => Laid(fs, [i \in DOMAIN ops |-> IF i <= k THEN ops[i].tmp ELSE ops[i].from])

WhileNaming ==
    /\ pc = "name" => Laid(fs, [i \in DOMAIN ops |-> IF i < k THEN ops[i].to ELSE ops[i].tmp])
    /\ pc = "unname" => \E installed \in k .. Len(ops) :
           /\ \A i \in DOMAIN ops : Waiting(i) <=> i > installed
           /\ Laid(fs, [i \in DOMAIN ops |-> IF i <= k THEN ops[i].to ELSE
                                             IF i <= installed THEN ops[i].from ELSE ops[i].tmp])
    /\ pc = "unstage_rest" =>
           Laid(fs, [i \in DOMAIN ops |-> IF i < k THEN ops[i].from ELSE ops[i].tmp])

AtTheEnd ==
    /\ pc = "start" => AllThere /\ \A n \in DOMAIN original : Found(n, fs[At(n)])
    /\ pc = "done" /\ (~ok \/ dry) => AllThere /\ \A n \in DOMAIN original : Left(n, fs[At(n)])
    /\ pc = "done" /\ ok => NamesApart /\ ~TableRefused(rows)
    /\ pc = "done" /\ ok /\ ~dry =>
           /\ \A n \in Moving : Holds(fs, At(Target(n)), n)
           /\ \A n \in Staying : Holds(fs, At(n), n)
           /\ \A n \in Everyone : Present(n) => n \in Staying \/ \E m \in Moving : n = Target(m)

Account ==
    /\ Reading \/ Renaming => NamesApart /\ Pairing
    /\ WhileReading /\ WhileStaging /\ WhileNaming /\ AtTheEnd

\* What the history variables remember.
History ==
    /\ original = [n \in DOMAIN original |-> original[n]]
    /\ pc = "killed" => "crash" \in past
    /\ "overtaken" \in past =>
           Chained /\ ("incomplete_run" \in past \/
                       (~dry /\ (pc \in {"unname", "unstage_rest", "killed"} \/ (pc = "done" /\ ~ok))))
    /\ runs = 1 => "incomplete_run" \notin past
    /\ runs = 1 /\ dry => "undo_failed" \notin past /\ ("crash" \in past => pc = "killed")

\* What a dry run counts.
Counts ==
    runs = 1 /\ dry =>
        /\ pc = "visit" => count.changed =
               Cardinality({n \in DOMAIN original \ ToSet(todo) : Refers(original[n])})
        /\ pc = "done" /\ ok =>
               /\ count.changed = Cardinality({n \in DOMAIN original : Refers(original[n])})
               /\ count.renamed = Cardinality(Moving)

AInv == History /\ (Fine => Account /\ Counts)

LEMMA SameNames ==
    ASSUME UNCHANGED <<original, rows>>
    PROVE  /\ \A n : New(n)' = New(n)
           /\ UNCHANGED short => \A n, content : Renewed(n, content)' <=> Renewed(n, content)
           /\ short \subseteq short' => \A n, content : Renewed(n, content) => Renewed(n, content)'
           /\ Moving' = Moving /\ Staying' = Staying
           /\ \A n : Target(n)' = Target(n)
           /\ NamesApart' <=> NamesApart
<1>1. \A u : FindMapped(u)' = FindMapped(u)
  BY SameTable
<1>2. \A n : New(n)' = New(n)
  BY <1>1 DEF New, Rewritten
<1>8. /\ UNCHANGED short => \A n, content : Renewed(n, content)' <=> Renewed(n, content)
      /\ short \subseteq short' => \A n, content : Renewed(n, content) => Renewed(n, content)'
  BY <1>2 DEF Renewed, Cut
<1>3. Moving' = Moving
  BY <1>1 DEF Moving
<1>4. Staying' = Staying
  BY <1>3 DEF Staying
<1>5. \A n : Target(n)' = Target(n)
  BY <1>1 DEF Target
<1>6. NamesApart' <=> NamesApart
  BY <1>3, <1>4, <1>5 DEF NamesApart
<1>7. QED
  BY <1>2, <1>3, <1>4, <1>5, <1>6, <1>8

LEMMA SameFound ==
    ASSUME UNCHANGED <<original, short, rows>>,
           "incomplete_run" \in past' <=> "incomplete_run" \in past
    PROVE  /\ \A n, content : Found(n, content)' <=> Found(n, content)
           /\ dry' = dry => \A n, content : Left(n, content)' <=> Left(n, content)
<1>1. \A n, content : Renewed(n, content)' <=> Renewed(n, content)
  BY SameNames
<1>2. \A n, content : Found(n, content)' <=> Found(n, content)
  BY <1>1 DEF Found
<1>3. dry' = dry => \A n, content : Left(n, content)' <=> Left(n, content)
  BY <1>1, <1>2 DEF Left
<1>4. QED
  BY <1>2, <1>3

LEMMA FineBefore ==
    ASSUME past \subseteq past', UNCHANGED rows, Fine'
    PROVE  Fine /\ Safe
<1>1. Chained' <=> Chained
  BY SameTable
<1>2. QED
  BY <1>1 DEF Fine, Safe

\* Contents tell whose they are.
LEMMA Whose ==
    ASSUME Control, NEW n \in DOMAIN original
    PROVE  /\ New(n).of = n /\ original[n].of = n
           /\ \A content : Renewed(n, content) => content.of = n
BY DEF Control, New, Rewritten, Renewed, Cut

\* What a run finds is replaced once, and not again by a second run.
LEMMA ReplacedFound ==
    ASSUME Control, ~TableRefused(rows), Fine, NEW n \in DOMAIN original, NEW content, Found(n, content)
    PROVE  /\ Renewed(n, Replaced(content)) /\ (~Refers(content) => Renewed(n, content))
           /\ \A new : WrittenFrom(new, content) => Renewed(n, new)
<1> DEFINE u == original[n].ref
<1>1. original[n] = [of |-> n, ref |-> u] /\ u \in Uuids /\ rows \in Csvs
  BY DEF Control
<1>2. New(n) = [of |-> n, ref |-> FindMapped(u)] /\ Cut(original[n]) = [of |-> n, ref |-> Torn]
  BY <1>1 DEF New, Rewritten, Cut
<1>3. \A v : v \notin DOMAIN Mapping(rows) => FindMapped(v) = v
  BY DEF FindMapped
<1>4. FindMapped(Torn) = Torn /\ (~Chained => FindMapped(FindMapped(u)) = FindMapped(u))
  BY <1>1, Table
<1> HIDE DEF u
<1>5. PICK v : /\ content = [of |-> n, ref |-> v]
               /\ \/ v = u
                  \/ v = FindMapped(u) /\ FindMapped(v) = v
                  \/ v = Torn /\ n \in short
  <2>1. "incomplete_run" \in past => FindMapped(FindMapped(u)) = FindMapped(u)
    BY <1>4 DEF Fine
  <2>2. CASE content = original[n]
    BY <1>1, <2>2
  <2>3. CASE "incomplete_run" \in past /\ content = New(n)
    BY <1>2, <2>1, <2>3
  <2>4. CASE n \in short /\ content = Cut(original[n])
    BY <1>2, <2>4
  <2>5. QED
    BY <2>2, <2>3, <2>4 DEF Found, Renewed
<1>6. Replaced(content) = [of |-> n, ref |-> FindMapped(v)] /\ Cut(content) = [of |-> n, ref |-> Torn]
  BY <1>5 DEF Replaced, Cut
<1>7. Renewed(n, Replaced(content))
  BY <1>2, <1>4, <1>5, <1>6 DEF Renewed
<1>8. ~Refers(content) => Renewed(n, content)
  <2>1. ~Refers(content) => FindMapped(v) = v
    BY <1>3, <1>5 DEF Refers
  <2>2. QED
    BY <1>5, <1>6, <1>7, <2>1
<1>9. content.of \in short => Renewed(n, Cut(content))
  BY <1>2, <1>5, <1>6 DEF Renewed
<1>10. QED
  BY <1>7, <1>8, <1>9 DEF WrittenFrom

\* No two files are at one place.
LEMMA PlacesApart ==
    ASSUME Control, Plan, Reading \/ Renaming, Pairing, NEW place, Laid(fs, place), NEW i \in DOMAIN ops
    PROVE  /\ \A j \in DOMAIN ops : j # i => place[j] # place[i]
           /\ \A n \in Staying : At(n) # place[i]
           /\ place[i] \in DOMAIN fs
<1>1. \A j \in DOMAIN ops : Owner(j) \in DOMAIN original /\ Owner(j) \in Moving
  BY DEF Pairing, Moving
<1>2. \A j \in DOMAIN ops : fs[place[j]].of = Owner(j)
  BY <1>1, Whose DEF Laid, Holds
<1>3. \A j \in DOMAIN ops : j # i => Owner(j) # Owner(i)
  <2>1. SUFFICES ASSUME NEW j \in DOMAIN ops, j # i PROVE Owner(j) # Owner(i)
    OBVIOUS
  <2>2. ops[j].from = At(Owner(j)) /\ ops[i].from = At(Owner(i))
    BY Operation DEF Owner
  <2>3. ops[j].from # ops[i].from
    BY <2>1 DEF Plan
  <2>4. QED
    BY <2>2, <2>3
<1>4. \A n \in Staying : fs[At(n)].of = n /\ n # Owner(i)
  <2>1. SUFFICES ASSUME NEW n \in Staying PROVE fs[At(n)].of = n /\ n # Owner(i)
    OBVIOUS
  <2>2. n \in DOMAIN original /\ n # Owner(i)
    BY <1>1 DEF Staying
  <2>3. QED
    BY <2>2, Whose DEF Laid, Holds
<1>5. QED
  BY <1>2, <1>3, <1>4 DEF Laid, Holds

\* A file moves from its place to a free one.
LEMMA LaidMoved ==
    ASSUME Control, Plan, Reading \/ Renaming, Pairing,
           NEW place, Laid(fs, place), NEW i \in DOMAIN ops,
           NEW other, other[i] \notin DOMAIN fs, \A j \in DOMAIN ops : j # i => other[j] = place[j]
    PROVE  Laid(Moved(fs, place[i], other[i]), other)
<1> DEFINE g == Moved(fs, place[i], other[i])
<1>1. /\ \A j \in DOMAIN ops : j # i => place[j] # place[i]
      /\ \A n \in Staying : At(n) # place[i]
      /\ place[i] \in DOMAIN fs
  BY PlacesApart
<1>2. DOMAIN g = (DOMAIN fs \ {place[i]}) \cup {other[i]} /\ g[other[i]] = fs[place[i]]
  BY DEF Moved
<1>3. \A p \in DOMAIN fs : p # place[i] => p \in DOMAIN g /\ g[p] = fs[p]
  BY DEF Moved
<1> HIDE DEF g
<1>4. ASSUME NEW j \in DOMAIN ops PROVE Holds(g, other[j], Owner(j))
  <2>1. place[j] \in DOMAIN fs /\ Renewed(Owner(j), fs[place[j]])
    BY DEF Laid, Holds
  <2>2. CASE j = i
    BY <1>2, <2>1, <2>2 DEF Holds
  <2>3. CASE j # i
    BY <1>1, <1>3, <2>1, <2>3 DEF Holds
  <2>4. QED
    BY <2>2, <2>3
<1>5. ASSUME NEW n \in Staying PROVE Holds(g, At(n), n)
  BY <1>1, <1>3 DEF Laid, Holds
<1>6. ASSUME NEW n \in Everyone, At(n) \in DOMAIN g
      PROVE  n \in Staying \/ \E j \in DOMAIN ops : other[j] = At(n)
  <2>1. CASE At(n) = other[i]
    BY <2>1
  <2>2. CASE At(n) \in DOMAIN fs /\ At(n) # place[i]
    <3>1. n \in Staying \/ \E j \in DOMAIN ops : place[j] = At(n)
      BY <2>2 DEF Laid
    <3>2. QED
      BY <2>2, <3>1
  <2>3. QED
    BY <1>2, <1>6, <2>1, <2>2
<1>7. Laid(g, other)
  BY <1>4, <1>5, <1>6 DEF Laid
<1>8. QED
  BY <1>7 DEF g

-----------------------------------------------------------------------------
(* Account: a run that gives up before the renames.                        *)

SamePast == "incomplete_run" \in past' <=> "incomplete_run" \in past

LEMMA EndedAccount ==
    ASSUME pc' = "done", ~ok', UNCHANGED <<original, short, rows, dry>>, SamePast,
           \A n \in Everyone : At(n) \in DOMAIN fs' <=> n \in DOMAIN original,
           \A n \in DOMAIN original : Left(n, fs'[At(n)])
    PROVE  Account'
<1>1. AllThere'
  BY DEF AllThere, Present
<1>2. (\A n \in DOMAIN original : Left(n, fs[At(n)]))'
  <2>1. \A n, content : Renewed(n, content)' <=> Renewed(n, content)
    BY SameNames
  <2>2. QED
    BY <2>1 DEF Left, Found, SamePast
<1>3. AtTheEnd'
  BY <1>1, <1>2 DEF AtTheEnd
<1>4. ~(Reading' \/ Renaming') /\ WhileReading' /\ WhileStaging' /\ WhileNaming'
  BY DEF Reading, Rewriting, Renaming, WhileReading, WhileStaging, WhileNaming
<1>5. QED
  BY <1>3, <1>4 DEF Account

\* What is where while files are rewritten.
LEMMA ReadFiles ==
    ASSUME Shape, Account, Fine, Reading
    PROVE  /\ Control /\ ~TableRefused(rows) /\ DOMAIN original \subseteq Everyone
           /\ Rewriting => todo # <<>> /\ ~dry /\ Head(todo) \in ToSet(todo) /\ Head(todo) \in DOMAIN original
           /\ \A n \in Everyone : n \in DOMAIN original <=> Present(n) \/ (Aside /\ n = Head(todo))
           /\ \A n \in DOMAIN original :
                  ~(Aside /\ n = Head(todo)) => Left(n, fs[At(n)])
<1>1. /\ Control /\ ~TableRefused(rows) /\ DOMAIN original \subseteq Everyone /\ WhileReading
      /\ InUse = DOMAIN original
  BY DEF Shape, Control, Account, WhileReading
<1>2. \A n \in Everyone : n \in DOMAIN original <=> Present(n) \/ (Aside /\ n = Head(todo))
  BY <1>1 DEF InUse
<1>3. ASSUME Rewriting
      PROVE  todo # <<>> /\ ~dry /\ Head(todo) \in ToSet(todo) /\ Head(todo) \in DOMAIN original
  <2>1. todo # <<>> /\ ~dry
    BY <1>3 DEF Shape, Rewrites
  <2>2. Head(todo) \in Everyone /\ todo[1] = Head(todo) /\ 1 \in DOMAIN todo
    BY <1>1, <2>1, HeadOfTodo
  <2>3. Head(todo) \in ToSet(todo)
    BY <2>2 DEF ToSet
  <2>4. Present(Head(todo)) \/ Aside
    BY <2>2 DEF Shape, Rewrites
  <2>5. QED
    BY <1>2, <2>1, <2>2, <2>3, <2>4
<1>4. ASSUME NEW n \in DOMAIN original, ~(Aside /\ n = Head(todo))
      PROVE  Left(n, fs[At(n)])
  <2>1. CASE Found(n, fs[At(n)])
    BY <2>1 DEF Left, Found
  <2>2. CASE ~dry /\ Renewed(n, fs[At(n)])
    BY <2>2 DEF Left
  <2>3. CASE pc = "cleanup" /\ n = Head(todo)
    <3>1. WrittenFrom(fs[At(n)], fs[SetAside])
      BY <2>3 DEF Shape, Rewrites, File
    <3>2. Found(n, fs[SetAside]) /\ Rewriting
      BY <1>1, <2>3 DEF WhileReading, Reading, Rewriting
    <3>3. Renewed(n, fs[At(n)]) /\ ~dry
      BY <1>1, <1>3, <3>1, <3>2, ReplacedFound
    <3>4. QED
      BY <3>3 DEF Left
  <2>4. CASE n \in ToSet(todo) /\ ~(pc = "cleanup" /\ n = Head(todo))
    <3>1. n # Head(todo) \/ pc \in {"visit", "write", "aside"}
      BY <1>4, <2>4 DEF Reading, Rewriting, Aside
    <3>2. QED
      BY <1>1, <2>1, <2>4, <3>1 DEF WhileReading
  <2>5. CASE n \notin ToSet(todo)
    BY <1>1, <2>1, <2>2, <2>5 DEF WhileReading
  <2>6. QED
    BY <2>3, <2>4, <2>5
<1>5. QED
  BY <1>1, <1>2, <1>3, <1>4

\* The files the game looks at are the same.
SameAt(f, g) ==
    \A n \in Everyone : /\ At(n) \in DOMAIN g <=> At(n) \in DOMAIN f
                        /\ At(n) \in DOMAIN f => g[At(n)] = f[At(n)]

LEMMA SiblingsDoNotMatter ==
    ASSUME NEW f, NEW p, p[2] # "file"
    PROVE  SameAt(f, Without(f, p)) /\ \A content : SameAt(f, Put(f, p, content))
<1>1. \A n : At(n) # p
  BY AtFacts
<1>2. SameAt(f, Without(f, p))
  <2>1. DOMAIN Without(f, p) = DOMAIN f \ {p} /\ \A q \in DOMAIN f \ {p} : Without(f, p)[q] = f[q]
    BY WithoutFile
  <2>2. QED
    BY <1>1, <2>1 DEF SameAt
<1>3. ASSUME NEW content PROVE SameAt(f, Put(f, p, content))
  BY <1>1 DEF SameAt, Put
<1>4. QED
  BY <1>2, <1>3

LEMMA SiblingKinds ==
    Temporary[2] = "write" /\ Written[2] = "write" /\ Backup[2] = "backup" /\ SetAside[2] = "backup"
BY SiblingNames

LEMMA GivesUp ==
    ASSUME Shape, Account, Fine, Reading, ~Aside, pc' = "done", ~ok',
           UNCHANGED <<original, short, rows, dry>>, SamePast, SameAt(fs, fs')
    PROVE  Account'
<1>1. \A n \in Everyone : At(n) \in DOMAIN fs' <=> n \in DOMAIN original
  BY ReadFiles DEF SameAt, Present
<1>2. ASSUME NEW n \in DOMAIN original PROVE Left(n, fs'[At(n)])
  <2>1. n \in Everyone /\ Left(n, fs[At(n)]) /\ At(n) \in DOMAIN fs
    BY ReadFiles DEF Present
  <2>2. QED
    BY <2>1 DEF SameAt
<1>3. QED
  BY <1>1, <1>2, EndedAccount

LEMMA GivesUpAccount ==
    ASSUME Shape, Account, Fine, CannotRead \/ CannotWrite \/ CannotPutAside
    PROVE  Account'
<1>1. Reading /\ ~Aside
  BY DEF CannotRead, CannotWrite, CannotPutAside, Reading, Rewriting, Aside
<1>2. pc' = "done" /\ ~ok' /\ UNCHANGED <<original, short, rows, dry>> /\ SamePast
  BY DEF CannotRead, CannotWrite, CannotPutAside, Fail, given, SamePast
<1>3. SameAt(fs, fs')
  <2>1. CASE fs' = fs
    BY <2>1 DEF SameAt
  <2>2. CASE fs' = TornTemporary
    <3>1. fs' = Put(fs, Temporary, Cut(fs[File]))
      BY <2>2 DEF TornTemporary, Put
    <3>2. QED
      BY <3>1, SiblingKinds, SiblingsDoNotMatter
  <2>3. CASE fs' = Without(fs, Written)
    BY <2>3, SiblingKinds, SiblingsDoNotMatter
  <2>4. QED
    BY <2>1, <2>2, <2>3 DEF CannotRead, CannotWrite, CannotPutAside
<1>4. QED
  BY <1>1, <1>2, <1>3, GivesUp

LEMMA RefuseAccount ==
    ASSUME Account, Refuse
    PROVE  Account'
<1>1. /\ pc = "start" /\ pc' = "done" /\ ~ok' /\ UNCHANGED <<fs, original, short, rows, dry>> /\ SamePast
  BY DEF Refuse, Fail, given, SamePast
<1>2. AllThere /\ \A n \in DOMAIN original : Found(n, fs[At(n)])
  BY <1>1 DEF Account, AtTheEnd
<1>3. \A n \in DOMAIN original : Left(n, fs[At(n)])
  BY <1>2 DEF Left, Found
<1>4. QED
  BY <1>1, <1>2, <1>3, EndedAccount DEF AllThere, Present

LEMMA RestoreAccount ==
    ASSUME Shape, Account, Fine, Fine', Restore
    PROVE  Account'
<1> DEFINE moved == Moved(fs, SetAside, File)
<1>1. pc = "restore" /\ pc' = "done" /\ ~ok' /\ UNCHANGED <<original, short, rows, dry>>
  BY DEF Restore, Fail, given
<1>2. fs' \in {moved, Without(moved, Written)} /\ SamePast
  BY DEF Restore, Fine, SamePast
<1>3. Aside /\ Reading /\ Rewriting
  BY <1>1 DEF Aside, Reading, Rewriting
<1>4. /\ File = At(Head(todo)) /\ SetAside \in DOMAIN fs /\ Head(todo) \in DOMAIN original
      /\ Found(Head(todo), fs[SetAside]) /\ File # SetAside /\ Head(todo) \in Everyone
  <2>1. Head(todo) \in DOMAIN original /\ DOMAIN original \subseteq Everyone
    BY <1>3, ReadFiles
  <2>2. Found(Head(todo), fs[SetAside])
    BY <1>1, <1>3 DEF Account, WhileReading
  <2>3. File = At(Head(todo)) /\ SetAside \in DOMAIN fs /\ File # SetAside
    BY <1>3, FileAside DEF File
  <2>4. QED
    BY <2>1, <2>2, <2>3
<1>5. \A n \in Everyone : At(n) # SetAside /\ (n # Head(todo) => At(n) # File)
  <2>1. \A n : At(n) # SetAside
    BY AtFacts, SiblingKinds
  <2>2. QED
    BY <1>4, <2>1, AtFacts
<1>6. /\ DOMAIN moved = (DOMAIN fs \ {SetAside}) \cup {File}
      /\ moved[File] = fs[SetAside]
      /\ \A p \in DOMAIN fs : p # SetAside /\ p # File => moved[p] = fs[p]
  BY DEF Moved
<1> HIDE DEF moved
<1>7. ASSUME NEW n \in Everyone
      PROVE  /\ At(n) \in DOMAIN moved <=> n \in DOMAIN original
             /\ n \in DOMAIN original => Left(n, moved[At(n)])
  <2>1. n \in DOMAIN original <=> Present(n) \/ (Aside /\ n = Head(todo))
    BY <1>3, ReadFiles
  <2>2. CASE n = Head(todo)
    <3>1. Left(n, fs[SetAside])
      BY <1>4, <2>2 DEF Left, Found
    <3>2. QED
      BY <1>4, <1>6, <2>2, <3>1
  <2>3. CASE n # Head(todo)
    <3>1. At(n) \in DOMAIN moved <=> Present(n)
      BY <1>5, <1>6, <2>3 DEF Present
    <3>2. Present(n) => moved[At(n)] = fs[At(n)]
      BY <1>5, <1>6, <2>3 DEF Present
    <3>3. n \in DOMAIN original => Left(n, fs[At(n)])
      BY <1>3, <2>3, ReadFiles
    <3>4. QED
      BY <2>1, <2>3, <3>1, <3>2, <3>3
  <2>4. QED
    BY <2>2, <2>3
<1>8. SameAt(moved, fs')
  <2>1. CASE fs' = moved
    BY <2>1 DEF SameAt
  <2>2. CASE fs' = Without(moved, Written)
    BY <2>2, SiblingKinds, SiblingsDoNotMatter
  <2>3. QED
    BY <1>2, <2>1, <2>2
<1>9. \A n \in Everyone : At(n) \in DOMAIN fs' <=> n \in DOMAIN original
  BY <1>7, <1>8 DEF SameAt
<1>10. ASSUME NEW n \in DOMAIN original PROVE Left(n, fs'[At(n)])
  <2>1. n \in Everyone
    BY <1>3, ReadFiles
  <2>2. fs'[At(n)] = moved[At(n)]
    BY <1>7, <1>8, <2>1 DEF SameAt
  <2>3. QED
    BY <1>7, <2>1, <2>2
<1>11. QED
  BY <1>1, <1>2, <1>9, <1>10, EndedAccount

-----------------------------------------------------------------------------
(* Account: the steps before the renames.                                  *)

LEMMA TailOfTodo ==
    ASSUME Shape, Reading, todo # <<>>
    PROVE  /\ Head(todo) \in ToSet(todo)
           /\ \A n : n \in ToSet(Tail(todo)) <=> n \in ToSet(todo) /\ n # Head(todo)
<1>1. todo \in Seq(Everyone) /\ \A i, j \in DOMAIN todo : i # j => todo[i] # todo[j]
  BY DEF Shape, Control, Rewrites
<1>2. /\ Len(todo) \in Nat \ {0} /\ DOMAIN todo = 1 .. Len(todo) /\ todo[1] = Head(todo) /\ 1 \in DOMAIN todo
  BY HeadOfTodo DEF Shape
<1>3. /\ DOMAIN Tail(todo) = 1 .. Len(todo) - 1
      /\ \A i \in 1 .. Len(todo) - 1 : Tail(todo)[i] = todo[i + 1] /\ i + 1 \in DOMAIN todo /\ i + 1 # 1
  <2>1. Tail(todo) \in Seq(Everyone) /\ Len(Tail(todo)) = Len(todo) - 1
    BY <1>1, <1>2
  <2>2. \A i \in 1 .. Len(todo) - 1 : Tail(todo)[i] = todo[i + 1]
    BY <1>1, <1>2
  <2>3. \A i \in 1 .. Len(todo) - 1 : i + 1 \in 1 .. Len(todo) /\ i + 1 # 1
    BY <1>2
  <2>4. QED
    BY <1>2, <2>1, <2>2, <2>3
<1>4. ASSUME NEW n \in ToSet(Tail(todo)) PROVE n \in ToSet(todo) /\ n # Head(todo)
  <2>1. PICK i \in DOMAIN Tail(todo) : Tail(todo)[i] = n
    BY DEF ToSet
  <2>2. i + 1 \in DOMAIN todo /\ n = todo[i + 1] /\ i + 1 # 1
    BY <1>3, <2>1
  <2>3. n # todo[1]
    BY <1>1, <1>2, <2>2
  <2>4. QED
    BY <1>2, <2>2, <2>3 DEF ToSet
<1>5. ASSUME NEW n \in ToSet(todo), n # Head(todo) PROVE n \in ToSet(Tail(todo))
  <2>1. PICK i \in DOMAIN todo : todo[i] = n
    BY DEF ToSet
  <2>2. i # 1 /\ i \in 1 .. Len(todo)
    BY <1>2, <1>5, <2>1
  <2>3. i - 1 \in 1 .. Len(todo) - 1 /\ (i - 1) + 1 = i
    BY <1>2, <2>2
  <2>4. i - 1 \in DOMAIN Tail(todo) /\ Tail(todo)[i - 1] = n
    BY <1>3, <2>1, <2>3
  <2>5. QED
    BY <2>4 DEF ToSet
<1>6. Head(todo) \in ToSet(todo)
  BY <1>2 DEF ToSet
<1>7. QED
  BY <1>4, <1>5, <1>6

\* Steps after which Run is still before the renames.
LEMMA StillReadingAccount ==
    ASSUME Account, Reading, Reading', UNCHANGED <<original, rows, dry, ops>>, SamePast,
           short \subseteq short',
           \A n \in Everyone : n \in InUse' <=> n \in InUse,
           \A n \in DOMAIN original :
               /\ n \in ToSet(todo') /\ (n # Head(todo') \/ pc' \in {"visit", "write", "aside"}) =>
                      Found(n, fs'[At(n)])
               /\ n \notin ToSet(todo') => IF dry THEN Found(n, fs'[At(n)])
                                                ELSE Renewed(n, fs'[At(n)]),
           pc' \in {"install", "restore", "cleanup"} => Found(Head(todo'), fs'[SetAside'])
    PROVE  Account'
<1>1. /\ \A n, content : Renewed(n, content) => Renewed(n, content)'
      /\ Moving' = Moving /\ Staying' = Staying
      /\ \A n : Target(n)' = Target(n)
      /\ NamesApart' <=> NamesApart
  BY SameNames
<1>2. (NamesApart /\ Pairing)'
  <2>1. NamesApart /\ Pairing
    BY DEF Account
  <2>2. \A i : Owner(i)' = Owner(i)
    BY DEF Owner
  <2>3. QED
    BY <1>1, <2>1, <2>2 DEF Pairing
<1>3. InUse' = DOMAIN original'
  <2>1. InUse = DOMAIN original
    BY DEF Account, WhileReading
  <2>2. InUse \subseteq Everyone /\ InUse' \subseteq Everyone
    BY DEF InUse
  <2>3. QED
    BY <2>1, <2>2
<1>4. \A n, content : Found(n, content) => Found(n, content)'
  BY <1>1 DEF Found, SamePast
<1>5. WhileReading'
  <2>1. \A n : Found(n, fs'[At(n)]) => Found(n, fs[At(n)])'
    BY <1>1 DEF Found, SamePast
  <2>2. Found(Head(todo'), fs'[SetAside']) => Found(Head(todo), fs[SetAside])'
    BY <1>1 DEF Found, SamePast
  <2>4. \A n : Renewed(n, fs'[At(n)]) => Renewed(n, fs[At(n)])'
    BY <1>1
  <2>3. QED
    BY <1>3, <2>1, <2>2, <2>4 DEF WhileReading
<1>6. WhileStaging' /\ WhileNaming' /\ AtTheEnd' /\ ~Renaming'
  BY DEF Reading, Rewriting, Renaming, WhileStaging, WhileNaming, AtTheEnd
<1>7. QED
  BY <1>2, <1>5, <1>6 DEF Account

LEMMA VisitAccount ==
    ASSUME Shape, Account, Fine, Visit
    PROVE  Account'
<1>1. /\ pc = "visit" /\ todo # <<>> /\ UNCHANGED <<fs, original, short, rows, dry, ops, past>>
      /\ \/ pc' = "write" /\ todo' = todo /\ ~dry
         \/ pc' = "visit" /\ todo' = Tail(todo) /\ (Refers(fs[File]) => dry)
  BY DEF Visit, given
<1>2. Reading /\ Reading' /\ ~Aside /\ ~Aside' /\ SamePast
  BY <1>1 DEF Reading, Rewriting, Aside, SamePast
<1>3. \A n \in Everyone : n \in InUse' <=> n \in InUse
  BY <1>1, <1>2 DEF InUse, Present
<1>4. ASSUME NEW n \in DOMAIN original
      PROVE  /\ n \in ToSet(todo) => Found(n, fs[At(n)])
             /\ n \notin ToSet(todo) => IF dry THEN Found(n, fs[At(n)]) ELSE Renewed(n, fs[At(n)])
  BY <1>1, <1>2 DEF Account, WhileReading
<1>5. CASE pc' = "write" /\ todo' = todo
  BY <1>1, <1>2, <1>3, <1>4, <1>5, StillReadingAccount
<1>6. CASE pc' = "visit" /\ todo' = Tail(todo) /\ (Refers(fs[File]) => dry)
  <2>1. ASSUME NEW n \in DOMAIN original
        PROVE  /\ n \in ToSet(todo') => Found(n, fs[At(n)])
               /\ n \notin ToSet(todo') => IF dry THEN Found(n, fs[At(n)]) ELSE Renewed(n, fs[At(n)])
    <3>1. n \in ToSet(todo') <=> n \in ToSet(todo) /\ n # Head(todo)
      BY <1>1, <1>2, <1>6, TailOfTodo
    <3>2. ASSUME n = Head(todo), ~dry PROVE Renewed(n, fs[At(n)])
      <4>1. Found(n, fs[At(n)])
        BY <1>1, <1>2, <1>4, <3>2, TailOfTodo
      <4>2. Control /\ ~TableRefused(rows)
        BY <1>2, ReadFiles
      <4>3. ~Refers(fs[At(n)])
        BY <1>6, <3>2 DEF File
      <4>4. QED
        BY <4>1, <4>2, <4>3, ReplacedFound
    <3>3. n = Head(todo) => Found(n, fs[At(n)])
      BY <1>1, <1>2, <1>4, TailOfTodo
    <3>4. QED
      BY <1>4, <3>1, <3>2, <3>3
  <2>2. QED
    BY <1>1, <1>2, <1>3, <1>6, <2>1, StillReadingAccount
<1>7. QED
  BY <1>1, <1>5, <1>6

LEMMA WriteTemporaryAccount ==
    ASSUME Shape, Account, Fine, WriteTemporary \/ WriteShort
    PROVE  Account'
<1>1. /\ pc = "write" /\ pc' = "aside" /\ UNCHANGED <<original, rows, dry, todo, ops, past>>
      /\ short \subseteq short' /\ \E content : fs' = Put(fs, Temporary, content)
  BY WriteFiles
<1>2. Reading /\ Reading' /\ ~Aside /\ ~Aside' /\ SamePast
  BY <1>1 DEF Reading, Rewriting, Aside, SamePast
<1>3. SameAt(fs, fs')
  BY <1>1, SiblingKinds, SiblingsDoNotMatter
<1>4. \A n \in Everyone : n \in InUse' <=> n \in InUse
  BY <1>2, <1>3 DEF InUse, Present, SameAt
<1>5. ASSUME NEW n \in DOMAIN original PROVE fs'[At(n)] = fs[At(n)]
  <2>1. n \in Everyone /\ Present(n)
    BY <1>2, ReadFiles
  <2>2. QED
    BY <1>3, <2>1 DEF SameAt, Present
<1>6. ASSUME NEW n \in DOMAIN original
      PROVE  /\ n \in ToSet(todo) => Found(n, fs'[At(n)])
             /\ n \notin ToSet(todo) => IF dry THEN Found(n, fs'[At(n)]) ELSE Renewed(n, fs'[At(n)])
  BY <1>1, <1>2, <1>5 DEF Account, WhileReading
<1>7. QED
  BY <1>1, <1>2, <1>4, <1>6, StillReadingAccount

LEMMA PutAsideAccount ==
    ASSUME Shape, Account, Fine, PutAside
    PROVE  Account'
<1>1. /\ pc = "aside" /\ pc' = "install" /\ UNCHANGED <<original, short, rows, dry, todo, ops, past>>
  BY DEF PutAside, given
<1>2. Reading /\ Reading' /\ ~Aside /\ Aside' /\ SamePast /\ Rewriting
  BY <1>1 DEF Reading, Rewriting, Aside, SamePast
<1>3. /\ todo # <<>> /\ File \in DOMAIN fs /\ File # Backup /\ Backup[2] = "backup"
      /\ DOMAIN fs' = (DOMAIN fs \ {File}) \cup {Backup} /\ fs'[Backup] = fs[File]
      /\ \A p \in DOMAIN fs : p # File /\ p # Backup => fs'[p] = fs[p]
      /\ SetAside' = Backup
  BY PutAsideFiles
<1>4. File = At(Head(todo))
  BY DEF File
<1>5. \A n : At(n) # Backup /\ (n # Head(todo) => At(n) # File)
  <2>1. \A n : At(n)[2] = "file"
    BY AtFacts
  <2>2. QED
    BY <1>3, <1>4, <2>1, AtFacts
<1>6. \A n : /\ n # Head(todo) => (At(n) \in DOMAIN fs' <=> At(n) \in DOMAIN fs)
             /\ n # Head(todo) /\ At(n) \in DOMAIN fs => fs'[At(n)] = fs[At(n)]
  BY <1>3, <1>5
<1>7. \A n \in Everyone : n \in InUse' <=> n \in InUse
  <2>1. Present(Head(todo))
    BY <1>3, <1>4 DEF Present
  <2>2. QED
    BY <1>1, <1>2, <1>6, <2>1 DEF InUse, Present
<1>8. Head(todo) \in ToSet(todo) /\ Head(todo) \in DOMAIN original
  BY <1>2, ReadFiles
<1>9. ASSUME NEW n \in DOMAIN original
      PROVE  /\ n \in ToSet(todo) => Found(n, fs[At(n)])
             /\ n \notin ToSet(todo) => IF dry THEN Found(n, fs[At(n)]) ELSE Renewed(n, fs[At(n)])
             /\ At(n) \in DOMAIN fs
  <2>1. Present(n)
    BY <1>2, ReadFiles
  <2>2. QED
    BY <1>1, <1>2, <2>1 DEF Account, WhileReading, Present
<1>10. ASSUME NEW n \in DOMAIN original
       PROVE  /\ n \in ToSet(todo) /\ n # Head(todo) => Found(n, fs'[At(n)])
              /\ n \notin ToSet(todo) => IF dry THEN Found(n, fs'[At(n)]) ELSE Renewed(n, fs'[At(n)])
  BY <1>6, <1>8, <1>9
<1>11. Found(Head(todo'), fs'[SetAside'])
  BY <1>1, <1>3, <1>4, <1>8, <1>9
<1>12. QED
  BY <1>1, <1>2, <1>7, <1>10, <1>11, StillReadingAccount

LEMMA InstallAccount ==
    ASSUME Shape, Account, Fine, Install
    PROVE  Account'
<1>1. /\ pc = "install" /\ pc' = "cleanup" /\ UNCHANGED <<original, short, rows, dry, todo, ops, past>>
  BY DEF Install, given
<1>2. Reading /\ Reading' /\ Aside /\ ~Aside' /\ SamePast /\ Rewriting
  BY <1>1 DEF Reading, Rewriting, Aside, SamePast
<1>3. /\ File = At(Head(todo)) /\ SetAside # Written /\ SetAside # File
      /\ Written[2] = "write" /\ SetAside \in DOMAIN fs
      /\ DOMAIN fs' = (DOMAIN fs \ {Written}) \cup {File}
      /\ \A p \in DOMAIN fs : p # Written => fs'[p] = fs[p]
      /\ SetAside' = SetAside
  BY InstallFiles
<1>4. \A n : At(n) # Written /\ (n # Head(todo) => At(n) # File)
  <2>1. \A n : At(n)[2] = "file"
    BY AtFacts
  <2>2. QED
    BY <1>3, <2>1, AtFacts
<1>5. \A n : /\ n # Head(todo) => (At(n) \in DOMAIN fs' <=> At(n) \in DOMAIN fs)
             /\ At(n) \in DOMAIN fs => fs'[At(n)] = fs[At(n)]
  BY <1>3, <1>4
<1>6. \A n \in Everyone : n \in InUse' <=> n \in InUse
  <2>1. At(Head(todo)) \in DOMAIN fs'
    BY <1>3
  <2>2. QED
    BY <1>1, <1>2, <1>5, <2>1 DEF InUse, Present
<1>7. Head(todo) \in ToSet(todo) /\ Head(todo) \in DOMAIN original
  BY <1>2, ReadFiles
<1>8. ASSUME NEW n \in DOMAIN original, n # Head(todo)
      PROVE  /\ n \in ToSet(todo) => Found(n, fs'[At(n)])
             /\ n \notin ToSet(todo) => IF dry THEN Found(n, fs'[At(n)]) ELSE Renewed(n, fs'[At(n)])
  <2>1. Present(n)
    BY <1>2, <1>8, ReadFiles
  <2>2. fs'[At(n)] = fs[At(n)]
    BY <1>5, <2>1 DEF Present
  <2>3. QED
    BY <1>2, <1>8, <2>2 DEF Account, WhileReading
<1>9. Found(Head(todo), fs'[SetAside])
  <2>1. Found(Head(todo), fs[SetAside])
    BY <1>1, <1>2 DEF Account, WhileReading
  <2>2. QED
    BY <1>3, <2>1
<1>10. QED
  BY <1>1, <1>2, <1>3, <1>6, <1>7, <1>8, <1>9, StillReadingAccount

LEMMA CannotInstallAccount ==
    ASSUME Shape, Account, Fine, CannotInstall
    PROVE  Account'
<1>1. /\ pc = "install" /\ pc' = "restore"
      /\ UNCHANGED <<fs, original, short, rows, dry, todo, ops, past>>
  BY DEF CannotInstall, given
<1>2. Reading /\ Reading' /\ Aside /\ Aside' /\ SamePast
  BY <1>1 DEF Reading, Rewriting, Aside, SamePast
<1>3. \A n \in Everyone : n \in InUse' <=> n \in InUse
  BY <1>1, <1>2 DEF InUse, Present
<1>4. SetAside' = SetAside
  BY <1>1 DEF SetAside, Backup, Sibling
<1>5. WhileReading
  BY DEF Account
<1>6. QED
  BY <1>1, <1>2, <1>3, <1>4, <1>5, StillReadingAccount DEF WhileReading

LEMMA RemoveBackupAccount ==
    ASSUME Shape, Account, Fine, RemoveBackup
    PROVE  Account'
<1>1. pc = "cleanup" /\ UNCHANGED <<original, short, rows, dry, ops, past>>
  BY DEF RemoveBackup, given
<1>2. Reading /\ ~Aside /\ SamePast /\ Rewriting
  BY <1>1 DEF Reading, Rewriting, Aside, SamePast
<1>3. CASE pc' = "done" /\ ~ok' /\ fs' = fs
  <2>1. SameAt(fs, fs')
    BY <1>3 DEF SameAt
  <2>2. QED
    BY <1>1, <1>2, <1>3, <2>1, GivesUp
<1>4. CASE fs' = Without(fs, SetAside) /\ todo' = Tail(todo) /\ pc' = "visit"
  <2>1. SameAt(fs, fs')
    BY <1>4, SiblingKinds, SiblingsDoNotMatter
  <2>2. Reading' /\ ~Aside'
    BY <1>4 DEF Reading, Aside
  <2>3. \A n \in Everyone : n \in InUse' <=> n \in InUse
    BY <1>2, <2>1, <2>2 DEF InUse, Present, SameAt
  <2>4. ASSUME NEW n \in DOMAIN original
        PROVE  /\ n \in ToSet(todo') => Found(n, fs'[At(n)])
               /\ n \notin ToSet(todo') => IF dry THEN Found(n, fs'[At(n)]) ELSE Renewed(n, fs'[At(n)])
    <3>1. todo # <<>> /\ ~dry /\ Control /\ ~TableRefused(rows)
      BY <1>2, ReadFiles
    <3>2. n \in ToSet(todo') <=> n \in ToSet(todo) /\ n # Head(todo)
      BY <1>2, <1>4, <3>1, TailOfTodo
    <3>3. fs'[At(n)] = fs[At(n)]
      <4>1. n \in Everyone /\ Present(n)
        BY <1>2, ReadFiles
      <4>2. QED
        BY <2>1, <4>1 DEF SameAt, Present
    <3>4. n = Head(todo) => Renewed(n, fs[At(n)])
      <4>1. SUFFICES ASSUME n = Head(todo) PROVE Renewed(n, fs[At(n)])
        OBVIOUS
      <4>2. WrittenFrom(fs[At(n)], fs[SetAside])
        BY <1>1, <4>1 DEF Shape, Rewrites, File
      <4>3. Found(n, fs[SetAside])
        BY <1>1, <1>2, <4>1 DEF Account, WhileReading
      <4>4. QED
        BY <3>1, <4>2, <4>3, ReplacedFound
    <3>5. n # Head(todo) => /\ n \in ToSet(todo) => Found(n, fs[At(n)])
                            /\ n \notin ToSet(todo) => Renewed(n, fs[At(n)])
      BY <1>2, <3>1 DEF Account, WhileReading
    <3>6. QED
      BY <3>1, <3>2, <3>3, <3>4, <3>5
  <2>5. QED
    BY <1>1, <1>2, <1>4, <2>2, <2>3, <2>4, StillReadingAccount
<1>5. QED
  BY <1>3, <1>4 DEF RemoveBackup, Fail

-----------------------------------------------------------------------------
(* Account: the beginning, a new run, the beginning of the renames.        *)

LEMMA InitAccount == Init => Account
<1> SUFFICES ASSUME Init PROVE Account
  OBVIOUS
<1>1. pc = "start" /\ fs = [p \in {At(n) : n \in DOMAIN original} |-> original[p[1]]]
  BY DEF Init
<1>2. DOMAIN fs = {At(n) : n \in DOMAIN original} /\ \A n \in DOMAIN original : fs[At(n)] = original[n]
  BY <1>1, AtFacts
<1>3. AllThere
  BY <1>2, AtFacts DEF AllThere, Present
<1>4. \A n \in DOMAIN original : Found(n, fs[At(n)])
  BY <1>2 DEF Found
<1>5. ~Reading /\ ~Renaming
  BY <1>1 DEF Reading, Rewriting, Renaming
<1>6. QED
  BY <1>1, <1>3, <1>4, <1>5 DEF Account, AtTheEnd, WhileReading, WhileStaging, WhileNaming

\* The files that Run lists are those of the world.
LEMMA StartTodo ==
    ASSUME Shape, Account, Start
    PROVE  ToSet(todo') = DOMAIN original
<1> DEFINE Here == {n \in Names \cup {Level} : Present(n)}
<1>1. pc = "start" /\ todo' = InOrder(Here)
  BY DEF Start
<1>2. Here = DOMAIN original
  <2>1. AllThere
    BY <1>1 DEF Account, AtTheEnd
  <2>2. DOMAIN original \subseteq Everyone
    BY DEF Shape, Control
  <2>3. QED
    BY <2>1, <2>2 DEF AllThere, Everyone
<1>3. Here \in SUBSET Nat /\ IsFiniteSet(Here)
  <2>1. IsFiniteSet(Names \cup {Level})
    BY UuidConstants, FS_AddElement
  <2>2. Here \in SUBSET (Names \cup {Level}) /\ Names \cup {Level} \in SUBSET Nat
    BY UuidConstants DEF Level
  <2> HIDE DEF Here
  <2>3. QED
    BY <2>1, <2>2, FS_Subset
<1> HIDE DEF Here
<1>4. /\ todo' \in [1 .. Cardinality(Here) -> Here]
      /\ \A n \in Here : \E i \in 1 .. Cardinality(Here) : todo'[i] = n
  BY <1>1, <1>3, Ordered
<1>5. ToSet(todo') = Here
  BY <1>4 DEF ToSet
<1>6. QED
  BY <1>2, <1>5

LEMMA StartAccount ==
    ASSUME Shape, Account, Start
    PROVE  Account'
<1>1. /\ pc = "start" /\ ~TableRefused(rows) /\ ~PlanRefused /\ pc' = "visit"
      /\ ops' = Planned /\ UNCHANGED <<fs, original, short, rows, dry, past>>
  BY DEF Start, given
<1>2. AllThere /\ (\A n \in DOMAIN original : Found(n, fs[At(n)])) /\ DOMAIN original \subseteq Everyone
  BY <1>1 DEF Account, AtTheEnd, Shape, Control
<1>3. Renamed = Moving
  BY <1>2 DEF Renamed, Moving, AllThere, Everyone
<1>4. NamesApart
  <2>1. \A m, n \in Moving : m # n => Target(m) # Target(n)
    BY <1>1, <1>3 DEF PlanRefused
  <2>2. ASSUME NEW n \in Moving, Target(n) \in Staying PROVE FALSE
    <3>1. Target(n) \notin Renamed /\ Target(n) \in DOMAIN original
      BY <1>3, <2>2 DEF Staying
    <3>2. Present(Target(n))
      BY <1>2, <3>1 DEF AllThere
    <3>3. QED
      BY <1>1, <1>3, <3>1, <3>2 DEF PlanRefused, TargetTaken
  <2>3. QED
    BY <2>1, <2>2 DEF NamesApart
<1>5. /\ \A n, content : Renewed(n, content)' <=> Renewed(n, content)
      /\ \A n : Target(n)' = Target(n)
      /\ Moving' = Moving /\ NamesApart'
  BY <1>1, <1>4, SameNames
<1>6. Pairing'
  <2>1. /\ \A i \in DOMAIN Planned : \E n \in Renamed :
               Planned[i].from = At(n) /\ Planned[i].to = At(Target(n))
        /\ \A n \in Renamed : \E i \in DOMAIN Planned : Planned[i].from = At(n)
    BY <1>1, PlanMade
  <2>2. \A i \in DOMAIN Planned : Planned[i].from[1] \in Moving
                                  /\ Planned[i].to = At(Target(Planned[i].from[1]))
    BY <1>3, <2>1, AtFacts
  <2>3. \A n \in Moving : \E i \in DOMAIN Planned : Planned[i].from[1] = n
    BY <1>3, <2>1, AtFacts
  <2>4. QED
    BY <1>1, <1>5, <2>2, <2>3 DEF Pairing, Owner
<1>7. ~Aside' /\ ~Renaming'
  BY <1>1 DEF Aside, Renaming
<1>8. (InUse = DOMAIN original)'
  BY <1>1, <1>2, <1>7 DEF InUse, AllThere, Present
<1>9. WhileReading'
  <2>1. ToSet(todo') = DOMAIN original
    BY StartTodo
  <2>2. \A n \in DOMAIN original : Found(n, fs[At(n)])'
    BY <1>1, <1>2, <1>5 DEF Found
  <2>3. QED
    BY <1>1, <1>8, <2>1, <2>2 DEF WhileReading
<1>10. WhileStaging' /\ WhileNaming' /\ AtTheEnd'
  BY <1>1 DEF WhileStaging, WhileNaming, AtTheEnd
<1>11. QED
  BY <1>5, <1>6, <1>9, <1>10 DEF Account

\* After an error, or a dry run, the tool is started again.
LEMMA RunAgainAccount ==
    ASSUME Account, History, Fine, Fine', RunAgain
    PROVE  Account'
<1>1. /\ pc' = "start" /\ UNCHANGED <<fs, original, short, rows>>
      /\ past' = IF dry THEN past ELSE past \cup {"incomplete_run"}
      /\ pc = "killed" \/ (pc = "done" /\ (~ok \/ dry))
  BY DEF RunAgain
<1>2. pc = "done" /\ (~ok \/ dry)
  BY <1>1 DEF History, Fine
<1>3. AllThere /\ \A n \in DOMAIN original : Left(n, fs[At(n)])
  BY <1>2 DEF Account, AtTheEnd
<1>4. \A n, content : Renewed(n, content)' <=> Renewed(n, content)
  BY <1>1, SameNames
<1>5. AllThere'
  BY <1>1, <1>3 DEF AllThere, Present
<1>6. (\A n \in DOMAIN original : Found(n, fs[At(n)]))'
  BY <1>1, <1>3, <1>4 DEF Left, Found
<1>7. ~Reading' /\ ~Renaming'
  BY <1>1 DEF Reading, Rewriting, Renaming
<1>8. QED
  BY <1>1, <1>5, <1>6, <1>7 DEF Account, AtTheEnd, WhileReading, WhileStaging, WhileNaming

\* Steps after which Run is among the renames.
LEMMA StillRenamingAccount ==
    ASSUME Account, Reading \/ Renaming, Renaming', UNCHANGED <<original, short, rows, dry>>,
           DOMAIN ops' = DOMAIN ops, Len(ops') = Len(ops),
           \A i \in DOMAIN ops : ops'[i].from = ops[i].from /\ ops'[i].to = ops[i].to,
           pc' = "stage" => Laid(fs', [i \in DOMAIN ops |-> ops'[i].tmp]),
           pc' = "unstage" =>
               Laid(fs', [i \in DOMAIN ops |-> IF i <= k' THEN ops'[i].tmp ELSE ops[i].from]),
           pc' = "name" =>
               Laid(fs', [i \in DOMAIN ops |-> IF i < k' THEN ops[i].to ELSE ops'[i].tmp]),
           pc' = "unname" => \E installed \in k' .. Len(ops) :
               /\ \A i \in DOMAIN ops : ops'[i].tmp \in DOMAIN fs' <=> i > installed
               /\ Laid(fs', [i \in DOMAIN ops |-> IF i <= k' THEN ops[i].to ELSE
                                                  IF i <= installed THEN ops[i].from ELSE ops'[i].tmp]),
           pc' = "unstage_rest" =>
               Laid(fs', [i \in DOMAIN ops |-> IF i < k' THEN ops[i].from ELSE ops'[i].tmp])
    PROVE  Account'
<1>1. /\ \A n, content : Renewed(n, content)' <=> Renewed(n, content)
      /\ \A n : Target(n)' = Target(n)
      /\ Moving' = Moving /\ Staying' = Staying
      /\ NamesApart' <=> NamesApart
  BY SameNames
<1>2. \A i \in DOMAIN ops : Owner(i)' = Owner(i)
  BY DEF Owner
<1>3. (NamesApart /\ Pairing)'
  <2>1. NamesApart /\ Pairing
    BY DEF Account
  <2>2. QED
    BY <1>1, <1>2, <2>1 DEF Pairing
<1>4. ASSUME pc' = "stage" PROVE Laid(fs, [i \in DOMAIN ops |-> ops[i].tmp])'
  BY <1>1, <1>2, <1>4 DEF Laid, Holds
<1>5. ASSUME pc' = "unstage"
      PROVE  Laid(fs, [i \in DOMAIN ops |-> IF i <= k THEN ops[i].tmp ELSE ops[i].from])'
  BY <1>1, <1>2, <1>5 DEF Laid, Holds
<1>6. ASSUME pc' = "name"
      PROVE  Laid(fs, [i \in DOMAIN ops |-> IF i < k THEN ops[i].to ELSE ops[i].tmp])'
  BY <1>1, <1>2, <1>6 DEF Laid, Holds
<1>7. ASSUME pc' = "unname"
      PROVE  (\E installed \in k .. Len(ops) :
                /\ \A i \in DOMAIN ops : Waiting(i) <=> i > installed
                /\ Laid(fs, [i \in DOMAIN ops |-> IF i <= k THEN ops[i].to ELSE
                                             IF i <= installed THEN ops[i].from ELSE ops[i].tmp]))'
  <2>1. PICK installed \in k' .. Len(ops) :
               /\ \A i \in DOMAIN ops : ops'[i].tmp \in DOMAIN fs' <=> i > installed
               /\ Laid(fs', [i \in DOMAIN ops |-> IF i <= k' THEN ops[i].to ELSE
                                                  IF i <= installed THEN ops[i].from ELSE ops'[i].tmp])
    BY <1>7
  <2>2. (\A i \in DOMAIN ops : Waiting(i) <=> i > installed)'
    BY <2>1 DEF Waiting
  <2>3. Laid(fs, [i \in DOMAIN ops |-> IF i <= k THEN ops[i].to ELSE
                                       IF i <= installed THEN ops[i].from ELSE ops[i].tmp])'
    BY <1>1, <1>2, <2>1 DEF Laid, Holds
  <2>4. QED
    BY <2>2, <2>3
<1>8. ASSUME pc' = "unstage_rest"
      PROVE  Laid(fs, [i \in DOMAIN ops |-> IF i < k THEN ops[i].from ELSE ops[i].tmp])'
  BY <1>1, <1>2, <1>8 DEF Laid, Holds
<1>9. WhileStaging'
  BY <1>4, <1>5 DEF WhileStaging
<1>10. WhileNaming'
  BY <1>6, <1>7, <1>8 DEF WhileNaming
<1>11. WhileReading' /\ AtTheEnd'
  BY DEF Renaming, Reading, Rewriting, WhileReading, AtTheEnd
<1>12. QED
  BY <1>3, <1>9, <1>10, <1>11 DEF Account

LEMMA BeginRenamesAccount ==
    ASSUME Shape, Account, Fine, BeginRenames
    PROVE  Account'
<1>1. /\ pc = "visit" /\ todo = <<>> /\ UNCHANGED <<fs, original, short, rows, dry, ops, k, past>>
      /\ IF dry THEN pc' = "done" /\ ok' ELSE pc' = "stage"
  BY DEF BeginRenames, given
<1>2. Reading /\ ~Aside /\ Control /\ Planning
  BY <1>1 DEF Reading, Aside, Shape, Renames
<1>3. /\ \A n \in Everyone : n \in DOMAIN original <=> Present(n)
      /\ DOMAIN original \subseteq Everyone
  BY <1>2, ReadFiles
<1>4. \A n \in DOMAIN original : IF dry THEN Found(n, fs[At(n)]) ELSE Renewed(n, fs[At(n)])
  <2>1. ToSet(todo) = {}
    BY <1>1 DEF ToSet
  <2>2. QED
    BY <1>2, <2>1 DEF Account, WhileReading
<1>5. NamesApart /\ Pairing
  BY <1>2 DEF Account
<1>6. CASE dry
  <2>1. pc' = "done" /\ ok' /\ dry'
    BY <1>1, <1>6
  <2>2. AllThere'
    BY <1>1, <1>3 DEF AllThere, Present
  <2>3. (\A n \in DOMAIN original : Left(n, fs[At(n)]))'
    <3>1. \A n, content : Renewed(n, content)' <=> Renewed(n, content)
      BY <1>1, SameNames
    <3>2. QED
      BY <1>1, <1>4, <1>6, <3>1 DEF Left, Found
  <2>4. NamesApart' /\ ~TableRefused(rows)'
    BY <1>1, <1>2, <1>5, SameNames, SameTable, ReadFiles
  <2>5. AtTheEnd'
    BY <2>1, <2>2, <2>3, <2>4 DEF AtTheEnd
  <2>6. ~Reading' /\ ~Renaming'
    BY <2>1 DEF Reading, Rewriting, Renaming
  <2>7. QED
    BY <2>1, <2>5, <2>6 DEF Account, WhileReading, WhileStaging, WhileNaming
<1>7. CASE ~dry
  <2>1. pc' = "stage" /\ Renaming'
    BY <1>1, <1>7 DEF Renaming
  <2>2. ASSUME NEW i \in DOMAIN ops
        PROVE  ops[i].tmp = At(Owner(i)) /\ Owner(i) \in Moving /\ Owner(i) \in DOMAIN original
    <3>1. ops[i].tmp = ops[i].from
      BY <1>2 DEF Planning
    <3>2. ops[i].from = At(Owner(i))
      BY <1>2, Operation DEF Owner
    <3>3. Owner(i) \in Moving
      BY <1>5 DEF Pairing
    <3>4. QED
      BY <3>1, <3>2, <3>3 DEF Moving
  <2>3. ASSUME NEW n \in DOMAIN original PROVE Holds(fs, At(n), n)
    BY <1>3, <1>4, <1>7 DEF Holds, Present
  <2>4. \A i \in DOMAIN ops : Holds(fs, ops[i].tmp, Owner(i))
    BY <2>2, <2>3
  <2>5. \A n \in Staying : Holds(fs, At(n), n)
    BY <2>3 DEF Staying
  <2>6. ASSUME NEW n \in Everyone, At(n) \in DOMAIN fs
        PROVE  n \in Staying \/ \E i \in DOMAIN ops : ops[i].tmp = At(n)
    <3>1. n \in Staying \/ n \in Moving
      BY <1>3, <2>6 DEF Staying, Present
    <3>2. QED
      BY <1>5, <2>2, <3>1 DEF Pairing
  <2>7. Laid(fs, [i \in DOMAIN ops |-> ops[i].tmp])
    BY <2>4, <2>5, <2>6 DEF Laid
  <2>8. QED
    BY <1>1, <1>2, <2>1, <2>7, StillRenamingAccount
<1>8. QED
  BY <1>6, <1>7

-----------------------------------------------------------------------------
(* Account: the renames.                                                   *)

\* What is known while Run renames.
LEMMA RenameFiles ==
    ASSUME Shape, Account, Renaming
    PROVE  /\ Control /\ Plan /\ NamesApart /\ Pairing /\ ~dry
           /\ DOMAIN ops = 1 .. Len(ops) /\ Len(ops) \in Nat /\ k \in 0 .. Len(ops) + 1 /\ k \in Nat
           /\ DOMAIN original \subseteq Everyone
           /\ \A i \in DOMAIN ops : ops[i].from = At(Owner(i)) /\ ops[i].to = At(Target(Owner(i)))
<1>1. Control /\ Plan /\ ~dry /\ DOMAIN original \subseteq Everyone
  BY DEF Shape, Control
<1>2. NamesApart /\ Pairing
  BY DEF Account
<1>3. \A i \in DOMAIN ops : ops[i].from = At(Owner(i)) /\ ops[i].to = At(Target(Owner(i)))
  BY <1>1, <1>2, Operation DEF Owner, Pairing
<1>4. QED
  BY <1>1, <1>2, <1>3, OpsList

LEMMA StageFiles ==
    ASSUME Shape, Stage
    PROVE  LET temporary == Sibling(ops[k].from[1], "rename")
           IN  /\ k \in DOMAIN ops /\ ops[k].tmp = ops[k].from /\ temporary \notin DOMAIN fs
               /\ DOMAIN ops' = DOMAIN ops /\ Len(ops') = Len(ops)
               /\ \A i \in DOMAIN ops : /\ ops'[i].from = ops[i].from /\ ops'[i].to = ops[i].to
                                        /\ ops'[i].tmp = IF i = k THEN temporary ELSE ops[i].tmp
<1> DEFINE from == ops[k].from
           temporary == Sibling(from[1], "rename")
           m == FirstFree(fs, from[1], "rename")
<1>1. /\ pc = "stage" /\ k <= Len(ops)
      /\ ops' = [ops EXCEPT ![k].tmp = temporary]
  BY DEF Stage
<1>2. Control /\ Disk(fs) /\ Room /\ Staging
  BY DEF Shape, Renames
<1>3. DOMAIN ops = 1 .. Len(ops) /\ Len(ops) \in Nat /\ k \in DOMAIN ops /\ ops \in Seq(Operations)
  BY <1>1, <1>2, OpsList DEF Staging, Control
<1>4. ops[k].tmp = from
  BY <1>1, <1>2, <1>3 DEF Staging
<1>5. from[1] \in Everyone /\ "rename" \in Sides /\ <<from[1], "rename", runs - 1>> \notin DOMAIN fs
  <2>1. Fresh(from[1], "rename")
    BY <1>1, <1>2, <1>3 DEF Room
  <2>2. QED
    BY <1>2, <1>3, <2>1, Operation DEF Everyone, Sides, Fresh
<1>6. temporary = <<from[1], "rename", m>>
  BY DEF Sibling, FirstFree
<1> HIDE DEF from, temporary
<1>7. IsFirstFree(fs, from[1], "rename", m)
  BY <1>2, <1>5, RunsNat, FirstFreeIs
<1>8. temporary \notin DOMAIN fs
  BY <1>6, <1>7 DEF IsFirstFree
<1>9. ops[k] \in Operations
  BY <1>3
<1>10. /\ DOMAIN ops' = DOMAIN ops
       /\ \A i \in DOMAIN ops : /\ ops'[i].from = ops[i].from /\ ops'[i].to = ops[i].to
                                /\ ops'[i].tmp = IF i = k THEN temporary ELSE ops[i].tmp
  BY <1>1, <1>3, <1>9 DEF Operations
<1>11. Len(ops') = Len(ops)
  BY <1>1, <1>3
<1>12. QED
  BY <1>3, <1>4, <1>8, <1>10, <1>11 DEF from, temporary

LEMMA StageAccount ==
    ASSUME Shape, Account, Stage
    PROVE  Account'
<1> DEFINE temporary == Sibling(ops[k].from[1], "rename")
           place == [i \in DOMAIN ops |-> ops[i].tmp]
           other == [i \in DOMAIN ops |-> ops'[i].tmp]
<1>1. /\ pc = "stage" /\ pc' = "stage" /\ UNCHANGED <<original, short, rows, dry>>
      /\ fs' = Moved(fs, ops[k].from, temporary)
  BY DEF Stage, given
<1>2. Renaming /\ Renaming'
  BY <1>1 DEF Renaming
<1>3. Laid(fs, place)
  BY <1>1 DEF Account, WhileStaging
<1>4. /\ k \in DOMAIN ops /\ ops[k].tmp = ops[k].from /\ temporary \notin DOMAIN fs
      /\ DOMAIN ops' = DOMAIN ops /\ Len(ops') = Len(ops)
      /\ \A i \in DOMAIN ops : /\ ops'[i].from = ops[i].from /\ ops'[i].to = ops[i].to
                               /\ ops'[i].tmp = IF i = k THEN temporary ELSE ops[i].tmp
  BY StageFiles
<1>5. Control /\ Plan /\ Pairing
  BY <1>2, RenameFiles
<1>6. fs' = Moved(fs, place[k], other[k])
  BY <1>1, <1>4
<1>7. other[k] \notin DOMAIN fs /\ \A j \in DOMAIN ops : j # k => other[j] = place[j]
  BY <1>4
<1> HIDE DEF place, other, temporary
<1>8. Laid(fs', other)
  BY <1>2, <1>3, <1>4, <1>5, <1>6, <1>7, LaidMoved
<1>9. QED
  BY <1>1, <1>2, <1>4, <1>8, StillRenamingAccount DEF other

LEMMA CannotStageAccount ==
    ASSUME Shape, Account, CannotStage
    PROVE  Account'
<1>1. /\ pc = "stage" /\ pc' = "unstage" /\ k' = k - 1 /\ UNCHANGED <<fs, original, short, rows, dry, ops>>
  BY DEF CannotStage, given
<1>2. Renaming /\ Renaming'
  BY <1>1 DEF Renaming
<1>3. DOMAIN ops = 1 .. Len(ops) /\ k \in Nat
  BY <1>2, RenameFiles
<1>4. [i \in DOMAIN ops |-> IF i <= k' THEN ops'[i].tmp ELSE ops[i].from] = [i \in DOMAIN ops |-> ops[i].tmp]
  <2>1. ASSUME NEW i \in DOMAIN ops, ~(i <= k') PROVE ops[i].from = ops[i].tmp
    <3>1. i >= k
      BY <1>1, <1>3, <2>1
    <3>2. QED
      BY <1>1, <3>1 DEF Shape, Renames, Staging
  <2>2. QED
    BY <1>1, <2>1
<1>5. Laid(fs', [i \in DOMAIN ops |-> IF i <= k' THEN ops'[i].tmp ELSE ops[i].from])
  BY <1>1, <1>4 DEF Account, WhileStaging
<1>6. QED
  BY <1>1, <1>2, <1>5, StillRenamingAccount

LEMMA StagedAccount ==
    ASSUME Shape, Account, Staged
    PROVE  Account'
<1>1. /\ pc = "stage" /\ pc' = "name" /\ k' = 1 /\ UNCHANGED <<fs, original, short, rows, dry, ops>>
  BY DEF Staged, given
<1>2. Renaming /\ Renaming'
  BY <1>1 DEF Renaming
<1>3. \A i \in DOMAIN ops : ~(i < k')
  BY <1>1, <1>2, RenameFiles
<1>4. [i \in DOMAIN ops |-> IF i < k' THEN ops[i].to ELSE ops'[i].tmp] = [i \in DOMAIN ops |-> ops[i].tmp]
  BY <1>1, <1>3
<1>5. Laid(fs', [i \in DOMAIN ops |-> IF i < k' THEN ops[i].to ELSE ops'[i].tmp])
  BY <1>1, <1>4 DEF Account, WhileStaging
<1>6. QED
  BY <1>1, <1>2, <1>5, StillRenamingAccount

LEMMA InstallNameAccount ==
    ASSUME Shape, Account, InstallName
    PROVE  Account'
<1> DEFINE place == [i \in DOMAIN ops |-> IF i < k THEN ops[i].to ELSE ops[i].tmp]
           other == [i \in DOMAIN ops |-> IF i < k' THEN ops[i].to ELSE ops'[i].tmp]
<1>1. /\ pc = "name" /\ pc' = "name" /\ k <= Len(ops) /\ k' = k + 1
      /\ UNCHANGED <<original, short, rows, dry, ops>>
      /\ fs' = Moved(fs, ops[k].tmp, ops[k].to)
  BY DEF InstallName, given
<1>2. Renaming /\ Renaming'
  BY <1>1 DEF Renaming
<1>3. Laid(fs, place)
  BY <1>1 DEF Account, WhileNaming
<1>4. Control /\ Plan /\ Pairing /\ DOMAIN ops = 1 .. Len(ops) /\ Len(ops) \in Nat /\ k \in Nat
  BY <1>2, RenameFiles
<1>5. k \in DOMAIN ops /\ ops[k].to \notin DOMAIN fs
  <2>1. k >= 1 /\ \A i \in DOMAIN ops : i >= k => ops[i].to \notin DOMAIN fs
    BY <1>1 DEF Shape, Renames, Naming
  <2>2. QED
    BY <1>1, <1>4, <2>1
<1>6. \A j \in DOMAIN ops : j # k => (j < k' <=> j < k)
  BY <1>1, <1>4
<1>7. place[k] = ops[k].tmp /\ other[k] = ops[k].to
  BY <1>1, <1>4, <1>5
<1>8. \A j \in DOMAIN ops : j # k => other[j] = place[j]
  BY <1>1, <1>6
<1> HIDE DEF place, other
<1>9. fs' = Moved(fs, place[k], other[k]) /\ other[k] \notin DOMAIN fs
  BY <1>1, <1>5, <1>7
<1>10. Laid(fs', other)
  BY <1>2, <1>3, <1>4, <1>5, <1>8, <1>9, LaidMoved
<1>11. QED
  BY <1>1, <1>2, <1>10, StillRenamingAccount DEF other

LEMMA CannotInstallNameAccount ==
    ASSUME Shape, Account, CannotInstallName
    PROVE  Account'
<1>1. /\ pc = "name" /\ pc' = "unname" /\ k' = k - 1 /\ k <= Len(ops)
      /\ UNCHANGED <<fs, original, short, rows, dry, ops>>
  BY DEF CannotInstallName, given
<1>2. Renaming /\ Renaming'
  BY <1>1 DEF Renaming
<1>3. DOMAIN ops = 1 .. Len(ops) /\ k \in Nat /\ Len(ops) \in Nat
  BY <1>2, RenameFiles
<1>4. k >= 1 /\ \A i \in DOMAIN ops : (i < k => ~Waiting(i)) /\ (i >= k => Waiting(i))
  BY <1>1 DEF Shape, Renames, Naming
<1>5. \A i \in DOMAIN ops : (i <= k' <=> i < k) /\ (i > k' <=> i >= k)
  BY <1>1, <1>3
<1>6. k' \in k' .. Len(ops)
  BY <1>1, <1>3, <1>4
<1>7. \A i \in DOMAIN ops : ops'[i].tmp \in DOMAIN fs' <=> i > k'
  BY <1>1, <1>3, <1>4, <1>5 DEF Waiting
<1>8. [i \in DOMAIN ops |-> IF i <= k' THEN ops[i].to ELSE IF i <= k' THEN ops[i].from ELSE ops'[i].tmp]
        = [i \in DOMAIN ops |-> IF i < k THEN ops[i].to ELSE ops[i].tmp]
  BY <1>1, <1>5
<1>9. Laid(fs', [i \in DOMAIN ops |-> IF i <= k' THEN ops[i].to ELSE
                                      IF i <= k' THEN ops[i].from ELSE ops'[i].tmp])
  BY <1>1, <1>8 DEF Account, WhileNaming
<1>10. \E installed \in k' .. Len(ops) :
           /\ \A i \in DOMAIN ops : ops'[i].tmp \in DOMAIN fs' <=> i > installed
           /\ Laid(fs', [i \in DOMAIN ops |-> IF i <= k' THEN ops[i].to ELSE
                                              IF i <= installed THEN ops[i].from ELSE ops'[i].tmp])
  BY <1>6, <1>7, <1>9
<1>11. QED
  BY <1>1, <1>2, <1>10, StillRenamingAccount

LEMMA SucceedAccount ==
    ASSUME Shape, Account, Succeed
    PROVE  Account'
<1>1. /\ pc = "name" /\ pc' = "done" /\ k > Len(ops) /\ ok' = TRUE
      /\ UNCHANGED <<fs, original, short, rows, dry>>
  BY DEF Succeed, given
<1>2. Renaming
  BY <1>1 DEF Renaming
<1>3. /\ NamesApart /\ Pairing /\ ~dry /\ DOMAIN ops = 1 .. Len(ops) /\ k \in Nat /\ Len(ops) \in Nat
      /\ \A i \in DOMAIN ops : ops[i].to = At(Target(Owner(i)))
  BY <1>2, RenameFiles
<1>4. \A i \in DOMAIN ops : i < k
  BY <1>1, <1>3
<1>5. Laid(fs, [i \in DOMAIN ops |-> IF i < k THEN ops[i].to ELSE ops[i].tmp])
  BY <1>1 DEF Account, WhileNaming
<1>6. /\ \A i \in DOMAIN ops : Holds(fs, ops[i].to, Owner(i))
      /\ \A n \in Staying : Holds(fs, At(n), n)
      /\ \A n \in Everyone : At(n) \in DOMAIN fs => n \in Staying \/ \E i \in DOMAIN ops : ops[i].to = At(n)
  BY <1>4, <1>5 DEF Laid
<1>7. ASSUME NEW n \in Moving PROVE Holds(fs, At(Target(n)), n)
  BY <1>3, <1>6 DEF Pairing
<1>8. ASSUME NEW n \in Everyone, Present(n) PROVE n \in Staying \/ \E m \in Moving : n = Target(m)
  <2>1. n \in Staying \/ \E i \in DOMAIN ops : ops[i].to = At(n)
    BY <1>6, <1>8 DEF Present
  <2>2. \A i \in DOMAIN ops : ops[i].to = At(n) => Owner(i) \in Moving /\ n = Target(Owner(i))
    BY <1>3, AtFacts DEF Pairing
  <2>3. QED
    BY <2>1, <2>2
<1>9. /\ \A n, content : Renewed(n, content)' <=> Renewed(n, content)
      /\ \A n : Target(n)' = Target(n)
      /\ Moving' = Moving /\ Staying' = Staying
      /\ NamesApart' <=> NamesApart
  BY <1>1, SameNames
<1>table. ~TableRefused(rows)'
  BY <1>1, <1>2, SameTable DEF Shape, Control
<1>10. AtTheEnd'
  BY <1>1, <1>3, <1>6, <1>7, <1>8, <1>9, <1>table DEF AtTheEnd, Holds, Present
<1>11. ~Reading' /\ ~Renaming'
  BY <1>1 DEF Reading, Rewriting, Renaming
<1>12. QED
  BY <1>1, <1>10, <1>11 DEF Account, WhileReading, WhileStaging, WhileNaming

-----------------------------------------------------------------------------
(* Account: the undo loops.                                                *)

LEMMA UnstageAccount ==
    ASSUME Shape, Account, Fine', Unstage
    PROVE  Account'
<1> DEFINE place == [i \in DOMAIN ops |-> IF i <= k THEN ops[i].tmp ELSE ops[i].from]
           other == [i \in DOMAIN ops |-> IF i <= k' THEN ops'[i].tmp ELSE ops[i].from]
<1>1. /\ pc = "unstage" /\ pc' = "unstage" /\ k >= 1 /\ k' = k - 1
      /\ UNCHANGED <<original, short, rows, dry, ops>>
      /\ \/ fs' = Moved(fs, ops[k].tmp, ops[k].from)
         \/ ops[k].tmp \notin DOMAIN fs
  BY UndoFacts DEF Unstage, Fine
<1>2. Renaming /\ Renaming'
  BY <1>1 DEF Renaming
<1>3. Laid(fs, place)
  BY <1>1 DEF Account, WhileStaging
<1>4. Control /\ Plan /\ Pairing /\ DOMAIN ops = 1 .. Len(ops) /\ Len(ops) \in Nat /\ k \in Nat
  BY <1>2, RenameFiles
<1>5. k \in DOMAIN ops /\ ops[k].from \notin DOMAIN fs
  <2>1. k <= Len(ops) /\ \A i \in 1 .. k : ops[i].from \notin DOMAIN fs
    BY <1>1 DEF Shape, Renames, Unstaging
  <2>2. k \in 1 .. k /\ k \in DOMAIN ops
    BY <1>1, <1>4, <2>1
  <2>3. QED
    BY <2>1, <2>2
<1>6. \A j \in DOMAIN ops : j # k => (j <= k' <=> j <= k)
  BY <1>1, <1>4
<1>7. place[k] = ops[k].tmp /\ other[k] = ops[k].from
  BY <1>1, <1>4, <1>5
<1>8. \A j \in DOMAIN ops : j # k => other[j] = place[j]
  BY <1>1, <1>6
<1> HIDE DEF place, other
<1>9. place[k] \in DOMAIN fs
  BY <1>3, <1>5 DEF Laid, Holds
<1>10. fs' = Moved(fs, place[k], other[k]) /\ other[k] \notin DOMAIN fs
  BY <1>1, <1>5, <1>7, <1>9
<1>11. Laid(fs', other)
  BY <1>2, <1>3, <1>4, <1>5, <1>8, <1>10, LaidMoved
<1>12. QED
  BY <1>1, <1>2, <1>11, StillRenamingAccount DEF other

LEMMA UninstallAccount ==
    ASSUME Shape, Account, Safe, Fine', Uninstall
    PROVE  Account'
<1>1. /\ pc = "unname" /\ pc' = "unname" /\ k >= 1 /\ k' = k - 1
      /\ UNCHANGED <<original, short, rows, dry, ops>>
      /\ \/ fs' = Moved(fs, ops[k].to, ops[k].from)
         \/ ops[k].to \notin DOMAIN fs
  BY UndoFacts DEF Uninstall, Fine
<1>2. Renaming /\ Renaming'
  BY <1>1 DEF Renaming
<1>3. Control /\ Plan /\ Pairing /\ DOMAIN ops = 1 .. Len(ops) /\ Len(ops) \in Nat /\ k \in Nat
  BY <1>2, RenameFiles
<1>4. PICK installed \in k .. Len(ops) :
          /\ \A i \in DOMAIN ops : Waiting(i) <=> i > installed
          /\ Laid(fs, [i \in DOMAIN ops |-> IF i <= k THEN ops[i].to ELSE
                                            IF i <= installed THEN ops[i].from ELSE ops[i].tmp])
  BY <1>1 DEF Account, WhileNaming
<1> DEFINE place == [i \in DOMAIN ops |-> IF i <= k THEN ops[i].to ELSE
                                          IF i <= installed THEN ops[i].from ELSE ops[i].tmp]
           other == [i \in DOMAIN ops |-> IF i <= k' THEN ops[i].to ELSE
                                          IF i <= installed THEN ops[i].from ELSE ops'[i].tmp]
<1>5. k \in DOMAIN ops /\ ops[k].from \notin DOMAIN fs
  <2>1. /\ k <= Len(ops)
        /\ \A i \in DOMAIN ops : ops[i].from \in DOMAIN fs =>
               (i <= k => \E j \in i + 1 .. k : ops[i].from = ops[j].to)
    BY <1>1 DEF Shape, Renames, Unnaming
  <2>2. k \in DOMAIN ops
    BY <1>1, <1>3, <2>1
  <2>3. k + 1 .. k = {} /\ k <= k
    BY <1>3
  <2>4. QED
    BY <2>1, <2>2, <2>3
<1>6. \A j \in DOMAIN ops : j # k => (j <= k' <=> j <= k)
  BY <1>1, <1>3
<1>7. place[k] = ops[k].to /\ other[k] = ops[k].from
  <2>1. k <= k /\ ~(k <= k') /\ k <= installed
    BY <1>1, <1>3, <1>4
  <2>2. QED
    BY <1>5, <2>1
<1>8. \A j \in DOMAIN ops : j # k => other[j] = place[j]
  BY <1>1, <1>6
<1>laid. Laid(fs, place)
  BY <1>4
<1> HIDE DEF place, other
<1>9. place[k] \in DOMAIN fs
  BY <1>5, <1>laid DEF Laid, Holds
<1>10. fs' = Moved(fs, place[k], other[k]) /\ other[k] \notin DOMAIN fs
  BY <1>1, <1>5, <1>7, <1>9
<1>11. Laid(fs', other)
  BY <1>2, <1>3, <1>5, <1>8, <1>10, <1>laid, LaidMoved
<1>12. \A i \in DOMAIN ops : ops'[i].tmp \in DOMAIN fs' <=> i > installed
  <2>1. \A i \in DOMAIN ops : ops[i].tmp[2] = "rename"
    BY <1>1, <1>3, Operation DEF Shape, Renames, Unnaming
  <2>2. ops[k].from[2] = "file" /\ ops[k].to[2] = "file"
    BY <1>3, <1>5, Operation
  <2>3. \A i \in DOMAIN ops : ops[i].tmp # ops[k].from /\ ops[i].tmp # ops[k].to
    BY <2>1, <2>2
  <2>4. DOMAIN fs' = (DOMAIN fs \ {ops[k].to}) \cup {ops[k].from}
    BY <1>7, <1>10 DEF Moved
  <2>5. QED
    BY <1>1, <1>4, <2>3, <2>4 DEF Waiting
<1>13. installed \in k' .. Len(ops)
  BY <1>1, <1>3, <1>4
<1>14. \E n \in k' .. Len(ops) :
           /\ \A i \in DOMAIN ops : ops'[i].tmp \in DOMAIN fs' <=> i > n
           /\ Laid(fs', [i \in DOMAIN ops |-> IF i <= k' THEN ops[i].to ELSE
                                              IF i <= n THEN ops[i].from ELSE ops'[i].tmp])
  BY <1>11, <1>12, <1>13 DEF other
<1>15. QED
  BY <1>1, <1>2, <1>14, StillRenamingAccount

LEMMA HowManyAfter ==
    ASSUME NEW m \in Nat, NEW n \in Nat, m <= n
    PROVE  Cardinality(m + 1 .. n) = n - m
<1> DEFINE from == m + 1
<1>1. from \in Int /\ n \in Int /\ from = m + 1
  OBVIOUS
<1> HIDE DEF from
<1>2. Cardinality(from .. n) = IF from > n THEN 0 ELSE n - from + 1
  BY <1>1, FS_Interval
<1>3. (IF from > n THEN 0 ELSE n - from + 1) = n - m
  BY <1>1
<1>4. QED
  BY <1>1, <1>2, <1>3

LEMMA RestoreOthersAccount ==
    ASSUME Shape, Account, RestoreOthers
    PROVE  Account'
<1> DEFINE waiting == {i \in DOMAIN ops : Waiting(i)}
<1>1. /\ pc = "unname" /\ pc' = "unstage_rest" /\ k = 0
      /\ k' = 1 + Len(ops) - Cardinality(waiting)
      /\ UNCHANGED <<fs, original, short, rows, dry, ops>>
  BY DEF RestoreOthers, given
<1>2. Renaming /\ Renaming'
  BY <1>1 DEF Renaming
<1>3. DOMAIN ops = 1 .. Len(ops) /\ Len(ops) \in Nat
  BY <1>2, RenameFiles
<1>4. PICK installed \in k .. Len(ops) :
          /\ \A i \in DOMAIN ops : Waiting(i) <=> i > installed
          /\ Laid(fs, [i \in DOMAIN ops |-> IF i <= k THEN ops[i].to ELSE
                                            IF i <= installed THEN ops[i].from ELSE ops[i].tmp])
  BY <1>1 DEF Account, WhileNaming
<1>5. installed \in Nat /\ installed <= Len(ops)
  BY <1>1, <1>3, <1>4
<1>6. waiting = installed + 1 .. Len(ops)
  <2>1. \A i \in 1 .. Len(ops) : i > installed <=> i \in installed + 1 .. Len(ops)
    BY <1>3, <1>5
  <2>2. installed + 1 .. Len(ops) \subseteq 1 .. Len(ops)
    BY <1>3, <1>5
  <2>3. QED
    BY <1>3, <1>4, <2>1, <2>2
<1> HIDE DEF waiting
<1>7. Cardinality(waiting) = Len(ops) - installed
  <2>1. Cardinality(installed + 1 .. Len(ops)) = Len(ops) - installed
    BY <1>3, <1>5, HowManyAfter
  <2>2. QED
    BY <1>6, <2>1
<1>8. k' = installed + 1
  BY <1>1, <1>3, <1>5, <1>7
<1>9. \A i \in DOMAIN ops : ~(i <= k) /\ (i <= installed <=> i < k')
  BY <1>1, <1>3, <1>5, <1>8
<1>10. [i \in DOMAIN ops |-> IF i < k' THEN ops[i].from ELSE ops'[i].tmp]
         = [i \in DOMAIN ops |-> IF i <= k THEN ops[i].to ELSE
                                 IF i <= installed THEN ops[i].from ELSE ops[i].tmp]
  BY <1>1, <1>9
<1>11. Laid(fs', [i \in DOMAIN ops |-> IF i < k' THEN ops[i].from ELSE ops'[i].tmp])
  BY <1>1, <1>4, <1>10
<1>12. QED
  BY <1>1, <1>2, <1>11, StillRenamingAccount

LEMMA RestoreNextAccount ==
    ASSUME Shape, Account, Safe, Fine', RestoreNext
    PROVE  Account'
<1> DEFINE place == [i \in DOMAIN ops |-> IF i < k THEN ops[i].from ELSE ops[i].tmp]
           other == [i \in DOMAIN ops |-> IF i < k' THEN ops[i].from ELSE ops'[i].tmp]
<1>1. /\ pc = "unstage_rest" /\ pc' = "unstage_rest" /\ k <= Len(ops) /\ k' = k + 1
      /\ UNCHANGED <<original, short, rows, dry, ops>>
      /\ \/ fs' = Moved(fs, ops[k].tmp, ops[k].from)
         \/ ops[k].tmp \notin DOMAIN fs
  BY UndoFacts DEF RestoreNext, Fine
<1>2. Renaming /\ Renaming'
  BY <1>1 DEF Renaming
<1>3. Laid(fs, place)
  BY <1>1 DEF Account, WhileNaming
<1>4. Control /\ Plan /\ Pairing /\ DOMAIN ops = 1 .. Len(ops) /\ Len(ops) \in Nat /\ k \in Nat
  BY <1>2, RenameFiles
<1>5. k \in DOMAIN ops
  <2>1. k >= 1
    BY <1>1 DEF Shape, Renames, Restoring
  <2>2. QED
    BY <1>1, <1>4, <2>1
<1>6. \A j \in DOMAIN ops : j # k => (j < k' <=> j < k)
  BY <1>1, <1>4
<1>7. place[k] = ops[k].tmp /\ other[k] = ops[k].from
  BY <1>1, <1>4, <1>5
<1>8. \A j \in DOMAIN ops : j # k => other[j] = place[j]
  BY <1>1, <1>6
<1> HIDE DEF place, other
<1>9. ops[k].tmp \in DOMAIN fs
  BY <1>3, <1>5, <1>7 DEF Laid, Holds
<1>10. ops[k].from \notin DOMAIN fs
  <2>1. \A i \in DOMAIN ops : i >= k /\ Waiting(i) => ops[i].from \notin DOMAIN fs
    BY <1>1 DEF Shape, Renames, Restoring
  <2>2. k >= k
    BY <1>4
  <2>3. QED
    BY <1>5, <1>9, <2>1, <2>2 DEF Waiting
<1>11. fs' = Moved(fs, place[k], other[k]) /\ other[k] \notin DOMAIN fs
  BY <1>1, <1>7, <1>9, <1>10
<1>12. Laid(fs', other)
  BY <1>2, <1>3, <1>4, <1>5, <1>8, <1>11, LaidMoved
<1>13. QED
  BY <1>1, <1>2, <1>12, StillRenamingAccount DEF other

LEMMA UndoneAccount ==
    ASSUME Shape, Account, Undone
    PROVE  Account'
<1>1. /\ pc' = "done" /\ ~ok' /\ UNCHANGED <<fs, original, short, rows, dry, past>>
      /\ (pc = "unstage" /\ k = 0) \/ (pc = "unstage_rest" /\ k > Len(ops))
  BY DEF Undone, Fail, given
<1>2. Renaming
  BY <1>1 DEF Renaming
<1>3. /\ Pairing /\ ~dry /\ DOMAIN ops = 1 .. Len(ops) /\ k \in Nat /\ Len(ops) \in Nat
      /\ DOMAIN original \subseteq Everyone
      /\ \A i \in DOMAIN ops : ops[i].from = At(Owner(i))
  BY <1>2, RenameFiles
<1>4. Laid(fs, [i \in DOMAIN ops |-> ops[i].from])
  <2>1. CASE pc = "unstage" /\ k = 0
    <3>1. \A i \in DOMAIN ops : ~(i <= k)
      BY <1>3, <2>1
    <3>2. [i \in DOMAIN ops |-> IF i <= k THEN ops[i].tmp ELSE ops[i].from] = [i \in DOMAIN ops |-> ops[i].from]
      BY <3>1
    <3>3. QED
      BY <2>1, <3>2 DEF Account, WhileStaging
  <2>2. CASE pc = "unstage_rest" /\ k > Len(ops)
    <3>1. \A i \in DOMAIN ops : i < k
      BY <1>3, <2>2
    <3>2. [i \in DOMAIN ops |-> IF i < k THEN ops[i].from ELSE ops[i].tmp] = [i \in DOMAIN ops |-> ops[i].from]
      BY <3>1
    <3>3. QED
      BY <2>2, <3>2 DEF Account, WhileNaming
  <2>3. QED
    BY <1>1, <2>1, <2>2
<1>5. /\ \A i \in DOMAIN ops : Holds(fs, At(Owner(i)), Owner(i))
      /\ \A n \in Staying : Holds(fs, At(n), n)
      /\ \A n \in Everyone : At(n) \in DOMAIN fs => n \in Staying \/ \E i \in DOMAIN ops : ops[i].from = At(n)
  BY <1>3, <1>4 DEF Laid
<1>6. ASSUME NEW n \in DOMAIN original PROVE Holds(fs, At(n), n)
  <2>1. n \in Staying \/ n \in Moving
    BY DEF Staying
  <2>2. QED
    BY <1>3, <1>5, <2>1 DEF Pairing
<1>7. ASSUME NEW n \in Everyone, At(n) \in DOMAIN fs PROVE n \in DOMAIN original
  <2>1. n \in Staying \/ \E i \in DOMAIN ops : ops[i].from = At(n)
    BY <1>5, <1>7
  <2>2. \A i \in DOMAIN ops : ops[i].from = At(n) => n \in Moving
    BY <1>3, AtFacts DEF Pairing
  <2>3. QED
    BY <2>1, <2>2 DEF Staying, Moving
<1>8. \A n \in Everyone : At(n) \in DOMAIN fs' <=> n \in DOMAIN original
  BY <1>1, <1>6, <1>7 DEF Holds
<1>9. \A n \in DOMAIN original : Left(n, fs'[At(n)])
  BY <1>1, <1>3, <1>6 DEF Left, Holds
<1>10. SamePast
  BY <1>1 DEF SamePast
<1>11. QED
  BY <1>1, <1>8, <1>9, <1>10, EndedAccount

LEMMA StutterAccount ==
    ASSUME Account, UNCHANGED vars
    PROVE  Account'
<1>1. /\ UNCHANGED <<fs, original, short, rows, dry, pc, ok, todo, ops, k, past>>
      /\ (TableRefused(rows)' <=> TableRefused(rows))
  BY SameTable DEF vars
<1>2. (Reading' <=> Reading) /\ (Renaming' <=> Renaming) /\ (Aside' <=> Aside) /\ SamePast
  BY <1>1 DEF Reading, Renaming, Rewriting, Aside, SamePast
<1>3. CASE Reading
  <2>1. SetAside' = SetAside
    BY <1>1 DEF SetAside, Backup, Sibling
  <2>2. \A n \in Everyone : n \in InUse' <=> n \in InUse
    BY <1>1, <1>2 DEF InUse, Present
  <2>3. WhileReading
    BY DEF Account
  <2>4. QED
    BY <1>1, <1>2, <1>3, <2>1, <2>2, <2>3, StillReadingAccount DEF WhileReading
<1>4. CASE Renaming
  <2>1. WhileStaging /\ WhileNaming
    BY DEF Account
  <2>2. QED
    BY <1>1, <1>2, <1>4, <2>1, StillRenamingAccount DEF WhileStaging, WhileNaming, Waiting
<1>5. CASE ~Reading /\ ~Renaming
  <2>1. /\ \A n, content : Renewed(n, content)' <=> Renewed(n, content)
        /\ \A n : Target(n)' = Target(n)
        /\ Moving' = Moving /\ Staying' = Staying
        /\ NamesApart' <=> NamesApart
    BY <1>1, SameNames
  <2>2. \A n : (Found(n, fs[At(n)])' <=> Found(n, fs[At(n)])) /\ (Left(n, fs[At(n)])' <=> Left(n, fs[At(n)]))
    BY <1>1, <2>1 DEF Found, Left
  <2>3. (AllThere' <=> AllThere) /\ \A n : Present(n)' <=> Present(n)
    BY <1>1 DEF AllThere, Present
  <2>4. AtTheEnd
    BY DEF Account
  <2>5. AtTheEnd'
    BY <1>1, <2>1, <2>2, <2>3, <2>4 DEF AtTheEnd, Holds
  <2>6. ~Reading' /\ ~Renaming'
    BY <1>2, <1>5
  <2>7. WhileReading' /\ WhileStaging' /\ WhileNaming'
    BY <2>6 DEF WhileReading, WhileStaging, WhileNaming, Renaming
  <2>8. QED
    BY <2>5, <2>6, <2>7 DEF Account
<1>6. QED
  BY <1>3, <1>4, <1>5

LEMMA AccountStep ==
    ASSUME Shape, Account, History, Fine, Safe, Fine', [Next]_vars
    PROVE  Account'
<1>1. CASE Start \/ Refuse \/ Visit \/ CannotRead
  BY <1>1, StartAccount, RefuseAccount, VisitAccount, GivesUpAccount
<1>2. CASE WriteTemporary \/ WriteShort \/ CannotWrite \/ PutAside \/ CannotPutAside
  BY <1>2, WriteTemporaryAccount, GivesUpAccount, PutAsideAccount
<1>3. CASE Install \/ CannotInstall \/ Restore \/ RemoveBackup
  BY <1>3, InstallAccount, CannotInstallAccount, RestoreAccount, RemoveBackupAccount
<1>4. CASE BeginRenames \/ Stage \/ CannotStage \/ Staged
  BY <1>4, BeginRenamesAccount, StageAccount, CannotStageAccount, StagedAccount
<1>5. CASE InstallName \/ CannotInstallName \/ Succeed
  BY <1>5, InstallNameAccount, CannotInstallNameAccount, SucceedAccount
<1>6. CASE Unstage \/ Uninstall \/ RestoreOthers \/ RestoreNext \/ Undone
  BY <1>6, UnstageAccount, UninstallAccount, RestoreOthersAccount, RestoreNextAccount, UndoneAccount
<1>7. CASE Crash
  BY <1>7 DEF Crash, Fine
<1>8. CASE RunAgain
  BY <1>8, RunAgainAccount
<1>9. CASE Over \/ UNCHANGED vars
  BY <1>9, StutterAccount DEF Over
<1>10. QED
  BY <1>1, <1>2, <1>3, <1>4, <1>5, <1>6, <1>7, <1>8, <1>9 DEF Next

-----------------------------------------------------------------------------
(* History and Counts.                                                     *)

\* Steps of one run, in which at most an undo fails.
LEMMA SameRun ==
    ASSUME History, UNCHANGED <<original, rows, dry, runs>>,
           pc \notin {"done", "killed"}, pc' # "killed",
           past' \in {past, past \cup {"undo_failed"}}, past' # past => ~dry,
           pc \in {"unname", "unstage_rest"} =>
               pc' \in {"unname", "unstage_rest"} \/ (pc' = "done" /\ ~ok')
    PROVE  History'
<1>1. Chained' <=> Chained
  BY SameTable
<1>2. "overtaken" \in past' <=> "overtaken" \in past
  OBVIOUS
<1>3. "incomplete_run" \in past' <=> "incomplete_run" \in past
  OBVIOUS
<1>4. "crash" \in past' <=> "crash" \in past
  OBVIOUS
<1>5. "overtaken" \in past' =>
          Chained' /\ ("incomplete_run" \in past' \/
                       (~dry' /\ (pc' \in {"unname", "unstage_rest", "killed"} \/ (pc' = "done" /\ ~ok'))))
  BY <1>1, <1>2, <1>3 DEF History
<1>6. runs' = 1 => "incomplete_run" \notin past'
  BY <1>3 DEF History
<1>7. runs' = 1 /\ dry' => "undo_failed" \notin past' /\ ("crash" \in past' => pc' = "killed")
  BY <1>4 DEF History
<1>8. QED
  BY <1>5, <1>6, <1>7 DEF History

LEMMA UndoHistory ==
    ASSUME Shape, History, Unstage \/ Uninstall \/ RestoreNext
    PROVE  History'
<1>1. /\ UNCHANGED <<original, short, rows, dry, runs>>
      /\ past' \in {past, past \cup {"undo_failed"}}
      /\ pc \in {"unstage", "unname", "unstage_rest"} /\ pc' = pc
  BY DEF Unstage, Uninstall, RestoreNext, Undo, given
<1>2. ~dry
  BY <1>1 DEF Shape, Renaming
<1>3. QED
  BY <1>1, <1>2, SameRun

LEMMA CannotInstallNameHistory ==
    ASSUME Shape, History, CannotInstallName
    PROVE  History'
<1>1. /\ UNCHANGED <<original, short, rows, dry, runs>>
      /\ past' = IF Overtaken THEN past \cup {"overtaken"} ELSE past
      /\ pc = "name" /\ pc' = "unname" /\ k <= Len(ops)
  BY DEF CannotInstallName, given
<1>2. ~dry /\ Control /\ Renaming /\ Plan
  BY <1>1 DEF Shape, Renaming
<1>3. Overtaken => Chained
  <2>1. SUFFICES ASSUME Overtaken PROVE Chained
    OBVIOUS
  <2>2. PICK i \in 1 .. k - 1, j \in 1 .. k - 1 : ops[i].to = ops[j].from
    BY <2>1 DEF Overtaken
  <2>3. i \in DOMAIN ops /\ j \in DOMAIN ops
    BY <1>1, <1>2, OpsList
  <2>4. QED
    BY <1>2, <2>2, <2>3 DEF Plan
<1>4. Chained' <=> Chained
  BY <1>1, SameTable
<1>5. QED
  BY <1>1, <1>2, <1>3, <1>4 DEF History

LEMMA NewRunHistory ==
    ASSUME Shape, History, Crash \/ RunAgain
    PROVE  History'
<1>1. UNCHANGED <<original, short, rows>> /\ (Chained' <=> Chained)
  BY SameTable DEF Crash, RunAgain, given
<1>2. CASE Crash
  <2>1. /\ pc \notin {"start", "done", "killed"} /\ pc' = "killed" /\ past' = past \cup {"crash"}
        /\ UNCHANGED <<dry, runs>>
    BY <1>2 DEF Crash, given
  <2>2. QED
    BY <1>1, <2>1 DEF History
<1>3. CASE RunAgain
  <2>1. /\ pc' = "start" /\ runs' = runs + 1
        /\ past' = IF dry THEN past ELSE past \cup {"incomplete_run"}
    BY <1>3 DEF RunAgain
  <2>2. runs' # 1
    BY <2>1, RunsNat DEF Shape
  <2>3. "overtaken" \in past' => Chained' /\ "incomplete_run" \in past'
    BY <1>1, <2>1 DEF History
  <2>4. QED
    BY <1>1, <2>1, <2>2, <2>3 DEF History
<1>4. QED
  BY <1>2, <1>3

LEMMA HistoryStep ==
    ASSUME Shape, History, [Next]_vars
    PROVE  History'
<1>1. CASE Start \/ Refuse \/ Visit \/ CannotRead \/ WriteTemporary \/ WriteShort \/ CannotWrite
  BY <1>1, SameRun DEF Start, Refuse, Visit, CannotRead, WriteTemporary, WriteShort, CannotWrite, Fail, given
<1>2. CASE PutAside \/ CannotPutAside \/ Install \/ CannotInstall \/ RemoveBackup
  BY <1>2, SameRun DEF PutAside, CannotPutAside, Install, CannotInstall, RemoveBackup, Fail, given
<1>3. CASE BeginRenames \/ Stage \/ CannotStage \/ Staged \/ InstallName \/ Succeed
  BY <1>3, SameRun DEF BeginRenames, Stage, CannotStage, Staged, InstallName, Succeed, given
<1>4. CASE RestoreOthers \/ Undone
  BY <1>4, SameRun DEF RestoreOthers, Undone, Fail, given
<1>5. CASE Restore
  <2>1. /\ UNCHANGED <<original, short, rows, dry, runs>> /\ pc = "restore" /\ pc' = "done"
        /\ past' \in {past, past \cup {"undo_failed"}}
    BY <1>5 DEF Restore, Fail, given
  <2>2. ~dry
    BY <2>1 DEF Shape, Rewrites, Rewriting
  <2>3. QED
    BY <2>1, <2>2, SameRun
<1>6. CASE Unstage \/ Uninstall \/ RestoreNext
  BY <1>6, UndoHistory
<1>7. CASE CannotInstallName
  BY <1>7, CannotInstallNameHistory
<1>8. CASE Crash \/ RunAgain
  BY <1>8, NewRunHistory
<1>9. CASE Over \/ UNCHANGED vars
  <2>1. UNCHANGED <<original, short, rows, dry, pc, ok, runs, past>> /\ (Chained' <=> Chained)
    BY <1>9, SameTable DEF Over, vars
  <2>2. QED
    BY <2>1 DEF History
<1>10. QED
  BY <1>1, <1>2, <1>3, <1>4, <1>5, <1>6, <1>7, <1>8, <1>9 DEF Next


Seen == {n \in DOMAIN original \ ToSet(todo) : Refers(original[n])}

LEMMA WorldFinite ==
    ASSUME Control
    PROVE  /\ IsFiniteSet(DOMAIN original) /\ IsFiniteSet(Seen) /\ IsFiniteSet(Moving)
           /\ Cardinality(Seen) \in Nat
<1>1. IsFiniteSet(Everyone)
  BY UuidConstants, FS_AddElement DEF Everyone
<1>2. DOMAIN original \in SUBSET Everyone
  BY DEF Control
<1>3. IsFiniteSet(DOMAIN original)
  BY <1>1, <1>2, FS_Subset
<1>4. Seen \in SUBSET DOMAIN original /\ Moving \in SUBSET DOMAIN original
  BY DEF Seen, Moving
<1>5. IsFiniteSet(Seen) /\ IsFiniteSet(Moving)
  BY <1>3, <1>4, FS_Subset
<1>6. QED
  BY <1>3, <1>5, FS_CardinalityType

LEMMA SameRefers ==
    ASSUME UNCHANGED rows
    PROVE  \A content : Refers(content)' <=> Refers(content)
BY DEF Refers, Mapping

LEMMA StartCounts ==
    ASSUME Shape, Account, Start
    PROVE  Counts'
<1>1. pc' = "visit" /\ count'.changed = 0 /\ UNCHANGED <<original, short, rows>>
  BY DEF Start, given
<1>2. ToSet(todo') = DOMAIN original
  BY StartTodo
<1>3. {n \in DOMAIN original \ ToSet(todo') : Refers(original[n])'} = {}
  BY <1>2
<1>4. QED
  BY <1>1, <1>3, FS_EmptySet DEF Counts

\* The file that a dry run visits is as it was in the beginning.
LEMMA VisitCounts ==
    ASSUME Shape, Account, Counts, History, Visit
    PROVE  Counts'
<1>1. /\ pc = "visit" /\ todo # <<>> /\ UNCHANGED <<fs, original, short, rows, dry, runs, past>>
      /\ count' = [count EXCEPT !.changed = IF Refers(fs[File]) THEN @ + 1 ELSE @]
      /\ \/ pc' = "write" /\ ~dry
         \/ pc' = "visit" /\ todo' = Tail(todo)
  BY DEF Visit, given
<1>2. SUFFICES ASSUME runs = 1, dry PROVE Counts'
  BY <1>1 DEF Counts
<1>3. pc' = "visit" /\ todo' = Tail(todo) /\ Reading /\ ~Aside
  BY <1>1, <1>2 DEF Reading, Aside
<1>4. Control /\ InUse = DOMAIN original
  BY <1>3 DEF Shape, Account, WhileReading
<1>5. /\ Head(todo) \in ToSet(todo)
      /\ \A n : n \in ToSet(Tail(todo)) <=> n \in ToSet(todo) /\ n # Head(todo)
  BY <1>1, <1>3, TailOfTodo
<1>6. Head(todo) \in DOMAIN original
  <2>1. 1 \in DOMAIN todo /\ todo[1] = Head(todo) /\ Head(todo) \in Everyone
    BY <1>1, <1>4, HeadOfTodo
  <2>2. Present(Head(todo))
    BY <1>3, <2>1 DEF Shape, Rewrites
  <2>3. QED
    BY <1>4, <2>1, <2>2 DEF InUse
<1>7. fs[File] = original[Head(todo)]
  <2>1. Found(Head(todo), fs[At(Head(todo))])
    BY <1>1, <1>3, <1>5, <1>6 DEF Account, WhileReading
  <2>2. "incomplete_run" \notin past
    BY <1>2 DEF History
  <2>3. QED
    BY <2>1, <2>2 DEF Found, File
<1>8. {n \in DOMAIN original \ ToSet(todo') : Refers(original[n])}
        = IF Refers(fs[File]) THEN Seen \cup {Head(todo)} ELSE Seen
  BY <1>3, <1>5, <1>6, <1>7 DEF Seen
<1>9. Head(todo) \notin Seen
  BY <1>5 DEF Seen
<1>10. count.changed = Cardinality(Seen) /\ Cardinality(Seen) \in Nat /\ IsFiniteSet(Seen)
  BY <1>1, <1>2, <1>4, WorldFinite DEF Counts, Seen
<1>11. count'.changed = Cardinality({n \in DOMAIN original \ ToSet(todo') : Refers(original[n])})
  <2>1. count'.changed = IF Refers(fs[File]) THEN count.changed + 1 ELSE count.changed
    BY <1>1, <1>4 DEF Control
  <2>2. Cardinality(Seen \cup {Head(todo)}) = Cardinality(Seen) + 1
    BY <1>9, <1>10, FS_AddElement
  <2>3. QED
    BY <1>8, <1>10, <2>1, <2>2
<1>12. {n \in DOMAIN original' \ ToSet(todo') : Refers(original[n])'}
         = {n \in DOMAIN original \ ToSet(todo') : Refers(original[n])}
  BY <1>1, SameRefers
<1>13. QED
  BY <1>1, <1>3, <1>11, <1>12 DEF Counts

\* As many renames as files with a new name.
LEMMA HowManyRenames ==
    ASSUME Control, Plan, Reading, Pairing
    PROVE  Len(ops) = Cardinality(Moving)
<1> DEFINE owner == [i \in 1 .. Len(ops) |-> Owner(i)]
<1>1. DOMAIN ops = 1 .. Len(ops) /\ Len(ops) \in Nat
  BY OpsList
<1>2. owner \in [1 .. Len(ops) -> Moving]
  BY <1>1 DEF Pairing
<1>3. \A n \in Moving : \E i \in 1 .. Len(ops) : owner[i] = n
  BY <1>1 DEF Pairing
<1>4. ASSUME NEW i \in 1 .. Len(ops), NEW j \in 1 .. Len(ops), owner[i] = owner[j]
      PROVE  i = j
  <2>1. ops[i].from = At(Owner(i)) /\ ops[j].from = At(Owner(j))
    BY <1>1, Operation DEF Owner
  <2>2. QED
    BY <1>1, <1>4, <2>1 DEF Plan
<1>5. IsFiniteSet(1 .. Len(ops)) /\ Cardinality(1 .. Len(ops)) = Len(ops)
  BY <1>1, UpTo
<1> HIDE DEF owner
<1>6. owner \in Surjection(1 .. Len(ops), Moving) /\ owner \in Injection(1 .. Len(ops), Moving)
  BY <1>2, <1>3, <1>4 DEF Surjection, Injection, IsInjective
<1>7. QED
  BY <1>5, <1>6, FS_Surjection

LEMMA BeginRenamesCounts ==
    ASSUME Shape, Account, Counts, BeginRenames
    PROVE  Counts'
<1>1. /\ pc = "visit" /\ todo = <<>> /\ UNCHANGED <<original, short, rows, dry, runs>>
      /\ count' = [count EXCEPT !.renamed = Len(ops)] /\ pc' # "visit"
  BY DEF BeginRenames, given
<1>2. SUFFICES ASSUME runs = 1, dry PROVE Counts'
  BY <1>1 DEF Counts
<1>3. Reading /\ Control /\ Plan
  BY <1>1 DEF Reading, Shape
<1>4. Len(ops) = Cardinality(Moving)
  BY <1>3, HowManyRenames DEF Account
<1>5. ToSet(todo) = {}
  BY <1>1 DEF ToSet
<1>6. count.changed = Cardinality({n \in DOMAIN original : Refers(original[n])})
  <2>1. DOMAIN original \ ToSet(todo) = DOMAIN original
    BY <1>5
  <2>2. count.changed = Cardinality({n \in DOMAIN original \ ToSet(todo) : Refers(original[n])})
    BY <1>1, <1>2 DEF Counts
  <2>3. QED
    BY <2>1, <2>2
<1>7. count'.changed = count.changed /\ count'.renamed = Len(ops)
  BY <1>1, <1>3 DEF Control
<1>8. /\ {n \in DOMAIN original' : Refers(original[n])'} = {n \in DOMAIN original : Refers(original[n])}
      /\ Moving' = Moving
  BY <1>1, SameRefers, SameNames
<1>9. QED
  BY <1>1, <1>4, <1>6, <1>7, <1>8 DEF Counts

LEMMA StutterCounts ==
    ASSUME Counts, UNCHANGED vars
    PROVE  Counts'
<1>1. UNCHANGED <<original, short, rows, dry, pc, ok, todo, count, runs>>
  BY DEF vars
<1>2. /\ {n \in DOMAIN original' \ ToSet(todo') : Refers(original[n])'}
           = {n \in DOMAIN original \ ToSet(todo) : Refers(original[n])}
      /\ {n \in DOMAIN original' : Refers(original[n])'} = {n \in DOMAIN original : Refers(original[n])}
      /\ Moving' = Moving
  BY <1>1, SameRefers, SameNames
<1>3. QED
  BY <1>1, <1>2 DEF Counts

LEMMA CountsStep ==
    ASSUME Shape, Account, Counts, History, [Next]_vars
    PROVE  Counts'
<1>1. CASE Start \/ Visit \/ BeginRenames \/ Over \/ UNCHANGED vars
  BY <1>1, StartCounts, VisitCounts, BeginRenamesCounts, StutterCounts DEF Over
<1>2. ASSUME pc' \notin {"visit", "done"} \/ (pc' = "done" /\ ~ok') \/ ~dry' PROVE Counts'
  BY <1>2 DEF Counts
<1>3. CASE Refuse \/ CannotRead \/ CannotWrite \/ CannotPutAside \/ Restore \/ Undone
  BY <1>2, <1>3 DEF Refuse, CannotRead, CannotWrite, CannotPutAside, Restore, Undone, Fail
<1>4. CASE WriteTemporary \/ WriteShort \/ PutAside \/ Install \/ CannotInstall \/ Crash \/ RunAgain
  BY <1>2, <1>4 DEF WriteTemporary, WriteShort, PutAside, Install, CannotInstall, Crash, RunAgain
<1>5. CASE Stage \/ CannotStage \/ Staged \/ InstallName \/ CannotInstallName
  BY <1>2, <1>5 DEF Stage, CannotStage, Staged, InstallName, CannotInstallName
<1>6. CASE Unstage \/ Uninstall \/ RestoreOthers \/ RestoreNext
  BY <1>2, <1>6 DEF Unstage, Uninstall, RestoreOthers, RestoreNext
<1>7. CASE RemoveBackup \/ Succeed
  <2>1. ~dry
    BY <1>7 DEF RemoveBackup, Succeed, Shape, Rewrites, Rewriting, Renaming
  <2>2. UNCHANGED dry
    BY <1>7 DEF RemoveBackup, Succeed, given
  <2>3. QED
    BY <1>2, <2>1, <2>2
<1>8. QED
  BY <1>1, <1>3, <1>4, <1>5, <1>6, <1>7 DEF Next

LEMMA AInvariance == Spec => []AInv
<1>1. Init => AInv
  <2> SUFFICES ASSUME Init PROVE AInv
    OBVIOUS
  <2>1. pc = "start" /\ past = {}
    BY DEF Init
  <2>2. original = [n \in DOMAIN original |-> original[n]]
    BY DEF Init
  <2>3. History /\ Counts
    BY <2>1, <2>2 DEF History, Counts
  <2>4. QED
    BY <2>3, InitAccount DEF AInv
<1>2. IInv /\ AInv /\ [Next]_vars => AInv'
  <2> SUFFICES ASSUME IInv, AInv, [Next]_vars PROVE AInv'
    OBVIOUS
  <2>1. Shape /\ History
    BY DEF IInv, AInv
  <2>2. History'
    BY <2>1, HistoryStep
  <2>3. ASSUME Fine' PROVE Account' /\ Counts'
    <3>1. Fine /\ Safe
      BY <2>3, PastGrows, FineBefore
    <3>2. Account /\ Counts
      BY <3>1 DEF AInv
    <3>3. QED
      BY <2>1, <2>3, <3>1, <3>2, AccountStep, CountsStep
  <2>4. QED
    BY <2>2, <2>3 DEF AInv
<1>3. QED
  BY <1>1, <1>2, Invariance, PTL DEF Spec

-----------------------------------------------------------------------------
(* What Run promises when it returns.                                      *)

NewName(n) == IF n # Level /\ FindMapped(UuidOf[n]) # UuidOf[n] THEN Target(n) ELSE n
OldOf(p) == CHOOSE n \in DOMAIN original : NewName(n) = p

LEMMA RepairedIs ==
    Repaired = [p \in {NewName(n) : n \in DOMAIN original} |-> New(OldOf(p))]
BY DEF Repaired, NewName, OldOf, New

LEMMA NewNameIs ==
    ASSUME Control, NEW n \in DOMAIN original
    PROVE  /\ n \in Moving => NewName(n) = Target(n) /\ n \in Names
           /\ n \in Staying => NewName(n) = n
           /\ n \in Moving \/ n \in Staying
<1>1. Level \notin Names
  BY UuidConstants
<1>2. n \in Names \/ n = Level
  BY DEF Control, Everyone
<1>3. QED
  BY <1>1, <1>2 DEF NewName, Moving, Staying

LEMMA OldOfNewName ==
    ASSUME Control, NamesApart, NEW n \in DOMAIN original
    PROVE  OldOf(NewName(n)) = n
<1>1. ASSUME NEW m \in DOMAIN original, NewName(m) = NewName(n) PROVE m = n
  <2>1. /\ m \in Moving => NewName(m) = Target(m)
        /\ m \in Staying => NewName(m) = m
        /\ m \in Moving \/ m \in Staying
    BY NewNameIs
  <2>2. /\ n \in Moving => NewName(n) = Target(n)
        /\ n \in Staying => NewName(n) = n
        /\ n \in Moving \/ n \in Staying
    BY NewNameIs
  <2>3. QED
    BY <1>1, <2>1, <2>2 DEF NamesApart
<1>2. QED
  BY <1>1 DEF OldOf

LEMMA VisibleIs ==
    Visible = [n \in {m \in Everyone : Present(m)} |-> fs[At(n)]]
BY DEF Visible, Everyone

LEMMA VisibleAsBefore ==
    ASSUME Control, AllThere
    PROVE  Visible = [n \in DOMAIN original |-> fs[At(n)]]
<1>1. {m \in Everyone : Present(m)} = DOMAIN original
  BY DEF Control, AllThere
<1>2. QED
  BY <1>1, VisibleIs

\* The theorem's hypotheses exclude a kill and an undo that failed; an undo
\* that went over a file was followed by an error, and then this is a second
\* run with a table that is not chained.
LEMMA RealRunRight ==
    ASSUME IInv, AInv
    PROVE  RealRunRepairs
<1> SUFFICES ASSUME pc = "done", ok, ~dry, past \cap {"crash", "undo_failed"} = {},
                    "incomplete_run" \in past => ~Chained
             PROVE  /\ DOMAIN Visible = DOMAIN Repaired
                    /\ \A p \in DOMAIN Visible :
                           \/ Visible[p] = Repaired[p]
                           \/ Repaired[p].of \in short /\ Visible[p] = Cut(Repaired[p])
  BY DEF RealRunRepairs
<1>1. "overtaken" \notin past
  BY DEF AInv, History
<1>2. Fine
  BY <1>1 DEF Fine
<1>3. Control /\ NamesApart /\ rows \in Csvs /\ ~TableRefused(rows)
  BY <1>2 DEF IInv, Shape, Control, AInv, Account, AtTheEnd
<1>4. /\ \A n \in Moving : Holds(fs, At(Target(n)), n)
      /\ \A n \in Staying : Holds(fs, At(n), n)
      /\ \A n \in Everyone : Present(n) => n \in Staying \/ \E m \in Moving : n = Target(m)
  BY <1>2 DEF AInv, Account, AtTheEnd
<1>5. ASSUME NEW n \in DOMAIN original
      PROVE  NewName(n) \in Everyone /\ Present(NewName(n)) /\ Renewed(n, fs[At(NewName(n))])
  <2>1. CASE n \in Moving
    <3>1. NewName(n) = Target(n) /\ Target(n) \in Everyone
      BY <1>3, <2>1, NewNameIs, NewNames DEF Everyone
    <3>2. QED
      BY <1>4, <2>1, <3>1 DEF Holds, Present
  <2>2. CASE n \in Staying
    <3>1. NewName(n) = n /\ n \in Everyone
      BY <1>3, <2>2, NewNameIs DEF Control
    <3>2. QED
      BY <1>4, <2>2, <3>1 DEF Holds, Present
  <2>3. QED
    BY <1>3, <2>1, <2>2, NewNameIs
<1>6. ASSUME NEW p \in Everyone, Present(p) PROVE p \in {NewName(n) : n \in DOMAIN original}
  <2>1. CASE p \in Staying
    BY <1>3, <2>1, NewNameIs DEF Staying
  <2>2. ASSUME NEW m \in Moving, p = Target(m) PROVE p \in {NewName(n) : n \in DOMAIN original}
    BY <1>3, <2>2, NewNameIs DEF Moving
  <2>3. QED
    BY <1>4, <1>6, <2>1, <2>2
<1>7. {m \in Everyone : Present(m)} = {NewName(n) : n \in DOMAIN original}
  BY <1>5, <1>6
<1>8. ASSUME NEW p \in {NewName(n) : n \in DOMAIN original} 
      PROVE  /\ Repaired[p].of = OldOf(p)
             /\ \/ fs[At(p)] = Repaired[p]
                \/ OldOf(p) \in short /\ fs[At(p)] = Cut(Repaired[p])
  <2>1. PICK n \in DOMAIN original : p = NewName(n)
    OBVIOUS
  <2>2. OldOf(p) = n /\ Repaired[p] = New(n) /\ New(n).of = n
    BY <1>3, <2>1, OldOfNewName, RepairedIs, Whose
  <2>3. Cut(New(n)) = Cut(original[n])
    BY <1>3 DEF Control, New, Rewritten, Cut
  <2>4. QED
    BY <1>5, <2>1, <2>2, <2>3 DEF Renewed
<1>9. QED
  BY <1>7, <1>8, VisibleIs, RepairedIs

LEMMA RenamedFiles ==
    ASSUME Control, NamesApart, ~TableRefused(rows)
    PROVE  {n \in DOMAIN original : n \notin DOMAIN Repaired \/ Repaired[n].of # n} = Moving
<1>1. /\ DOMAIN Repaired = {NewName(n) : n \in DOMAIN original}
      /\ \A m \in DOMAIN original : Repaired[NewName(m)] = New(m)
  BY RepairedIs, OldOfNewName
<1>2. ASSUME NEW n \in Staying PROVE n \in DOMAIN Repaired /\ Repaired[n].of = n
  <2>1. n \in DOMAIN original /\ NewName(n) = n
    BY NewNameIs DEF Staying
  <2>2. QED
    BY <1>1, <2>1, Whose
<1>3. ASSUME NEW n \in Moving, n \in DOMAIN Repaired PROVE Repaired[n].of # n
  <2>1. PICK m \in DOMAIN original : n = NewName(m)
    BY <1>1, <1>3
  <2>2. Repaired[n].of = m
    BY <1>1, <2>1, Whose
  <2>3. n \in DOMAIN original /\ n \in Names /\ FindMapped(UuidOf[n]) # UuidOf[n]
    BY DEF Moving
  <2>4. NewName(n) # n
    BY <2>3, NewNameIs, NewNames DEF Control
  <2>5. QED
    BY <2>1, <2>2, <2>4
<1>4. QED
  BY <1>2, <1>3 DEF Staying, Moving

LEMMA DryRunRight ==
    ASSUME IInv, AInv
    PROVE  DryRunExact
<1> SUFFICES ASSUME pc = "done", ok, dry, runs = 1
             PROVE  /\ Visible = original
                    /\ count.changed = Cardinality({n \in DOMAIN original : Refers(original[n])})
                    /\ count.renamed = Cardinality(
                           {n \in DOMAIN original : n \notin DOMAIN Repaired \/ Repaired[n].of # n})
  BY DEF DryRunExact
<1>1. "incomplete_run" \notin past /\ original = [n \in DOMAIN original |-> original[n]]
  BY DEF AInv, History
<1>2. Fine
  BY DEF AInv, History, Fine
<1>3. Control /\ NamesApart /\ ~TableRefused(rows) /\ AllThere
  BY <1>2 DEF IInv, Shape, AInv, Account, AtTheEnd
<1>4. ASSUME NEW n \in DOMAIN original PROVE fs[At(n)] = original[n]
  <2>1. Left(n, fs[At(n)])
    BY <1>2 DEF AInv, Account, AtTheEnd
  <2>2. QED
    BY <1>1, <2>1 DEF Left, Found
<1>5. Visible = original
  <2>1. Visible = [n \in DOMAIN original |-> original[n]]
    BY <1>3, <1>4, VisibleAsBefore
  <2>2. QED
    BY <1>1, <2>1
<1>6. QED
  BY <1>2, <1>3, <1>5, RenamedFiles DEF AInv, Counts

\* A first run that fails leaves every player's file under the name it had,
\* and level.dat in its place, each as it was or with its references replaced,
\* whichever call failed.  The exceptions: a run that was killed, or whose
\* undo failed or went over a file; and a file that a writer cut short
\* without noticing, which is there under its old name, but in pieces.
THEOREM ErrorUndoneCorrect == Spec => []ErrorUndone
<1>1. IInv /\ AInv => ErrorUndone
  <2> SUFFICES ASSUME IInv, AInv, pc = "done", ~ok, past = {}
               PROVE  /\ DOMAIN Visible = DOMAIN original
                      /\ \A n \in DOMAIN original :
                             \/ Visible[n] \in {original[n], Rewritten(original[n])}
                             \/ n \in short /\ Visible[n] = Cut(original[n])
    BY DEF ErrorUndone
  <2>1. Fine
    BY DEF Fine
  <2>2. Control /\ AllThere /\ \A n \in DOMAIN original : Left(n, fs[At(n)])
    BY <2>1 DEF IInv, Shape, AInv, Account, AtTheEnd
  <2>3. Visible = [n \in DOMAIN original |-> fs[At(n)]]
    BY <2>2, VisibleAsBefore
  <2>4. QED
    BY <2>2, <2>3 DEF Left, Renewed, New
<1>2. QED
  BY <1>1, Invariance, AInvariance, PTL

\* When a real run answers Ok, the world is exactly the repaired one: every
\* reference is replaced, once and simultaneously, every player's file has its
\* new name, and nothing else is there; except that a file which a writer cut
\* short without noticing is in pieces under its new name.  Excluded are a
\* kill or a failed undo before, and the second use of a chained table.  A
\* first run that is dry leaves the files as they were and has counted the
\* files and the renames that a run would change.
THEOREM OkMeansRepairedCorrect == Spec => []OkMeansRepaired
<1>1. IInv /\ AInv => OkMeansRepaired
  BY RealRunRight, DryRunRight DEF OkMeansRepaired
<1>2. QED
  BY <1>1, Invariance, AInvariance, PTL
=============================================================================
