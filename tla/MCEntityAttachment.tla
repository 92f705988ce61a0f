-------------------------- MODULE MCEntityAttachment --------------------------
(***************************************************************************)
(* Two regions, one of two chunks.  A camel may carry a boat and a player, *)
(* the boat a cow and players, in either order; the cow may be leashed to  *)
(* a knot or sit on a player's shoulder.  Each is in any chunk; the cow    *)
(* and the knot may be in one that is not converted.                       *)
(***************************************************************************)
EXTENDS EntityAttachment

CONSTANTS camel, boat, cow, knot, p, q, north, south, n1, n2, s1

MCChunksOf == [r \in Regions |-> IF r = north THEN <<n1, n2>> ELSE <<s1>>]

Seats(who) == UNION {SetToSeqs(s) : s \in {t \in SUBSET who : Cardinality(t) <= 2}}

MCWorlds ==
  {w \in
    [at : {f \in [Entities -> Chunks \cup {Outside}] :
             f[camel] # Outside /\ f[boat] # Outside /\ f[knot] # n2},
     links : {[e \in Entities |-> IF e = camel THEN c ELSE IF e = boat THEN b ELSE <<>>] :
                c \in {<<>>, <<boat>>, <<q, boat>>, <<q>>}, b \in Seats({cow, p, q})},
     leasher : {[e \in Entities |-> IF e = cow THEN l ELSE None] : l \in {None, knot}},
     shoulder : {[x \in Players |-> IF x = p THEN e ELSE None] : e \in {None, cow}}] :
    /\ ToSet(w.links[camel]) \cap ToSet(w.links[boat]) = {}
    /\ w.shoulder[p] = cow => cow \notin ToSet(w.links[boat]) /\ w.leasher[cow] = None}

(* All of it in one chunk. *)
MCWorldsHere == {w \in MCWorlds : \A e \in Entities : w.at[e] = n1}

===============================================================================
