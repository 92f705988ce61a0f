----------------------------- MODULE MCJavaPipeline -----------------------------
(***************************************************************************)
(* Two regions of the overworld that touch and one of the nether.  Chunk   *)
(* a2 holds an entity and a leash knot that belongs to b1, of the other    *)
(* region, which has an entity of its own; the player rides the entity     *)
(* that is attached to b1; n1 is not finished.                             *)
(***************************************************************************)
EXTENDS JavaPipeline

CONSTANTS pig, knot, cow, horse, ghast, A, B, N

a1 == <<0, 0, 0>>
a2 == <<0, 1, 0>>
b1 == <<0, 2, 0>>
n1 == <<1, 0, 0>>
n2 == <<1, 0, 1>>

MCRegions == <<A, B, N>>
MCChunksOf == A :> <<a1, a2>> @@ B :> <<b1>> @@ N :> <<n1, n2>>
MCFull == {a1, a2, b1, n2}
MCEntities == {pig, knot, cow, horse, ghast}
MCFrom == pig :> a2 @@ knot :> a2 @@ cow :> b1 @@ horse :> b1 @@ ghast :> n2
MCHome == pig :> a2 @@ knot :> b1 @@ cow :> b1 @@ horse :> b1 @@ ghast :> n2

===============================================================================
