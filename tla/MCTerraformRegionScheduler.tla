---------------------- MODULE MCTerraformRegionScheduler ----------------------
(* A 3 x 3 block, whose centre has all nine neighbours, without one of its *)
(* corners, and an isolated region far away.                               *)
EXTENDS TerraformRegionScheduler

At(x, z) == [fX |-> x, fZ |-> z]

MCRegions ==
  ({At(x, z) : x \in 0..2, z \in 0..2} \ {At(2, 2)}) \cup {At(7, -4)}

MCStrangers == {At(5, 5)}

===============================================================================
