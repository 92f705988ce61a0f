------------------------- MODULE MCTerraformDispatcher -------------------------
(* Three regions, two of the same weight, and three workers.                 *)
EXTENDS TerraformDispatcher

CONSTANTS w1, w2, w3

At(x, z) == [fX |-> x, fZ |-> z]

MCRegions == {At(0, 0), At(1, 0), At(0, 1)}

MCWorkers == {w1, w2, w3}

MCWeight == [r \in MCRegions |-> IF r = At(1, 0) THEN 2 ELSE 1]

===============================================================================
