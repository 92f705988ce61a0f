--------------------------- MODULE MCBedrockPipeline ---------------------------
(* Three regions in a row, the second one the heaviest. *)
EXTENDS BedrockPipeline

At(x, z) == [fX |-> x, fZ |-> z]

MCRegions == {At(0, 0), At(1, 0), At(2, 0)}

MCWeight == [r \in MCRegions |-> IF r = At(1, 0) THEN 2 ELSE 1]

===============================================================================
