------------------------------ MODULE RegionGrid ------------------------------
(***************************************************************************)
(* The plane of Minecraft regions that the Terraform phase of the          *)
(* Bedrock-to-Java conversion works on.  A region is a Pos2i, the pair of  *)
(* its region coordinates; terraforming one reads the temporary files of   *)
(* the 3 x 3 block of regions around it, itself included.                  *)
(***************************************************************************)
EXTENDS Integers, FiniteSets

CONSTANT Regions   \* the regions of one dimension of the world

ASSUME RegionsAssumption ==
  /\ Regions \subseteq [fX : Int, fZ : Int]
  /\ IsFiniteSet(Regions)

(* The loops "for dz in -1..1, for dx in -1..1" around a position. *)
Adjacent(r, s) ==
  /\ r.fX - s.fX \in -1..1
  /\ r.fZ - s.fZ \in -1..1

(* The positions of these loops that fStates.find() knows. *)
Hood(r) == {s \in Regions : Adjacent(r, s)}

(* The order in which the two nested loops visit positions. *)
Before(a, b) ==
  \/ a.fZ < b.fZ
  \/ a.fZ = b.fZ /\ a.fX < b.fX

===============================================================================
