-------------------------- MODULE MCVolumeCaches --------------------------
(***************************************************************************)
(* Two readers, two records in one leaf and node 1 of the extents tree,    *)
(* which shares its number with that leaf.                                 *)
(***************************************************************************)
EXTENDS VolumeCaches, TLC

CONSTANTS c1, c2

MCLeafOf == (c1 :> 1) @@ (c2 :> 1)
Symmetry == Permutations(Readers) \union Permutations(Cnids)
===========================================================================
