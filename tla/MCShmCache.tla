---------------------------- MODULE MCShmCache -----------------------------
(***************************************************************************)
(* Two slots, three images and three sizes: the cache overflows with a     *)
(* smaller, an equal and a bigger segment in it, and hits are exact or     *)
(* with room to spare.                                                     *)
(***************************************************************************)
EXTENDS ShmCache, TLC

MCSizes == {1, 2, 3}

\* Nothing tells one image structure from another.
ImageSymmetry == Permutations(Images)
=============================================================================
