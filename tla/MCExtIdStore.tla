---------------------------- MODULE MCExtIdStore ----------------------------
(***************************************************************************)
(* Small instances of ExtIdSaved: two users who claim the same two         *)
(* externalIds through two goroutines.  The three sets are interchangeable *)
(* inside and every property checked is a safety property, so symmetry is  *)
(* sound.                                                                  *)
(***************************************************************************)
EXTENDS ExtIdSaved, TLC

Symmetry == Permutations(Ids) \cup Permutations(Exts) \cup Permutations(Procs)
=============================================================================
