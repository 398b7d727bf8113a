-------------------------- MODULE MCUserDirectory --------------------------
(***************************************************************************)
(* Small instances of UserDirectory.                                       *)
(***************************************************************************)
EXTENDS UserDirectory, TLC

CONSTANTS r1, r2, r3

Symmetric == Permutations(Requests)
=============================================================================
