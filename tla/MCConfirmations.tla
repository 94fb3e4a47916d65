-------------------------- MODULE MCConfirmations --------------------------
(***************************************************************************)
(* Instances of Confirmations for TLC.                                     *)
(***************************************************************************)
EXTENDS Confirmations, TLC

Symmetry ==
    Permutations(Decisions) \cup Permutations(Turns) \cup Permutations(Locks)
=============================================================================
