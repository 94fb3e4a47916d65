---------------------------- MODULE MCModelRunner ----------------------------
(***************************************************************************)
(* Instances of ModelRunner for TLC.                                       *)
(***************************************************************************)
EXTENDS ModelRunner, TLC
=============================================================================
