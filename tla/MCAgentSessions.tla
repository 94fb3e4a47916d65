-------------------------- MODULE MCAgentSessions --------------------------
(***************************************************************************)
(* Instances of AgentSessions for TLC.                                     *)
(***************************************************************************)
EXTENDS AgentSessions, TLC

Symmetry == Permutations(Openers) \cup Permutations(Requests \ Openers)
=============================================================================
