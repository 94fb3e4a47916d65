--------------------------- MODULE MCConversation ---------------------------
(***************************************************************************)
(* Instances of Conversation for TLC.                                      *)
(***************************************************************************)
EXTENDS Conversation, TLC

\* The defaults, and the least the settings allow of either.
MCLimits == {[steps |-> 12, calls |-> 8], [steps |-> 12, calls |-> 1],
             [steps |-> 1, calls |-> 8]}
=============================================================================
