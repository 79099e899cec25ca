---------------------------- MODULE MCEventVoting ----------------------------
(***************************************************************************)
(* Instances of EventVoting for TLC.                                       *)
(***************************************************************************)
EXTENDS EventVoting

CONSTANTS e1
==============================================================================
