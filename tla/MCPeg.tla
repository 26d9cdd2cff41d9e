--------------------------------- MODULE MCPeg ---------------------------------
(* Peg for TLC.                                                            *)
EXTENDS Peg

MCMsgValue == {4}
MCMainFeeSats == {1}
MCDepositSats == {1, 2}
MCBaseFees == {0, 1}

(* The chain would go on; the model stops at its bounds.                  *)
AtBound == phase = "sealed" /\ height = MaxHeight /\ UNCHANGED pegVars

MCSpec == PegInit /\ [][PegNext \/ AtBound]_pegVars
=============================================================================
