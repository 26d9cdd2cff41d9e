-------------------------------- MODULE MCBeth --------------------------------
(* Beth for TLC.                                                           *)
EXTENDS Beth

(* The mainchain would go on; the model stops at MaxMain blocks.           *)
AtBound == pc \in {"mine", "start"} /\ Len(main) = MaxMain /\ UNCHANGED vars

MCSpec == Init /\ [][Next \/ AtBound]_vars

MCFairSpec == MCSpec /\ Fairness
=============================================================================
