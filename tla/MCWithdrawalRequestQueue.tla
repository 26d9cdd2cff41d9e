----------------------- MODULE MCWithdrawalRequestQueue -----------------------
(* WithdrawalRequestQueue and StorageReader for TLC.                       *)
EXTENDS StorageReader

(* Wei amounts: not whole satoshis, valid with and without a fee, and     *)
(* above type(uint64).max once divided.                                   *)
MCMsgValue == {1, 2, 6, 8}
MCMainFeeSats == {0, 1}

(* Lengths around a word of 4 bytes: none, one short of a word, a word,   *)
(* a word and a byte, two words and more.                                 *)
Bytes(length) == [k \in 1 .. length |-> (3 * k) % Base]
MCDestinations ==
    {[i \in Index |-> Bytes(lengths[i + 1])] : lengths \in {<<3, 4, 5>>, <<8, 0, 9>>}}

(* The chain would go on; the model stops at MaxHeight.                   *)
AtBound == phase = "sealed" /\ height = MaxHeight /\ UNCHANGED vars

MCSpec == Init /\ [][Next \/ AtBound]_vars
=============================================================================
