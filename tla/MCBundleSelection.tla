--------------------------- MODULE MCBundleSelection ---------------------------
(* BundleSelection for TLC.                                                *)
EXTENDS BundleSelection

(***************************************************************************)
(* Script lengths: two P2WPKH scripts, a P2WSH one, and one that is too   *)
(* long for any M6 under MCMaxWeight.  An M6 with one P2WPKH payout       *)
(* weighs 576, each further one adds 124 and a P2WSH one 172: under 720   *)
(* two short payouts fit, and nothing fits next to the P2WSH payout.      *)
(***************************************************************************)
MCSpkSize == [d \in Destination |-> CASE d = 3 -> 34 [] d = 4 -> 80 [] OTHER -> 22]

MCMaxWeight == 720
=============================================================================
