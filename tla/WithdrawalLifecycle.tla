------------------------- MODULE WithdrawalLifecycle -------------------------
(***************************************************************************)
(* What the withdrawal queue promises from one block to the next, with    *)
(* the EVM, the parent-state view and the transfers of                    *)
(* contracts/WithdrawalRequestQueue.sol abstracted away:                  *)
(*                                                                        *)
(*   - requests are only ever appended, and start Pending;                *)
(*   - a block assigns Pending requests to at most one bundle, whose name *)
(*     no request carried before;                                         *)
(*   - a bundle resolves as a whole and once: all its requests become     *)
(*     Confirmed, or all of them become Refunded;                         *)
(*   - a request keeps its bundle, and never leaves Confirmed or Refunded.*)
(***************************************************************************)
EXTENDS Naturals

CONSTANTS
    MaxRequests,    \* bound on the requests ever queued
    M6id,           \* the names a bundle can have
    NoBundle        \* the bundle of a request that has none, not in M6id

Index == 0 .. MaxRequests - 1

VARIABLES
    count,          \* requests queued so far
    status,         \* status of each index; "Pending" where nothing is queued yet
    bundle          \* the bundle each index was assigned to, or NoBundle

lifecycleVars == <<count, status, bundle>>

Init ==
    /\ count = 0
    /\ status = [i \in Index |-> "Pending"]
    /\ bundle = [i \in Index |-> NoBundle]

(* The statuses one block may give a request that has status s.           *)
Successors(s) ==
    CASE s = "Pending" -> {"Pending", "Bundled"}
      [] s = "Bundled" -> {"Bundled", "Confirmed", "Refunded"}
      [] OTHER -> {s}

NewlyBundled == {i \in Index : status[i] = "Pending" /\ status'[i] = "Bundled"}

(* One block of the sidechain.                                            *)
Block ==
    /\ count' \in count .. MaxRequests
    /\ status' \in [Index -> {"Pending", "Bundled", "Confirmed", "Refunded"}]
    /\ bundle' \in [Index -> M6id \cup {NoBundle}]
    /\ \A i \in Index : status'[i] \in Successors(status[i])
    /\ \A i \in Index : bundle'[i] = NoBundle <=> status'[i] = "Pending"
    /\ \A i \in NewlyBundled : i < count
    /\ \A i \in Index : status[i] # "Pending" => bundle'[i] = bundle[i]
    /\ \A i, j \in NewlyBundled : bundle'[i] = bundle'[j]
    /\ \A i \in NewlyBundled, j \in Index : bundle[j] # bundle'[i]
    /\ \A i, j \in Index :
          bundle'[i] # NoBundle /\ bundle'[i] = bundle'[j] => status'[i] = status'[j]

Spec == Init /\ [][Block]_lifecycleVars
=============================================================================
