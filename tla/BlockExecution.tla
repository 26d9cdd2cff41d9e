---------------------------- MODULE BlockExecution ----------------------------
(***************************************************************************)
(* apply_pre_execution_changes of src/evm.rs, as a function: the state a  *)
(* sidechain block leaves, from the state of its parent, the mainchain    *)
(* blocks the two are anchored to, and the withdrawal requests its        *)
(* transactions add.  Building a block and validating it run the same     *)
(* function; everything it reads of the mainchain lies on the path of the *)
(* block's anchor.                                                        *)
(*                                                                        *)
(* WithdrawalRequestQueue has the contract's calls step by step, with     *)
(* refunds, callbacks and reverts; BundleSelection has the choice of the  *)
(* bundle.  Here a refund is one more status, requests differ by their    *)
(* index alone, and a bundle takes the oldest BundleCapacity of them.     *)
(* Peg has what becomes of a deposit that is handed to DepositVault.      *)
(***************************************************************************)
EXTENDS Enforcer, LifecycleUpdate

CONSTANTS
    BundleCapacity, \* how many requests fit in an M6
    OutOfGas        \* which lifecycle calls may run out of gas (model input)

ASSUME ExecutionAssumption ==
    /\ BundleCapacity \in Nat \ {0}
    /\ OutOfGas \subseteq {"bundling", "settling"}

(* `handed' lists the deposits handed to systemCreditDeposits, in order.  *)
ChainState ==
    [requestCount : 0 .. MaxRequests,
     requests     : [Index -> [status : Status, bundleM6id : M6id]],
     handed       : Seq(1 .. MaxMain)]

GenesisState ==
    [requestCount |-> 0,
     requests     |-> [i \in Index |-> [status |-> "Pending", bundleM6id |-> NoBundle]],
     handed       |-> <<>>]

Select(q) == Oldest(q, BundleCapacity)

MarkRefunded(requests, failed) ==
    [i \in Index |-> IF \E job \in failed : job[2] = i
                     THEN [requests[i] EXCEPT !.status = "Refunded"]
                     ELSE requests[i]]

(***************************************************************************)
(* The gas of the lifecycle call is fixed.  A bundle, or a settlement, of *)
(* many requests may need more, and each refund lets the requester burn   *)
(* 63/64 of what is left.  Without a bundle and without a request to      *)
(* settle there is no call.                                               *)
(***************************************************************************)
Settles(q, outcomes) ==
    \E status \in {"Succeeded", "Failed"} : Resolved(q, outcomes, status) # {}

MayHalt(q, outcomes) ==
    \/ Select(q) # {} /\ "bundling" \in OutOfGas
    \/ Select(q) = {} /\ Settles(q, outcomes) /\ "settling" \in OutOfGas

(* The system call on the queue.  Its result is committed whatever it is: *)
(* a call that reverts, or runs out of gas, changes nothing.              *)
ReportBundleLifecycle(q, number, outcomes, halted) ==
    LET bundled   == Select(q)
        succeeded == Resolved(q, outcomes, "Succeeded")
        failed    == Resolved(q, outcomes, "Failed")
        marked    == MarkBundled(q.requests, bundled, NewM6id(bundled, number))
        confirmed == MarkConfirmed(marked, succeeded)
        returns   == /\ ~halted
                     /\ AllPending(q.requests, bundled)
                     /\ AllBundled(marked, succeeded)
                     /\ AllBundled(confirmed, failed)
    IN  IF returns THEN MarkRefunded(confirmed, failed) ELSE q.requests

(* Execution fails when a query does: no block can have these anchors.    *)
Executable(parentAnchor, anchor) == DepositsReadable(parentAnchor, anchor)

Execute(parent, number, parentAnchor, anchor, newRequests, halted) ==
    LET outcomes == WithdrawalBundleEvents(parentAnchor, anchor) IN
    [requestCount |-> parent.requestCount + newRequests,
     requests     |-> ReportBundleLifecycle(parent, number, outcomes, halted),
     handed       |-> parent.handed \o Deposits(parentAnchor, anchor)]
=============================================================================
