---------------------------- MODULE LifecycleUpdate ----------------------------
(***************************************************************************)
(* compute_lifecycle_update of src/withdrawal_bundle.rs, and what loops 1 *)
(* and 2 of systemReportBundleLifecycle do with its result.  Operators    *)
(* only: WithdrawalRequestQueue runs them step by step inside the EVM,    *)
(* BlockExecution as one function from a parent state to a block state.   *)
(*                                                                        *)
(* A queue is a record with the fields requestCount and requests, a       *)
(* request one with at least status and bundleM6id.                       *)
(***************************************************************************)
EXTENDS Naturals, FiniteSets

CONSTANTS
    MaxU32,         \* u32::MAX, where the block height saturates
    MaxRequests     \* bound on the requests ever queued (model bound)

ASSUME UpdateAssumption == MaxU32 \in Nat /\ MaxRequests \in Nat

Index == 0 .. MaxRequests - 1

(***************************************************************************)
(* The M6 transaction id commits to the request indices it consumes and   *)
(* to the height it was proposed at; the payouts follow from the indices. *)
(***************************************************************************)
M6id == [indices : SUBSET Index, height : Nat]
NoBundle == [indices |-> {}, height |-> 0]      \* bytes32(0)

Status == {"Pending", "Bundled", "Confirmed", "Refunded"}

-----------------------------------------------------------------------------
(* compute_lifecycle_update, over the requests of the parent state.       *)

Queued(q) == 0 .. q.requestCount - 1
PendingIn(q) == {i \in Queued(q) : q.requests[i].status = "Pending"}

(***************************************************************************)
(* select_withdrawal_bundle, when requests differ by their age alone:     *)
(* BundleSelection has the real choice.                                   *)
(***************************************************************************)
Oldest(q, capacity) ==
    {i \in PendingIn(q) : Cardinality({j \in PendingIn(q) : j < i}) < capacity}

(* A bug the properties must notice, not the code: an outcome settles     *)
(* whatever is Bundled.                                                   *)
MatchingAnyBundle(q, outcome) == {i \in Queued(q) : q.requests[i].status = "Bundled"}

(* The requests an outcome names: still Bundled, and under its m6id.      *)
Matching(q, outcome) ==
    {i \in Queued(q) : /\ q.requests[i].status = "Bundled"
                       /\ q.requests[i].bundleM6id = outcome.m6id}

(***************************************************************************)
(* succeeded_indices and failed_indices, as pairs <<position of the       *)
(* outcome, request index>>: the Rust vectors list them in this order,    *)
(* and list an index twice when two outcomes name it.                     *)
(***************************************************************************)
Resolved(q, outcomes, status) ==
    {job \in (DOMAIN outcomes) \X Queued(q) :
        /\ outcomes[job[1]].status = status
        /\ job[2] \in Matching(q, outcomes[job[1]])}

NewM6id(bundled, h) ==
    [indices |-> bundled, height |-> IF h <= MaxU32 THEN h ELSE MaxU32]

-----------------------------------------------------------------------------
(* systemReportBundleLifecycle.                                           *)

(* Loop 1: the newly bundled requests.                                    *)
MarkBundled(requests, bundled, m6id) ==
    [i \in Index |-> IF i \in bundled
                     THEN [requests[i] EXCEPT !.status = "Bundled", !.bundleM6id = m6id]
                     ELSE requests[i]]

(* Loop 2: the requests of bundles that were paid out.                    *)
MarkConfirmed(requests, succeeded) ==
    [i \in Index |-> IF \E job \in succeeded : job[2] = i
                     THEN [requests[i] EXCEPT !.status = "Confirmed"]
                     ELSE requests[i]]

(* The require of loops 2 and 3, for a whole list: each index is Bundled  *)
(* when the loop reaches it, which a repeated index is not.               *)
AllBundled(requests, jobs) ==
    /\ \A job \in jobs : requests[job[2]].status = "Bundled"
    /\ \A a, b \in jobs : a[2] = b[2] => a = b

AllPending(requests, bundled) ==
    \A i \in bundled : requests[i].status = "Pending"
=============================================================================
