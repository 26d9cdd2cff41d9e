------------------------ MODULE WithdrawalRequestQueue ------------------------
(***************************************************************************)
(* contracts/WithdrawalRequestQueue.sol together with the one caller of   *)
(* its system entry point: the per-block hook of src/evm.rs, which        *)
(* computes the call from the state of the PARENT block                   *)
(* (src/withdrawal_bundle.rs, compute_lifecycle_update).                  *)
(*                                                                        *)
(* A block is executed in three stages: the deposit system call, whose    *)
(* recipients may call back into the queue; the lifecycle system call,    *)
(* whose refund loop hands control to each requester in turn; then the    *)
(* user transactions.  Statuses change only in the lifecycle call; the    *)
(* queue grows in all three stages.  Execution may be abandoned (an RPC   *)
(* fails, the block is rejected), and the lifecycle call may revert or    *)
(* run out of gas, in which case src/evm.rs goes on with the block as if  *)
(* the call had not been made.                                            *)
(*                                                                        *)
(* Abstracted: which Pending requests a bundle takes (any set here;       *)
(* module BundleSelection has the choice), the btcDestination bytes, and  *)
(* the identity of requesters (a requester is what its callback does).    *)
(***************************************************************************)
EXTENDS LifecycleUpdate, FiniteSetsExt

CONSTANTS
    WeiPerSat,      \* WEI_PER_SAT
    MaxSats,        \* type(uint64).max
    MsgValue,       \* the amounts of wei callers attach (model input)
    MainFeeSats,    \* the mainFeeSats arguments callers pass (model input)
    MaxHeight,      \* bound on the sidechain height (model bound)
    MaxOutcomes     \* bound on the outcomes one range reports (model bound)

ASSUME QueueAssumption ==
    /\ WeiPerSat \in Nat \ {0}
    /\ MaxSats \in Nat
    /\ MsgValue \subseteq Nat /\ MainFeeSats \subseteq Nat
    /\ MaxHeight \in Nat /\ MaxOutcomes \in Nat

Request == [valueSats : Nat, mainFeeSats : Nat, status : Status, bundleM6id : M6id]

(* What each request locks.                                               *)
Sats(q) == [i \in Index |-> q.requests[i].valueSats + q.requests[i].mainFeeSats]

(* A storage slot nobody wrote reads as zeroes, and STATUS_PENDING is 0.  *)
EmptyRequest ==
    [valueSats |-> 0, mainFeeSats |-> 0, status |-> "Pending", bundleM6id |-> NoBundle]

(***************************************************************************)
(* The contract's storage and balance.  `refunds' counts the transfers    *)
(* each request's owner accepted (the WithdrawalRefunded events with      *)
(* transferSucceeded set).                                                *)
(***************************************************************************)
QueueState ==
    [requestCount : 0 .. MaxRequests,
     requests     : [Index -> Request],
     balance      : Nat,
     refunds      : [Index -> Nat]]

VARIABLES
    queue,          \* the contract, in the block being executed
    parent,         \* the contract, in the state of the last block of the chain
    height,         \* number of the block being executed, or of the last block
    phase,          \* "sealed", "deposits", "refunds", "callee" or "txs"
    beforeCall,     \* the contract when the lifecycle call started
    todo            \* the failedIndices the refund loop has not reached yet

chain == <<parent, height>>
vars == <<queue, parent, height, phase, beforeCall, todo>>

Phase == {"sealed", "deposits", "refunds", "callee", "txs"}

Init ==
    /\ queue = [requestCount |-> 0,
                requests     |-> [i \in Index |-> EmptyRequest],
                balance      |-> 0,
                refunds      |-> [i \in Index |-> 0]]
    /\ parent = queue
    /\ height = 0
    /\ phase = "sealed"
    /\ beforeCall = queue
    /\ todo = {}

-----------------------------------------------------------------------------
(***************************************************************************)
(* requestWithdrawal, callable by anyone whenever code runs: a user       *)
(* transaction, the recipient of a deposit, the receiver of a refund.     *)
(***************************************************************************)
RequestWithdrawal(msgValue, mainFeeSats) ==
    LET totalSats == msgValue \div WeiPerSat
        index     == queue.requestCount
    IN  /\ phase \in {"deposits", "callee", "txs"}
        /\ index < MaxRequests
        /\ msgValue > 0
        /\ msgValue % WeiPerSat = 0
        /\ mainFeeSats < totalSats
        /\ totalSats <= MaxSats
        /\ queue' = [queue EXCEPT
                       !.requestCount = index + 1,
                       !.requests[index] =
                           [valueSats   |-> totalSats - mainFeeSats,
                            mainFeeSats |-> mainFeeSats,
                            status      |-> "Pending",
                            bundleM6id  |-> NoBundle],
                       !.balance = @ + msgValue]
        /\ UNCHANGED <<chain, phase, beforeCall, todo>>

-----------------------------------------------------------------------------
(***************************************************************************)
(* src/evm.rs, once the deposits are credited: fetch the outcomes, make   *)
(* the call unless it is empty, commit what it left.  Loops 1 and 2 run   *)
(* without interruption; a failed require undoes the call and the block   *)
(* goes on, because the result of the call is not looked at.              *)
(***************************************************************************)
ReportLifecycle(bundled, outcomes) ==
    LET m6id      == NewM6id(bundled, height)
        succeeded == Resolved(parent, outcomes, "Succeeded")
        failed    == Resolved(parent, outcomes, "Failed")
        marked    == MarkBundled(queue.requests, bundled, m6id)
        isEmpty   == bundled = {} /\ succeeded = {} /\ failed = {}
        accepted  == /\ AllPending(queue.requests, bundled)
                     /\ AllBundled(marked, succeeded)
    IN  /\ phase = "deposits"
        /\ bundled \subseteq PendingIn(parent)
        /\ IF isEmpty \/ ~accepted
             THEN /\ phase' = "txs"
                  /\ UNCHANGED <<queue, beforeCall, todo>>
             ELSE /\ phase' = "refunds"
                  /\ queue' = [queue EXCEPT !.requests = MarkConfirmed(marked, succeeded)]
                  /\ beforeCall' = queue
                  /\ todo' = failed
        /\ UNCHANGED chain

(* The element of failedIndices that loop 3 reaches next.                 *)
IsNext(job) ==
    \A other \in todo : \/ job[1] < other[1]
                        \/ job[1] = other[1] /\ job[2] <= other[2]

(* A bug the properties must notice, not the code: loop 3 without its     *)
(* require.                                                               *)
StillBundledUnchecked(i) == TRUE

StillBundled(i) == queue.requests[i].status = "Bundled"
(* A bug the properties must notice, not the code: the fee stays locked.  *)
AmountWeiWithoutFee(request) == request.valueSats * WeiPerSat

AmountWei(request) == (request.valueSats + request.mainFeeSats) * WeiPerSat

(* Loop 3, the transfer accepted: the requester's code runs next.         *)
RefundAccepted(job) ==
    LET i == job[2] IN
    /\ phase = "refunds" /\ IsNext(job)
    /\ StillBundled(i)
    /\ AmountWei(queue.requests[i]) <= queue.balance
    /\ queue' = [queue EXCEPT
                   !.requests[i].status = "Refunded",
                   !.balance = @ - AmountWei(queue.requests[i]),
                   !.refunds[i] = @ + 1]
    /\ phase' = "callee"
    /\ todo' = todo \ {job}
    /\ UNCHANGED <<chain, beforeCall>>

(* A bug the properties must notice, not the code: the status is only set *)
(* once the transfer went through.                                        *)
RefundRejectedStaysBundled(job) ==
    /\ phase = "refunds" /\ IsNext(job)
    /\ todo' = todo \ {job}
    /\ UNCHANGED <<queue, chain, phase, beforeCall>>

(* Loop 3, the transfer rejected (or beyond the balance): whatever the    *)
(* requester's code did is undone, the status stays, nothing is retried.  *)
RefundRejected(job) ==
    LET i == job[2] IN
    /\ phase = "refunds" /\ IsNext(job)
    /\ StillBundled(i)
    /\ queue' = [queue EXCEPT !.requests[i].status = "Refunded"]
    /\ todo' = todo \ {job}
    /\ UNCHANGED <<chain, phase, beforeCall>>

CalleeReturns ==
    /\ phase = "callee"
    /\ phase' = "refunds"
    /\ UNCHANGED <<queue, chain, beforeCall, todo>>

(* The require of loop 3 fails: the whole call is undone.                 *)
RefundReverts(job) ==
    /\ phase = "refunds" /\ IsNext(job)
    /\ ~StillBundled(job[2])
    /\ queue' = beforeCall
    /\ phase' = "txs"
    /\ todo' = {}
    /\ UNCHANGED <<chain, beforeCall>>

(* A bug the properties must notice, not the code: what the call did      *)
(* before it halted is committed.                                         *)
HaltKeepsEffects ==
    /\ phase \in {"refunds", "callee"}
    /\ phase' = "txs"
    /\ todo' = {}
    /\ UNCHANGED <<queue, chain, beforeCall>>

(***************************************************************************)
(* The call runs out of the gas a system call is given (in any loop, or   *)
(* in a callee): it is undone, and the block goes on.                     *)
(***************************************************************************)
LifecycleHalts ==
    /\ phase \in {"refunds", "callee"}
    /\ queue' = beforeCall
    /\ phase' = "txs"
    /\ todo' = {}
    /\ UNCHANGED <<chain, beforeCall>>

LifecycleReturns ==
    /\ phase = "refunds" /\ todo = {}
    /\ phase' = "txs"
    /\ UNCHANGED <<queue, chain, beforeCall, todo>>

-----------------------------------------------------------------------------
(* The block around the calls.                                            *)

StartBlock ==
    /\ phase = "sealed" /\ height < MaxHeight
    /\ height' = height + 1
    /\ phase' = "deposits"
    /\ UNCHANGED <<queue, parent, beforeCall, todo>>

(***************************************************************************)
(* The deposit call runs out of gas: what its recipients queued is undone *)
(* with it, and the block goes on.                                        *)
(***************************************************************************)
DepositsHalt ==
    /\ phase = "deposits"
    /\ queue' = parent
    /\ UNCHANGED <<chain, phase, beforeCall, todo>>

(* The state the block left becomes the parent state of the next.         *)
SealBlock ==
    /\ phase = "txs"
    /\ phase' = "sealed"
    /\ parent' = queue
    /\ UNCHANGED <<queue, height, beforeCall, todo>>

(* A bug the properties must notice, not the code: undoing a block that   *)
(* is already part of the chain.                                          *)
AbandonAnyBlock ==
    /\ queue' = parent
    /\ height' = height - 1
    /\ phase' = "sealed"
    /\ todo' = {}
    /\ UNCHANGED <<parent, beforeCall>>

(* An RPC between the two calls fails, the block is rejected, or the node *)
(* stops: nothing the execution did is kept.                              *)
AbandonBlock ==
    /\ phase # "sealed"
    /\ queue' = parent
    /\ height' = height - 1
    /\ phase' = "sealed"
    /\ todo' = {}
    /\ UNCHANGED <<parent, beforeCall>>

-----------------------------------------------------------------------------
(***************************************************************************)
(* Outcomes name M6s some request was assigned to, or one that no request *)
(* carries (NoBundle stands for any such).  Nothing in the code keeps the *)
(* enforcer from reporting one twice.                                     *)
(***************************************************************************)
KnownM6ids == {parent.requests[i].bundleM6id : i \in Queued(parent)}
Outcome == [m6id : KnownM6ids \cup {NoBundle}, status : {"Submitted", "Succeeded", "Failed"}]

Lifecycle ==
    \/ \E bundled \in SUBSET Index, n \in 0 .. MaxOutcomes :
          \E outcomes \in [1 .. n -> Outcome] : ReportLifecycle(bundled, outcomes)
    \/ \E job \in todo :
          RefundAccepted(job) \/ RefundRejected(job) \/ RefundReverts(job)
    \/ CalleeReturns
    \/ LifecycleHalts
    \/ LifecycleReturns

Next ==
    \/ \E msgValue \in MsgValue, mainFeeSats \in MainFeeSats :
          RequestWithdrawal(msgValue, mainFeeSats)
    \/ Lifecycle
    \/ StartBlock
    \/ DepositsHalt
    \/ SealBlock
    \/ AbandonBlock

Spec == Init /\ [][Next]_vars

-----------------------------------------------------------------------------
(* Every variable has its type.                                           *)
TypeOK ==
    /\ queue \in QueueState
    /\ parent \in QueueState
    /\ beforeCall \in QueueState
    /\ height \in Nat
    /\ phase \in Phase
    /\ todo \subseteq (Nat \X Index)

(***************************************************************************)
(* The wei the contract holds is, at every point of a block, exactly what *)
(* the requests that were not paid back locked: a rejected refund stays,  *)
(* an undone call gives nothing away, a re-entrant request adds its own.  *)
(* (requestWithdrawal and the refund loop of WithdrawalRequestQueue.sol.) *)
(***************************************************************************)
Unpaid(q) == {i \in Queued(q) : q.refunds[i] = 0}

LockedWei(q) == WeiPerSat * SumFunctionOnSet(Sats(q), Unpaid(q))

Conservation == queue.balance = LockedWei(queue)

(***************************************************************************)
(* A request's owner is paid back at most once, and never for a request   *)
(* that is still in play or whose bundle paid out on the mainchain: no    *)
(* repeated outcome, callback, revert or abandoned block leads to it.     *)
(***************************************************************************)
RefundedOnce ==
    \A i \in Index : /\ queue.refunds[i] <= 1
                     /\ queue.refunds[i] = 1 => queue.requests[i].status = "Refunded"

(***************************************************************************)
(* In the state of every block, the requests that carry an m6id are       *)
(* exactly the ones that M6 consumes, and they all have the same status:  *)
(* a bundle is never half assigned, half confirmed or half refunded.      *)
(***************************************************************************)
InBundle(q, i) == q.requests[i].status # "Pending"

BundleAtomic ==
    \A i \in Queued(parent) : InBundle(parent, i) =>
        LET m6id == parent.requests[i].bundleM6id IN
        /\ i \in m6id.indices
        /\ \A j \in m6id.indices :
              /\ j \in Queued(parent)
              /\ parent.requests[j].bundleM6id = m6id
              /\ parent.requests[j].status = parent.requests[i].status

(***************************************************************************)
(* Block by block, the contract implements WithdrawalLifecycle.           *)
(***************************************************************************)
Lifecycles == INSTANCE WithdrawalLifecycle WITH
    count  <- parent.requestCount,
    status <- [i \in Index |-> parent.requests[i].status],
    bundle <- [i \in Index |-> parent.requests[i].bundleM6id],
    M6id   <- M6id \ {NoBundle}

RefinesLifecycle == Lifecycles!Spec
=============================================================================
