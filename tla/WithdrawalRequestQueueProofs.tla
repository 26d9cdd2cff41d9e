--------------------- MODULE WithdrawalRequestQueueProofs ---------------------
(***************************************************************************)
(* Theorems about WithdrawalRequestQueue, for every number of requests,   *)
(* every height and every amount.                                         *)
(***************************************************************************)
EXTENDS WithdrawalRequestQueue, FoldTheorems, TLAPS

(***************************************************************************)
(* Invariant, first part: shape.  Execution only starts on a counted      *)
(* block, and a snapshot is never behind the parent state.                *)
(***************************************************************************)
Shape ==
    /\ TypeOK
    /\ phase # "sealed" => height \in Nat \ {0}

(***************************************************************************)
(* The loops of systemReportBundleLifecycle return well-formed storage.   *)
(***************************************************************************)
LEMMA MarkType ==
    ASSUME NEW requests \in [Index -> Request], NEW bundled \in SUBSET Index,
           NEW m6id \in M6id, NEW jobs
    PROVE  /\ MarkBundled(requests, bundled, m6id) \in [Index -> Request]
           /\ MarkConfirmed(requests, jobs) \in [Index -> Request]
  BY DEF MarkBundled, MarkConfirmed, Request, Status

LEMMA NewM6idType ==
    ASSUME NEW bundled \in SUBSET Index, NEW h \in Nat
    PROVE  NewM6id(bundled, h) \in M6id
  BY QueueAssumption, UpdateAssumption DEF NewM6id, M6id

LEMMA ResolvedType ==
    ASSUME NEW q, q.requestCount \in 0 .. MaxRequests,
           NEW n \in Nat, NEW outcomes, DOMAIN outcomes = 1 .. n, NEW status
    PROVE  Resolved(q, outcomes, status) \subseteq (Nat \X Index)
  BY QueueAssumption, UpdateAssumption DEF Resolved, Matching, Queued, Index

LEMMA InitShape == Init => Shape
  BY QueueAssumption, UpdateAssumption DEF Init, Shape, TypeOK, QueueState, Request, Status, EmptyRequest,
     NoBundle, M6id, Phase, Index

LEMMA RequestShape ==
    ASSUME Shape, NEW msgValue \in MsgValue, NEW mainFeeSats \in MainFeeSats,
           RequestWithdrawal(msgValue, mainFeeSats)
    PROVE  Shape'
<1> DEFINE totalSats == msgValue \div WeiPerSat
           index == queue.requestCount
           request == [valueSats   |-> totalSats - mainFeeSats,
                       mainFeeSats |-> mainFeeSats,
                       status      |-> "Pending",
                       bundleM6id  |-> NoBundle]
<1>1. msgValue \in Nat /\ mainFeeSats \in Nat /\ totalSats \in Nat
  BY QueueAssumption, UpdateAssumption
<1>2. request \in Request
  <2>1. totalSats - mainFeeSats \in Nat
    <3> HIDE DEF totalSats
    <3>1. mainFeeSats < totalSats
      BY DEF RequestWithdrawal, totalSats
    <3> QED BY <1>1, <3>1
  <2> QED BY <1>1, <2>1 DEF Request, Status, NoBundle, M6id
<1>3. queue' \in QueueState
  <2> HIDE DEF request
  <2>1. index \in Index /\ index + 1 \in 0 .. MaxRequests
    <3>1. queue.requestCount \in 0 .. MaxRequests
      BY DEF Shape, TypeOK, QueueState
    <3>2. index < MaxRequests
      BY DEF RequestWithdrawal
    <3> HIDE DEF index
    <3>3. index \in 0 .. MaxRequests
      BY <3>1 DEF index
    <3> QED BY <3>2, <3>3, UpdateAssumption DEF Index
  <2>2. queue' = [queue EXCEPT !.requestCount = index + 1, !.requests[index] = request,
                               !.balance = @ + msgValue]
    BY DEF RequestWithdrawal, request
  <2>3. queue \in QueueState
    BY DEF Shape, TypeOK
  <2>4. [queue.requests EXCEPT ![index] = request] \in [Index -> Request]
    BY <1>2, <2>1, <2>3 DEF QueueState
  <2>5. queue.balance + msgValue \in Nat
    BY <1>1, <2>3 DEF QueueState
  <2> HIDE DEF index
  <2> QED BY <2>1, <2>2, <2>3, <2>4, <2>5 DEF QueueState
<1> QED BY <1>3 DEF RequestWithdrawal, Shape, TypeOK, chain

LEMMA ReportShape ==
    ASSUME Shape, NEW bundled \in SUBSET Index, NEW n \in Nat,
           NEW outcomes \in [1 .. n -> Outcome], ReportLifecycle(bundled, outcomes)
    PROVE  Shape'
<1> DEFINE m6id      == NewM6id(bundled, height)
           succeeded == Resolved(parent, outcomes, "Succeeded")
           failed    == Resolved(parent, outcomes, "Failed")
           marked    == MarkBundled(queue.requests, bundled, m6id)
           confirmed == MarkConfirmed(marked, succeeded)
<1>1. confirmed \in [Index -> Request]
  <2>1. queue.requests \in [Index -> Request] /\ height \in Nat
    BY DEF Shape, TypeOK, QueueState
  <2>2. m6id \in M6id
    BY <2>1, NewM6idType
  <2> HIDE DEF m6id
  <2>3. marked \in [Index -> Request]
    BY <2>1, <2>2, MarkType
  <2> HIDE DEF marked, succeeded
  <2> QED BY <2>2, <2>3, MarkType
<1>2. failed \subseteq (Nat \X Index)
  BY ResolvedType DEF Shape, TypeOK, QueueState
<1>3. CASE UNCHANGED <<queue, beforeCall, todo>> /\ phase' = "txs"
  BY <1>3 DEF ReportLifecycle, Shape, TypeOK, chain, Phase
<1>4. CASE /\ phase' = "refunds"
           /\ queue' = [queue EXCEPT !.requests = confirmed]
           /\ beforeCall' = queue
           /\ todo' = failed
  <2> HIDE DEF confirmed, failed
  <2>1. queue' \in QueueState
    BY <1>1, <1>4 DEF Shape, TypeOK, QueueState
  <2> QED BY <1>2, <1>4, <2>1 DEF ReportLifecycle, Shape, TypeOK, chain, Phase
<1> QED BY <1>3, <1>4 DEF ReportLifecycle

LEMMA RefundShape ==
    ASSUME Shape, NEW job \in todo, RefundAccepted(job) \/ RefundRejected(job)
    PROVE  Shape'
<1> DEFINE i == job[2]
           amount == AmountWei(queue.requests[i])
           refunded == [queue.requests EXCEPT ![i].status = "Refunded"]
<1>1. i \in Index /\ queue \in QueueState /\ queue.requests[i] \in Request
  BY DEF Shape, TypeOK, QueueState
<1>2. refunded \in [Index -> Request]
  BY <1>1 DEF QueueState, Request, Status
<1>3. todo' \subseteq (Nat \X Index)
  BY DEF RefundAccepted, RefundRejected, Shape, TypeOK
<1>4. CASE RefundAccepted(job)
  <2>1. amount \in Nat
    BY <1>1, QueueAssumption, UpdateAssumption DEF AmountWei, Request
  <2>2. queue' = [queue EXCEPT !.requests = refunded,
                               !.balance = queue.balance - amount,
                               !.refunds = [queue.refunds EXCEPT ![i] = queue.refunds[i] + 1]]
    BY <1>4 DEF RefundAccepted
  <2>3. amount <= queue.balance
    BY <1>4 DEF RefundAccepted
  <2>4. queue.balance - amount \in Nat
    <3> HIDE DEF amount
    <3> QED BY <1>1, <2>1, <2>3 DEF QueueState
  <2>5. [queue.refunds EXCEPT ![i] = queue.refunds[i] + 1] \in [Index -> Nat]
    BY <1>1 DEF QueueState
  <2>6. queue' \in QueueState
    <3> HIDE DEF amount, refunded, i
    <3> QED BY <1>1, <1>2, <2>2, <2>4, <2>5 DEF QueueState
  <2> QED BY <1>3, <1>4, <2>6 DEF RefundAccepted, Shape, TypeOK, chain, Phase
<1>5. CASE RefundRejected(job)
  <2>1. queue' = [queue EXCEPT !.requests = refunded]
    BY <1>5 DEF RefundRejected
  <2>2. queue' \in QueueState
    <3> HIDE DEF refunded
    <3> QED BY <1>1, <1>2, <2>1 DEF QueueState
  <2> QED BY <1>3, <1>5, <2>2 DEF RefundRejected, Shape, TypeOK, chain, Phase
<1> QED BY <1>4, <1>5

(***************************************************************************)
(* The steps that move no request: they keep the contract, or put back    *)
(* the parent state or the snapshot of the call.                          *)
(***************************************************************************)
Control ==
    \/ \E job \in todo : RefundReverts(job)
    \/ CalleeReturns
    \/ LifecycleHalts
    \/ LifecycleReturns
    \/ StartBlock
    \/ DepositsHalt
    \/ SealBlock
    \/ AbandonBlock

LEMMA ControlShape == Shape /\ Control => Shape'
<1> SUFFICES ASSUME Shape, Control PROVE Shape'
  OBVIOUS
<1> USE DEF Shape, TypeOK, chain, Phase
<1>1. CASE \E job \in todo : RefundReverts(job)
  BY <1>1 DEF RefundReverts
<1>2. CASE CalleeReturns
  BY <1>2 DEF CalleeReturns
<1>3. CASE LifecycleHalts
  BY <1>3 DEF LifecycleHalts
<1>4. CASE LifecycleReturns
  BY <1>4 DEF LifecycleReturns
<1>5. CASE StartBlock
  BY <1>5 DEF StartBlock
<1>6. CASE SealBlock
  BY <1>6 DEF SealBlock
<1>7. CASE AbandonBlock
  BY <1>7 DEF AbandonBlock
<1>8. CASE DepositsHalt
  BY <1>8 DEF DepositsHalt
<1> QED BY <1>1, <1>2, <1>3, <1>4, <1>5, <1>6, <1>7, <1>8 DEF Control

(***************************************************************************)
(* Every step is one of four kinds.                                       *)
(***************************************************************************)
LEMMA NextCases ==
    ASSUME Next
    PROVE  \/ \E msgValue \in MsgValue, mainFeeSats \in MainFeeSats :
                 RequestWithdrawal(msgValue, mainFeeSats)
           \/ \E bundled \in SUBSET Index, n \in Nat :
                 \E outcomes \in [1 .. n -> Outcome] : ReportLifecycle(bundled, outcomes)
           \/ \E job \in todo : RefundAccepted(job) \/ RefundRejected(job)
           \/ Control
  BY QueueAssumption, UpdateAssumption DEF Next, Lifecycle, Control

LEMMA NextShape == Shape /\ [Next]_vars => Shape'
<1> SUFFICES ASSUME Shape, [Next]_vars PROVE Shape'
  OBVIOUS
<1>1. CASE Next
  BY <1>1, NextCases, RequestShape, ReportShape, RefundShape, ControlShape
<1>2. CASE UNCHANGED vars
  BY <1>2 DEF vars, Shape, TypeOK
<1> QED BY <1>1, <1>2

(* The first part of the invariant holds at every step.                   *)
THEOREM ShapeInvariant == Spec => []Shape
  BY InitShape, NextShape, PTL DEF Spec

(***************************************************************************)
(* Type correctness: whatever the outcomes, callbacks, reverts and        *)
(* abandoned blocks, the contract's storage keeps its types; in           *)
(* particular a refund never takes the balance below zero.                *)
(***************************************************************************)
THEOREM TypeCorrect == Spec => []TypeOK
  BY ShapeInvariant, PTL DEF Shape

-----------------------------------------------------------------------------
(* What each kind of step does to one request.                            *)

LEMMA RequestEffect ==
    ASSUME Shape, NEW msgValue \in MsgValue, NEW mainFeeSats \in MainFeeSats,
           RequestWithdrawal(msgValue, mainFeeSats)
    PROVE  /\ phase \in {"deposits", "callee", "txs"}
           /\ queue.requestCount \in Index
           /\ queue'.requestCount = queue.requestCount + 1
           /\ queue'.refunds = queue.refunds
           /\ queue'.requests[queue.requestCount].status = "Pending"
           /\ \A i \in Index \ {queue.requestCount} : queue'.requests[i] = queue.requests[i]
           /\ UNCHANGED <<parent, height, phase, beforeCall, todo>>
  BY QueueAssumption, UpdateAssumption DEF RequestWithdrawal, Shape, TypeOK, QueueState, Index, chain

(* The call was accepted: loops 1 and 2 have run.                         *)
Reported(bundled, outcomes) ==
    LET succeeded == Resolved(parent, outcomes, "Succeeded") IN
    /\ phase' = "refunds"
    /\ beforeCall' = queue
    /\ todo' = Resolved(parent, outcomes, "Failed")
    /\ queue'.requestCount = queue.requestCount
    /\ queue'.refunds = queue.refunds
    /\ \A i \in bundled : queue.requests[i].status = "Pending"
    /\ \A job \in succeeded :
          job[2] \in bundled \/ queue.requests[job[2]].status = "Bundled"
    /\ \A i \in Index :
          /\ queue'.requests[i].bundleM6id =
                IF i \in bundled THEN NewM6id(bundled, height) ELSE queue.requests[i].bundleM6id
          /\ queue'.requests[i].status =
                IF \E job \in succeeded : job[2] = i THEN "Confirmed"
                ELSE IF i \in bundled THEN "Bundled"
                ELSE queue.requests[i].status

LEMMA ReportEffect ==
    ASSUME Shape, NEW bundled \in SUBSET Index, NEW n \in Nat,
           NEW outcomes \in [1 .. n -> Outcome], ReportLifecycle(bundled, outcomes)
    PROVE  /\ phase = "deposits"
           /\ bundled \subseteq PendingIn(parent)
           /\ UNCHANGED <<parent, height>>
           /\ \/ UNCHANGED <<queue, beforeCall, todo>> /\ phase' = "txs"
              \/ Reported(bundled, outcomes)
<1> DEFINE m6id      == NewM6id(bundled, height)
           succeeded == Resolved(parent, outcomes, "Succeeded")
           marked    == MarkBundled(queue.requests, bundled, m6id)
           confirmed == MarkConfirmed(marked, succeeded)
<1>1. succeeded \subseteq (Nat \X Index)
  BY ResolvedType DEF Shape, TypeOK, QueueState
<1>2. queue \in QueueState /\ m6id \in M6id
  BY NewM6idType DEF Shape, TypeOK
<1>3. marked \in [Index -> Request] /\ confirmed \in [Index -> Request]
  <2> HIDE DEF m6id, succeeded
  <2> QED BY <1>2, MarkType DEF QueueState
<1>4. \A i \in Index :
         /\ marked[i].bundleM6id = IF i \in bundled THEN m6id ELSE queue.requests[i].bundleM6id
         /\ marked[i].status = IF i \in bundled THEN "Bundled" ELSE queue.requests[i].status
  <2> HIDE DEF m6id
  <2> QED BY <1>2 DEF MarkBundled, QueueState, Request
<1>5. \A i \in Index :
         /\ confirmed[i].bundleM6id = marked[i].bundleM6id
         /\ confirmed[i].status = IF \E job \in succeeded : job[2] = i
                                  THEN "Confirmed" ELSE marked[i].status
  <2> HIDE DEF m6id, succeeded, marked
  <2> QED BY <1>3 DEF MarkConfirmed, Request
<1>6. CASE UNCHANGED <<queue, beforeCall, todo>> /\ phase' = "txs"
  BY <1>6 DEF ReportLifecycle, chain
<1>7. CASE /\ phase' = "refunds"
           /\ queue' = [queue EXCEPT !.requests = confirmed]
           /\ beforeCall' = queue
           /\ todo' = Resolved(parent, outcomes, "Failed")
           /\ AllPending(queue.requests, bundled)
           /\ AllBundled(marked, succeeded)
  <2>1. \A job \in succeeded : job[2] \in bundled \/ queue.requests[job[2]].status = "Bundled"
    <3> HIDE DEF m6id, succeeded, marked
    <3> QED BY <1>1, <1>4, <1>7 DEF AllBundled
  <2>2. /\ queue'.requests = confirmed
        /\ queue'.requestCount = queue.requestCount
        /\ queue'.refunds = queue.refunds
    <3> HIDE DEF confirmed
    <3> QED BY <1>2, <1>7 DEF QueueState
  <2>3. /\ phase = "deposits" /\ bundled \subseteq PendingIn(parent)
        /\ UNCHANGED <<parent, height>>
    BY DEF ReportLifecycle, chain
  <2> HIDE DEF succeeded, marked, confirmed
  <2> QED BY <1>4, <1>5, <1>7, <2>1, <2>2, <2>3 DEF AllPending, Reported, succeeded
<1> QED BY <1>6, <1>7 DEF ReportLifecycle

LEMMA RefundEffect ==
    ASSUME Shape, NEW job \in todo, RefundAccepted(job) \/ RefundRejected(job)
    PROVE  /\ phase = "refunds" /\ phase' \in {"refunds", "callee"}
           /\ job[2] \in Index
           /\ todo' = todo \ {job}
           /\ UNCHANGED <<parent, height, beforeCall>>
           /\ queue'.requestCount = queue.requestCount
           /\ queue.requests[job[2]].status = "Bundled"
           /\ queue'.refunds[job[2]] \in {queue.refunds[job[2]], queue.refunds[job[2]] + 1}
           /\ \A i \in Index \ {job[2]} : queue'.refunds[i] = queue.refunds[i]
           /\ \A i \in Index :
                 /\ queue'.requests[i].bundleM6id = queue.requests[i].bundleM6id
                 /\ queue'.requests[i].status = IF i = job[2] THEN "Refunded"
                                                ELSE queue.requests[i].status
<1>1. job[2] \in Index /\ queue \in QueueState
  BY DEF Shape, TypeOK
<1>2. CASE RefundAccepted(job)
  BY <1>1, <1>2 DEF RefundAccepted, StillBundled, QueueState, Request, chain
<1>3. CASE RefundRejected(job)
  BY <1>1, <1>3 DEF RefundRejected, StillBundled, QueueState, Request, chain
<1> QED BY <1>2, <1>3

-----------------------------------------------------------------------------
(***************************************************************************)
(* Invariant, second part: what has been paid back.  It has to hold of    *)
(* the parent state and of the snapshot too, since an abandoned block or  *)
(* an undone call puts them back; and the slots beyond requestCount must  *)
(* be untouched, since a new request takes one over.                      *)
(***************************************************************************)
PaidBack(q) ==
    \A i \in Index : /\ q.refunds[i] <= 1
                     /\ q.refunds[i] = 1 => q.requests[i].status = "Refunded"
                     /\ i >= q.requestCount => q.requests[i].status = "Pending"

Calling == phase \in {"refunds", "callee"}

RefundInv ==
    /\ Shape
    /\ PaidBack(queue) /\ PaidBack(parent) /\ PaidBack(beforeCall)
    /\ parent.requestCount <= queue.requestCount
    /\ Calling => parent.requestCount <= beforeCall.requestCount

LEMMA InitRefund == Init => RefundInv
  BY InitShape, QueueAssumption, UpdateAssumption
     DEF Init, RefundInv, PaidBack, EmptyRequest, Index, Calling

LEMMA RequestRefund ==
    ASSUME RefundInv, NEW msgValue \in MsgValue, NEW mainFeeSats \in MainFeeSats,
           RequestWithdrawal(msgValue, mainFeeSats)
    PROVE  RefundInv'
<1>1. Shape /\ Shape' /\ queue.requestCount \in Nat /\ parent.requestCount \in Nat
  BY RequestShape DEF RefundInv, Shape, TypeOK, QueueState
<1>2. PaidBack(queue')
  BY <1>1, RequestEffect DEF RefundInv, PaidBack, Index
<1> QED BY <1>1, <1>2, RequestEffect DEF RefundInv, PaidBack, Calling

LEMMA ReportRefund ==
    ASSUME RefundInv, NEW bundled \in SUBSET Index, NEW n \in Nat,
           NEW outcomes \in [1 .. n -> Outcome], ReportLifecycle(bundled, outcomes)
    PROVE  RefundInv'
<1>1. Shape /\ Shape'
  BY ReportShape DEF RefundInv
<1>2. CASE UNCHANGED <<queue, beforeCall, todo>> /\ phase' = "txs"
  BY <1>1, <1>2, ReportEffect DEF RefundInv, PaidBack, Calling
<1>3. CASE Reported(bundled, outcomes)
  <2> DEFINE succeeded == Resolved(parent, outcomes, "Succeeded")
  <2>1. /\ queue'.requestCount = queue.requestCount
        /\ queue'.refunds = queue.refunds
        /\ \A i \in bundled : queue.requests[i].status = "Pending"
        /\ \A job \in succeeded :
              job[2] \in bundled \/ queue.requests[job[2]].status = "Bundled"
        /\ \A i \in Index :
              queue'.requests[i].status =
                 IF \E job \in succeeded : job[2] = i THEN "Confirmed"
                 ELSE IF i \in bundled THEN "Bundled" ELSE queue.requests[i].status
    BY <1>3 DEF Reported
  <2>2. /\ queue.requestCount \in Nat /\ parent.requestCount \in Nat
        /\ queue.refunds \in [Index -> Nat]
    BY <1>1 DEF Shape, TypeOK, QueueState
  <2>3. \A i \in bundled : i < queue.requestCount
    BY <1>1, <2>2, ReportEffect DEF RefundInv, PendingIn, Queued, Index
  <2>4. PaidBack(queue')
    <3> HIDE DEF succeeded
    <3> SUFFICES ASSUME NEW i \in Index
                 PROVE  /\ queue'.refunds[i] <= 1
                        /\ queue'.refunds[i] = 1 => queue'.requests[i].status = "Refunded"
                        /\ i >= queue'.requestCount => queue'.requests[i].status = "Pending"
      BY DEF PaidBack
    <3>1. /\ queue.refunds[i] <= 1
          /\ queue.refunds[i] = 1 => queue.requests[i].status = "Refunded"
          /\ i >= queue.requestCount => queue.requests[i].status = "Pending"
      BY DEF RefundInv, PaidBack
    <3>2. i >= queue.requestCount => i \notin bundled
      BY <2>2, <2>3 DEF Index
    <3> QED BY <2>1, <3>1, <3>2
  <2> QED BY <1>1, <1>3, <2>4, ReportEffect DEF RefundInv, Calling, Reported
<1> QED BY <1>1, <1>2, <1>3, ReportEffect

LEMMA RefundRefund ==
    ASSUME RefundInv, NEW job \in todo, RefundAccepted(job) \/ RefundRejected(job)
    PROVE  RefundInv'
<1>1. Shape /\ Shape' /\ queue.refunds \in [Index -> Nat]
  BY RefundShape DEF RefundInv, Shape, TypeOK, QueueState
<1>2. PaidBack(queue')
  <2>1. queue.refunds[job[2]] = 0
    BY <1>1, RefundEffect DEF RefundInv, PaidBack
  <2>2. ~(job[2] >= queue.requestCount)
    BY <1>1, RefundEffect DEF RefundInv, PaidBack
  <2>3. \A i \in Index \ {job[2]} :
           /\ queue'.refunds[i] = queue.refunds[i]
           /\ queue'.requests[i].status = queue.requests[i].status
    BY <1>1, RefundEffect
  <2>4. /\ queue'.requestCount = queue.requestCount
        /\ queue'.refunds[job[2]] \in {0, 1}
        /\ queue'.requests[job[2]].status = "Refunded"
    BY <1>1, <2>1, RefundEffect
  <2> QED BY <2>2, <2>3, <2>4 DEF RefundInv, PaidBack
<1> QED BY <1>1, <1>2, RefundEffect DEF RefundInv, Calling

LEMMA ControlRefund == RefundInv /\ Control => RefundInv'
<1> SUFFICES ASSUME RefundInv, Control PROVE RefundInv'
  OBVIOUS
<1>1. Shape /\ Shape'
  BY ControlShape DEF RefundInv
<1>2. parent.requestCount \in Nat /\ queue.requestCount \in Nat
  BY <1>1 DEF Shape, TypeOK, QueueState
<1> USE DEF RefundInv, Calling, chain
<1>3. CASE \E job \in todo : RefundReverts(job)
  BY <1>1, <1>3 DEF RefundReverts
<1>4. CASE CalleeReturns
  BY <1>1, <1>4 DEF CalleeReturns
<1>5. CASE LifecycleHalts
  BY <1>1, <1>5 DEF LifecycleHalts
<1>6. CASE LifecycleReturns
  BY <1>1, <1>6 DEF LifecycleReturns
<1>7. CASE StartBlock
  BY <1>1, <1>7 DEF StartBlock
<1>8. CASE SealBlock
  BY <1>1, <1>2, <1>8 DEF SealBlock
<1>9. CASE AbandonBlock
  BY <1>1, <1>2, <1>9 DEF AbandonBlock
<1>10. CASE DepositsHalt
  BY <1>1, <1>2, <1>10 DEF DepositsHalt
<1> QED BY <1>3, <1>4, <1>5, <1>6, <1>7, <1>8, <1>9, <1>10 DEF Control

LEMMA NextRefund == RefundInv /\ [Next]_vars => RefundInv'
<1> SUFFICES ASSUME RefundInv, [Next]_vars PROVE RefundInv'
  OBVIOUS
<1>1. CASE Next
  BY <1>1, NextCases, RequestRefund, ReportRefund, RefundRefund, ControlRefund
<1>2. CASE UNCHANGED vars
  BY <1>2, NextShape DEF vars, RefundInv, Calling
<1> QED BY <1>1, <1>2

(* The second part of the invariant holds at every step.                  *)
THEOREM RefundInvariant == Spec => []RefundInv
  BY InitRefund, NextRefund, PTL DEF Spec

(***************************************************************************)
(* No request is ever paid back twice, nor paid back while it is still    *)
(* in play or after its bundle paid out on the mainchain.                 *)
(***************************************************************************)
THEOREM RefundsAreSingle == Spec => []RefundedOnce
<1>1. RefundInv => RefundedOnce
  BY DEF RefundInv, PaidBack, RefundedOnce
<1> QED BY <1>1, RefundInvariant, PTL

-----------------------------------------------------------------------------
(***************************************************************************)
(* Invariant, third part: bundles.  In the middle of the refund loop some *)
(* requests of a failed bundle are Refunded and some are still Bundled.   *)
(* Settled is the status a request has once the loop is through, and it   *)
(* is that status the requests of a bundle share at every step.           *)
(***************************************************************************)
Settled(q, jobs, i) ==
    IF \E job \in jobs : job[2] = i THEN "Refunded" ELSE q.requests[i].status

Uniform(q, jobs) ==
    \A i \in Queued(q) : InBundle(q, i) =>
        /\ i \in q.requests[i].bundleM6id.indices
        /\ \A j \in q.requests[i].bundleM6id.indices :
              /\ j \in Queued(q) /\ InBundle(q, j)
              /\ q.requests[j].bundleM6id = q.requests[i].bundleM6id
              /\ Settled(q, jobs, j) = Settled(q, jobs, i)

(* Until the lifecycle call, a block only appends to the parent state.    *)
Appended(q, r) ==
    /\ \A i \in Queued(q) : r.requests[i] = q.requests[i]
    /\ \A i \in Index : i >= q.requestCount => r.requests[i].status = "Pending"

BundleInv ==
    /\ RefundInv
    /\ Uniform(queue, todo) /\ Uniform(parent, {})
    /\ Calling => Uniform(beforeCall, {})
    /\ ~Calling => todo = {}
    /\ phase \in {"sealed", "deposits"} => Appended(parent, queue)
    /\ \A job \in todo : InBundle(queue, job[2])

LEMMA InitBundle == Init => BundleInv
<1> SUFFICES ASSUME Init PROVE BundleInv
  OBVIOUS
<1>1. /\ Queued(queue) = {} /\ parent = queue /\ todo = {} /\ phase = "sealed"
      /\ \A i \in Index : queue.requests[i].status = "Pending"
  BY QueueAssumption, UpdateAssumption DEF Init, Queued, EmptyRequest, Index
<1> QED BY <1>1, InitRefund DEF BundleInv, Uniform, Appended, Calling

(***************************************************************************)
(* Requests of one bundle that have one status are resolved together: an  *)
(* outcome names all of them or none.                                     *)
(***************************************************************************)
LEMMA ResolvedTogether ==
    ASSUME NEW q, NEW n \in Nat, NEW outcomes \in [1 .. n -> Outcome], NEW status,
           NEW i \in Queued(q), NEW j \in Queued(q),
           q.requests[i].status = q.requests[j].status,
           q.requests[i].bundleM6id = q.requests[j].bundleM6id
    PROVE  (\E job \in Resolved(q, outcomes, status) : job[2] = i) <=>
           (\E job \in Resolved(q, outcomes, status) : job[2] = j)
<1> DEFINE jobs == Resolved(q, outcomes, status)
<1>1. ASSUME NEW a \in Queued(q), NEW b \in Queued(q),
             q.requests[a].status = q.requests[b].status,
             q.requests[a].bundleM6id = q.requests[b].bundleM6id,
             NEW job \in jobs, job[2] = a
      PROVE  \E other \in jobs : other[2] = b
  <2>1. <<job[1], b>> \in jobs
    BY <1>1 DEF Resolved, Matching
  <2> QED BY <2>1
<1> QED BY <1>1

LEMMA ResolvedBundled ==
    ASSUME NEW q, NEW outcomes, NEW status, NEW job \in Resolved(q, outcomes, status)
    PROVE  job[2] \in Queued(q) /\ q.requests[job[2]].status = "Bundled"
  BY DEF Resolved, Matching

LEMMA RequestBundle ==
    ASSUME BundleInv, NEW msgValue \in MsgValue, NEW mainFeeSats \in MainFeeSats,
           RequestWithdrawal(msgValue, mainFeeSats)
    PROVE  BundleInv'
<1> DEFINE new == queue.requestCount
<1>1. Shape /\ RefundInv' /\ new \in Nat /\ parent.requestCount \in Nat
  BY RequestRefund DEF BundleInv, RefundInv, Shape, TypeOK, QueueState
<1>2. /\ queue'.requestCount = new + 1 /\ new \in Index
      /\ queue'.requests[new].status = "Pending"
      /\ \A i \in Index \ {new} : queue'.requests[i] = queue.requests[i]
      /\ UNCHANGED <<parent, height, phase, beforeCall, todo>>
      /\ phase \in {"deposits", "callee", "txs"}
  BY <1>1, RequestEffect
<1>3. \A i \in Queued(queue) : i \in Index /\ i # new
  BY <1>1, <1>2, QueueAssumption, UpdateAssumption DEF Queued, Index
<1>4. \A job \in todo : job[2] \in Index /\ InBundle(queue, job[2])
  BY <1>1 DEF BundleInv, Shape, TypeOK
<1>5. queue.requests[new].status = "Pending"
  BY <1>1, <1>2 DEF BundleInv, RefundInv, PaidBack
<1>6. \A job \in todo : job[2] # new
  BY <1>4, <1>5 DEF InBundle
<1>7. Queued(queue') = Queued(queue) \cup {new}
  BY <1>1, <1>2 DEF Queued
<1>8. Uniform(queue', todo)
  <2> HIDE DEF new
  <2> QED BY <1>2, <1>3, <1>7 DEF BundleInv, Uniform, InBundle, Settled
<1>9. \A job \in todo : InBundle(queue', job[2])
  <2> HIDE DEF new
  <2> QED BY <1>2, <1>4, <1>6 DEF InBundle
<1>10. Appended(parent, queue) => Appended(parent, queue')
  <2>1. \A i \in Queued(parent) : i \in Index /\ i # new
    BY <1>1, <1>2, QueueAssumption, UpdateAssumption DEF Queued, Index, BundleInv, RefundInv
  <2> HIDE DEF new
  <2> QED BY <1>2, <2>1 DEF Appended
<1> QED BY <1>1, <1>2, <1>8, <1>9, <1>10 DEF BundleInv, Calling

LEMMA ReportBundle ==
    ASSUME BundleInv, NEW bundled \in SUBSET Index, NEW n \in Nat,
           NEW outcomes \in [1 .. n -> Outcome], ReportLifecycle(bundled, outcomes)
    PROVE  BundleInv'
<1>1. /\ Shape /\ RefundInv' /\ phase = "deposits" /\ todo = {}
      /\ bundled \subseteq PendingIn(parent) /\ UNCHANGED <<parent, height>>
      /\ Uniform(queue, {}) /\ Uniform(parent, {}) /\ Appended(parent, queue)
  <2>1. Shape /\ RefundInv'
    BY ReportRefund DEF BundleInv, RefundInv
  <2>2. /\ phase = "deposits" /\ bundled \subseteq PendingIn(parent)
        /\ UNCHANGED <<parent, height>>
    BY <2>1, ReportEffect
  <2>3. todo = {}
    BY <2>2 DEF BundleInv, Calling
  <2> QED BY <2>1, <2>2, <2>3 DEF BundleInv
<1>2. CASE UNCHANGED <<queue, beforeCall, todo>> /\ phase' = "txs"
  BY <1>1, <1>2 DEF BundleInv, Calling
<1>3. CASE Reported(bundled, outcomes)
  <2> DEFINE succeeded == Resolved(parent, outcomes, "Succeeded")
             failed    == Resolved(parent, outcomes, "Failed")
             m6id      == NewM6id(bundled, height)
  <2>1. /\ phase' = "refunds" /\ beforeCall' = queue /\ todo' = failed
        /\ queue'.requestCount = queue.requestCount
        /\ \A i \in Index :
              /\ queue'.requests[i].bundleM6id =
                    IF i \in bundled THEN m6id ELSE queue.requests[i].bundleM6id
              /\ queue'.requests[i].status =
                    IF \E job \in succeeded : job[2] = i THEN "Confirmed"
                    ELSE IF i \in bundled THEN "Bundled"
                    ELSE queue.requests[i].status
    BY <1>3 DEF Reported
  <2>2. /\ queue.requestCount \in Nat /\ parent.requestCount \in Nat
        /\ parent.requestCount <= queue.requestCount
        /\ queue.requestCount <= MaxRequests
    BY <1>1 DEF Shape, TypeOK, QueueState, BundleInv, RefundInv
  <2>3. /\ Queued(parent) \subseteq Queued(queue)
        /\ Queued(queue) \subseteq Index
        /\ Queued(queue') = Queued(queue)
    BY <2>1, <2>2, QueueAssumption, UpdateAssumption DEF Queued, Index
  <2>4. m6id.indices = bundled
    BY DEF NewM6id
  <2>5. \A i \in bundled : /\ i \in Queued(parent) /\ queue.requests[i].status = "Pending"
                           /\ parent.requests[i].status = "Pending"
    BY <1>1 DEF PendingIn, Appended
  <2>6. \A job \in succeeded \cup failed :
           /\ job[2] \in Queued(parent)
           /\ parent.requests[job[2]].status = "Bundled"
           /\ queue.requests[job[2]].status = "Bundled"
    BY <1>1, ResolvedBundled DEF Appended
  <2>7. ASSUME NEW i \in Queued(parent), NEW j \in Queued(parent),
               queue.requests[i].status = queue.requests[j].status,
               queue.requests[i].bundleM6id = queue.requests[j].bundleM6id
        PROVE  /\ (\E job \in succeeded : job[2] = i) <=> (\E job \in succeeded : job[2] = j)
               /\ (\E job \in failed : job[2] = i) <=> (\E job \in failed : job[2] = j)
    <3>1. /\ parent.requests[i].status = parent.requests[j].status
          /\ parent.requests[i].bundleM6id = parent.requests[j].bundleM6id
      BY <1>1, <2>7 DEF Appended
    <3> QED BY <3>1, ResolvedTogether
  <2> HIDE DEF succeeded, failed, m6id
  <2>8. Uniform(queue', failed)
    <3> SUFFICES ASSUME NEW i \in Queued(queue'), InBundle(queue', i)
                 PROVE  /\ i \in queue'.requests[i].bundleM6id.indices
                        /\ \A j \in queue'.requests[i].bundleM6id.indices :
                              /\ j \in Queued(queue') /\ InBundle(queue', j)
                              /\ queue'.requests[j].bundleM6id = queue'.requests[i].bundleM6id
                              /\ Settled(queue', failed, j) = Settled(queue', failed, i)
      BY DEF Uniform
    <3>1. CASE i \in bundled
      <4>1. \A j \in bundled : /\ queue'.requests[j].bundleM6id = m6id
                               /\ queue'.requests[j].status = "Bundled"
                               /\ Settled(queue', failed, j) = "Bundled"
        BY <2>1, <2>3, <2>5, <2>6 DEF Settled
      <4> QED BY <2>3, <2>4, <2>5, <3>1, <4>1 DEF InBundle
    <3>2. CASE i \notin bundled
      <4>1. InBundle(queue, i) /\ i \in Index /\ i \in Queued(queue)
        BY <2>1, <2>3, <2>6, <3>2 DEF InBundle
      <4>2. \A j \in queue.requests[i].bundleM6id.indices :
               /\ j \in Queued(queue) /\ InBundle(queue, j) /\ j \in Index
               /\ queue.requests[j].bundleM6id = queue.requests[i].bundleM6id
               /\ queue.requests[j].status = queue.requests[i].status
        BY <1>1, <2>3, <4>1 DEF Uniform, Settled
      <4>3. \A j \in Index : InBundle(queue, j) => j \in Queued(parent) /\ j \notin bundled
        BY <1>1, <2>2, <2>5 DEF Appended, InBundle, Queued, Index
      <4>4. queue'.requests[i].bundleM6id = queue.requests[i].bundleM6id
        BY <2>1, <3>2, <4>1
      <4>5. i \in queue.requests[i].bundleM6id.indices
        BY <1>1, <4>1 DEF Uniform
      <4>6. ASSUME NEW j \in queue.requests[i].bundleM6id.indices
            PROVE  /\ j \in Queued(queue') /\ InBundle(queue', j)
                   /\ queue'.requests[j].bundleM6id = queue'.requests[i].bundleM6id
                   /\ Settled(queue', failed, j) = Settled(queue', failed, i)
        <5>1. /\ j \in Queued(parent) /\ j \notin bundled /\ j \in Index
              /\ i \in Queued(parent)
          BY <4>1, <4>2, <4>3
        <5>2. /\ (\E job \in succeeded : job[2] = i) <=> (\E job \in succeeded : job[2] = j)
              /\ (\E job \in failed : job[2] = i) <=> (\E job \in failed : job[2] = j)
          BY <2>7, <4>2, <5>1
        <5>3. queue'.requests[j].status = queue'.requests[i].status
          BY <2>1, <3>2, <4>1, <4>2, <5>1, <5>2
        <5> QED BY <2>1, <2>3, <4>2, <4>4, <5>1, <5>2, <5>3 DEF InBundle, Settled
      <4> QED BY <4>4, <4>5, <4>6
    <3> QED BY <3>1, <3>2
  <2>9. \A job \in failed : InBundle(queue', job[2])
    BY <2>1, <2>3, <2>6 DEF InBundle
  <2> QED BY <1>1, <2>1, <2>8, <2>9 DEF BundleInv, Calling
<1>4. Shape
  BY DEF BundleInv, RefundInv
<1> QED BY <1>2, <1>3, <1>4, ReportEffect

LEMMA RefundBundle ==
    ASSUME BundleInv, NEW job \in todo, RefundAccepted(job) \/ RefundRejected(job)
    PROVE  BundleInv'
<1>1. Shape /\ RefundInv'
  BY RefundRefund DEF BundleInv, RefundInv
<1>2. /\ phase = "refunds" /\ phase' \in {"refunds", "callee"} /\ job[2] \in Index
      /\ todo' = todo \ {job} /\ UNCHANGED <<parent, height, beforeCall>>
      /\ queue'.requestCount = queue.requestCount
      /\ \A i \in Index :
            /\ queue'.requests[i].bundleM6id = queue.requests[i].bundleM6id
            /\ queue'.requests[i].status = IF i = job[2] THEN "Refunded"
                                           ELSE queue.requests[i].status
  BY <1>1, RefundEffect
<1>3. Queued(queue') = Queued(queue) /\ Queued(queue) \subseteq Index
  BY <1>1, <1>2, QueueAssumption, UpdateAssumption DEF Queued, Index, Shape, TypeOK, QueueState
<1>4. \A i \in Index : Settled(queue', todo', i) = Settled(queue, todo, i)
  BY <1>2 DEF Settled
<1>5. \A i \in Index : InBundle(queue', i) <=> InBundle(queue, i)
  BY <1>2 DEF InBundle, BundleInv
<1>6. Uniform(queue', todo')
  <2> SUFFICES ASSUME NEW i \in Queued(queue'), InBundle(queue', i)
               PROVE  /\ i \in queue'.requests[i].bundleM6id.indices
                      /\ \A j \in queue'.requests[i].bundleM6id.indices :
                            /\ j \in Queued(queue') /\ InBundle(queue', j)
                            /\ queue'.requests[j].bundleM6id = queue'.requests[i].bundleM6id
                            /\ Settled(queue', todo', j) = Settled(queue', todo', i)
    BY DEF Uniform
  <2>1. /\ i \in Index /\ i \in Queued(queue) /\ InBundle(queue, i)
        /\ queue'.requests[i].bundleM6id = queue.requests[i].bundleM6id
    BY <1>2, <1>3, <1>5
  <2>2. /\ i \in queue.requests[i].bundleM6id.indices
        /\ \A j \in queue.requests[i].bundleM6id.indices :
              /\ j \in Index /\ j \in Queued(queue) /\ InBundle(queue, j)
              /\ queue.requests[j].bundleM6id = queue.requests[i].bundleM6id
              /\ Settled(queue, todo, j) = Settled(queue, todo, i)
    BY <1>3, <2>1 DEF BundleInv, Uniform
  <2>3. \A j \in Index : queue'.requests[j].bundleM6id = queue.requests[j].bundleM6id
    BY <1>2
  <2> QED BY <1>3, <1>4, <1>5, <2>1, <2>2, <2>3
<1>7. \A other \in todo' : InBundle(queue', other[2])
  BY <1>1, <1>2, <1>5 DEF BundleInv, Shape, TypeOK
<1> QED BY <1>1, <1>2, <1>6, <1>7 DEF BundleInv, Calling

LEMMA ControlBundle == BundleInv /\ Control => BundleInv'
<1> SUFFICES ASSUME BundleInv, Control PROVE BundleInv'
  OBVIOUS
<1>1. RefundInv /\ RefundInv'
  BY ControlRefund DEF BundleInv
<1>2. PaidBack(parent)
  BY <1>1 DEF RefundInv
<1> USE DEF BundleInv, Calling, chain
<1>3. CASE \E job \in todo : RefundReverts(job)
  BY <1>1, <1>3 DEF RefundReverts
<1>4. CASE CalleeReturns
  BY <1>1, <1>4 DEF CalleeReturns
<1>5. CASE LifecycleHalts
  BY <1>1, <1>5 DEF LifecycleHalts
<1>6. CASE LifecycleReturns
  BY <1>1, <1>6 DEF LifecycleReturns
<1>7. CASE StartBlock
  BY <1>1, <1>7 DEF StartBlock
<1>8. CASE SealBlock
  BY <1>1, <1>8, <1>2 DEF SealBlock, Appended, PaidBack, RefundInv
<1>9. CASE AbandonBlock
  BY <1>1, <1>9, <1>2 DEF AbandonBlock, Appended, PaidBack
<1>10. CASE DepositsHalt
  BY <1>1, <1>10, <1>2 DEF DepositsHalt, Appended, PaidBack
<1> QED BY <1>3, <1>4, <1>5, <1>6, <1>7, <1>8, <1>9, <1>10 DEF Control

LEMMA NextBundle == BundleInv /\ [Next]_vars => BundleInv'
<1> SUFFICES ASSUME BundleInv, [Next]_vars PROVE BundleInv'
  OBVIOUS
<1>1. CASE Next
  BY <1>1, NextCases, RequestBundle, ReportBundle, RefundBundle, ControlBundle
<1>2. CASE UNCHANGED vars
  <2>1. RefundInv'
    BY <1>2, NextRefund DEF BundleInv
  <2> QED BY <1>2, <2>1 DEF vars, BundleInv, Calling
<1> QED BY <1>1, <1>2

(* The third part of the invariant holds at every step.                   *)
THEOREM BundleInvariant == Spec => []BundleInv
  BY InitBundle, NextBundle, PTL DEF Spec

(***************************************************************************)
(* In the state of every block a bundle is whole: the requests carrying   *)
(* its m6id are the ones its M6 consumes, all of them in one status.      *)
(***************************************************************************)
THEOREM BundlesAreAtomic == Spec => []BundleAtomic
<1>1. BundleInv => BundleAtomic
  BY DEF BundleInv, Uniform, BundleAtomic, Settled, InBundle
<1> QED BY <1>1, BundleInvariant, PTL

-----------------------------------------------------------------------------
(***************************************************************************)
(* What each kind of step does to the amounts and to the balance.         *)
(***************************************************************************)
LEMMA SatsType ==
    ASSUME NEW q \in QueueState
    PROVE  /\ IsFiniteSet(Queued(q)) /\ Queued(q) \subseteq Index
           /\ \A i \in Index : /\ Sats(q)[i] \in Nat
                               /\ AmountWei(q.requests[i]) = WeiPerSat * Sats(q)[i]
<1>1. q.requestCount \in 0 .. MaxRequests
  BY DEF QueueState
<1>2. IsFiniteSet(Queued(q)) /\ Queued(q) \subseteq Index
  <2>1. q.requestCount - 1 \in Int /\ Queued(q) \subseteq Index
    BY <1>1, UpdateAssumption DEF Queued, Index
  <2>2. IsFiniteSet(0 .. q.requestCount - 1)
    BY <2>1, FS_Interval
  <2> QED BY <2>1, <2>2 DEF Queued
<1>3. ASSUME NEW i \in Index
      PROVE  Sats(q)[i] \in Nat /\ AmountWei(q.requests[i]) = WeiPerSat * Sats(q)[i]
  <2>1. q.requests[i].valueSats \in Nat /\ q.requests[i].mainFeeSats \in Nat
    BY DEF QueueState, Request
  <2>2. Sats(q)[i] = q.requests[i].valueSats + q.requests[i].mainFeeSats
    BY DEF Sats
  <2> QED BY <2>1, <2>2, QueueAssumption DEF AmountWei
<1> QED BY <1>2, <1>3

LEMMA RequestAmounts ==
    ASSUME Shape, NEW msgValue \in MsgValue, NEW mainFeeSats \in MainFeeSats,
           RequestWithdrawal(msgValue, mainFeeSats)
    PROVE  /\ queue'.balance = queue.balance + msgValue
           /\ \A i \in Index \ {queue.requestCount} : Sats(queue')[i] = Sats(queue)[i]
           /\ WeiPerSat * Sats(queue')[queue.requestCount] = msgValue
<1> DEFINE totalSats == msgValue \div WeiPerSat
           new == queue.requestCount
<1>1. queue \in QueueState /\ new \in Index
  BY RequestEffect DEF Shape, TypeOK
<1>2. /\ queue'.balance = queue.balance + msgValue
      /\ queue'.requests = [queue.requests EXCEPT ![new] =
                              [valueSats |-> totalSats - mainFeeSats, mainFeeSats |-> mainFeeSats,
                               status |-> "Pending", bundleM6id |-> NoBundle]]
  BY <1>1 DEF RequestWithdrawal, QueueState
<1>3. \A i \in Index \ {new} : Sats(queue')[i] = Sats(queue)[i]
  BY <1>1, <1>2 DEF Sats, QueueState
<1>4. msgValue \in Nat /\ mainFeeSats \in Nat /\ totalSats \in Nat
      /\ msgValue = WeiPerSat * totalSats
  BY QueueAssumption DEF RequestWithdrawal
<1> HIDE DEF totalSats, new
<1>5. Sats(queue')[new] = (totalSats - mainFeeSats) + mainFeeSats
  BY <1>1, <1>2 DEF Sats, QueueState
<1>6. Sats(queue')[new] = totalSats
  BY <1>4, <1>5
<1> QED BY <1>2, <1>3, <1>4, <1>6 DEF new

LEMMA ReportAmounts ==
    ASSUME Shape, NEW bundled, NEW outcomes, ReportLifecycle(bundled, outcomes)
    PROVE  queue'.balance = queue.balance /\ Sats(queue') = Sats(queue)
<1> DEFINE m6id      == NewM6id(bundled, height)
           succeeded == Resolved(parent, outcomes, "Succeeded")
           marked    == MarkBundled(queue.requests, bundled, m6id)
           confirmed == MarkConfirmed(marked, succeeded)
<1>1. queue \in QueueState
  BY DEF Shape, TypeOK
<1>2. CASE queue' = queue
  BY <1>2
<1>3. CASE queue' = [queue EXCEPT !.requests = confirmed]
  <2>1. queue'.balance = queue.balance /\ queue'.requests = confirmed
    <3> HIDE DEF confirmed
    <3> QED BY <1>1, <1>3 DEF QueueState
  <2>2. \A i \in Index : /\ marked[i].valueSats = queue.requests[i].valueSats
                         /\ marked[i].mainFeeSats = queue.requests[i].mainFeeSats
    <3> HIDE DEF m6id
    <3> QED BY <1>1 DEF MarkBundled, QueueState, Request
  <2>3. \A i \in Index : /\ confirmed[i].valueSats = marked[i].valueSats
                         /\ confirmed[i].mainFeeSats = marked[i].mainFeeSats
    <3>1. \A i \in Index :
             \/ marked[i] \in Request
             \/ marked[i] = [queue.requests[i] EXCEPT !.status = "Bundled", !.bundleM6id = m6id]
      BY <1>1 DEF MarkBundled, QueueState
    <3> HIDE DEF m6id, succeeded, marked
    <3> QED BY <1>1, <3>1 DEF MarkConfirmed, QueueState, Request
  <2> HIDE DEF confirmed, marked
  <2> QED BY <2>1, <2>2, <2>3 DEF Sats
<1> QED BY <1>2, <1>3 DEF ReportLifecycle

LEMMA RefundAmounts ==
    ASSUME Shape, NEW job \in todo
    PROVE  /\ RefundAccepted(job) =>
                 /\ queue'.balance = queue.balance - WeiPerSat * Sats(queue)[job[2]]
                 /\ WeiPerSat * Sats(queue)[job[2]] <= queue.balance
                 /\ queue'.refunds = [queue.refunds EXCEPT ![job[2]] = @ + 1]
           /\ RefundRejected(job) => UNCHANGED <<queue.balance, queue.refunds>>
           /\ RefundAccepted(job) \/ RefundRejected(job) => Sats(queue') = Sats(queue)
<1> DEFINE i == job[2]
           amount == AmountWei(queue.requests[i])
<1>1. i \in Index /\ queue \in QueueState
  BY DEF Shape, TypeOK
<1>2. amount = WeiPerSat * Sats(queue)[i]
  BY <1>1, SatsType
<1> HIDE DEF amount, i
<1>3. ASSUME RefundAccepted(job)
      PROVE  /\ queue'.balance = queue.balance - amount /\ amount <= queue.balance
             /\ queue'.refunds = [queue.refunds EXCEPT ![i] = @ + 1]
             /\ queue'.requests = [queue.requests EXCEPT ![i].status = "Refunded"]
  BY <1>1, <1>3 DEF RefundAccepted, QueueState, amount, i
<1>4. ASSUME RefundRejected(job)
      PROVE  /\ UNCHANGED <<queue.balance, queue.refunds>>
             /\ queue'.requests = [queue.requests EXCEPT ![i].status = "Refunded"]
  BY <1>1, <1>4 DEF RefundRejected, QueueState, i
<1>5. ASSUME queue'.requests = [queue.requests EXCEPT ![i].status = "Refunded"]
      PROVE  Sats(queue') = Sats(queue)
  <2>1. \A j \in Index : /\ queue'.requests[j].valueSats = queue.requests[j].valueSats
                         /\ queue'.requests[j].mainFeeSats = queue.requests[j].mainFeeSats
    BY <1>1, <1>5 DEF QueueState, Request
  <2> QED BY <2>1 DEF Sats
<1> QED BY <1>2, <1>3, <1>4, <1>5 DEF i

-----------------------------------------------------------------------------
(***************************************************************************)
(* Invariant, fourth part: the contract holds what the unpaid requests    *)
(* locked, in the state in progress and in those it may go back to.       *)
(***************************************************************************)
Backed(q) == q.balance = LockedWei(q)

BackedInv ==
    /\ RefundInv
    /\ Backed(queue) /\ Backed(parent)
    /\ Calling => Backed(beforeCall)

LEMMA UnpaidType ==
    ASSUME NEW q \in QueueState
    PROVE  /\ IsFiniteSet(Unpaid(q)) /\ Unpaid(q) \subseteq Index
           /\ \A i \in Unpaid(q) : Sats(q)[i] \in Int
<1>1. Unpaid(q) \in SUBSET Queued(q)
  BY DEF Unpaid
<1> QED BY <1>1, SatsType, FS_Subset

LEMMA SameLocked ==
    ASSUME NEW q \in QueueState, NEW r \in QueueState, Backed(q),
           r.balance = q.balance, Sats(r) = Sats(q),
           r.requestCount = q.requestCount, r.refunds = q.refunds
    PROVE  Backed(r)
<1>1. Unpaid(r) = Unpaid(q)
  BY DEF Unpaid, Queued
<1> QED BY <1>1 DEF Backed, LockedWei

LEMMA RequestBacked ==
    ASSUME BackedInv, NEW msgValue \in MsgValue, NEW mainFeeSats \in MainFeeSats,
           RequestWithdrawal(msgValue, mainFeeSats)
    PROVE  BackedInv'
<1> DEFINE new == queue.requestCount
           unpaid == Unpaid(queue)
           sats == Sats(queue')
<1>1. /\ Shape /\ RefundInv' /\ queue \in QueueState /\ queue' \in QueueState
      /\ new \in Index
  BY RequestRefund, RequestEffect DEF BackedInv, RefundInv, Shape, TypeOK
<1>2. /\ queue'.requestCount = new + 1 /\ queue'.refunds = queue.refunds
      /\ UNCHANGED <<parent, phase, beforeCall, todo>>
  BY <1>1, RequestEffect
<1>3. /\ queue'.balance = queue.balance + msgValue
      /\ \A i \in Index \ {new} : sats[i] = Sats(queue)[i]
      /\ WeiPerSat * sats[new] = msgValue
  BY <1>1, RequestAmounts
<1>4. queue.refunds[new] = 0
  <2>1. queue.refunds[new] \in Nat
    BY <1>1 DEF QueueState
  <2>2. queue.refunds[new] <= 1 /\ queue.requests[new].status = "Pending"
    BY <1>1 DEF BackedInv, RefundInv, PaidBack, Index
  <2> QED BY <1>1, <2>1, <2>2 DEF BackedInv, RefundInv, PaidBack
<1>5. /\ Unpaid(queue') = unpaid \cup {new} /\ new \notin unpaid
  <2>1. Queued(queue') = Queued(queue) \cup {new} /\ new \notin Queued(queue)
    BY <1>1, <1>2 DEF Queued, Index
  <2> QED BY <1>2, <1>4, <2>1 DEF Unpaid
<1>6. /\ IsFiniteSet(unpaid) /\ \A i \in unpaid \cup {new} : sats[i] \in Int
      /\ \A i \in unpaid : sats[i] = Sats(queue)[i]
      /\ \A i \in unpaid : Sats(queue)[i] \in Int
  BY <1>1, <1>3, <1>5, UnpaidType
<1> HIDE DEF new, unpaid, sats
<1>7. SumFunctionOnSet(sats, unpaid \cup {new}) = sats[new] + SumFunctionOnSet(sats, unpaid)
  BY <1>5, <1>6, SumAdd
<1>8. /\ SumFunctionOnSet(sats, unpaid) = SumFunctionOnSet(Sats(queue), unpaid)
      /\ SumFunctionOnSet(sats, unpaid) \in Int /\ sats[new] \in Int
  BY <1>6, SumSame, SumInt
<1>9. Backed(queue')
  <2>1. queue.balance = WeiPerSat * SumFunctionOnSet(sats, unpaid)
    BY <1>8 DEF BackedInv, Backed, LockedWei, unpaid
  <2>2. LockedWei(queue') = WeiPerSat * (sats[new] + SumFunctionOnSet(sats, unpaid))
    BY <1>5, <1>7 DEF LockedWei, sats
  <2>3. LockedWei(queue') = msgValue + queue.balance
    BY <1>3, <1>8, <2>1, <2>2, QueueAssumption
  <2>4. queue.balance \in Nat /\ msgValue \in Nat
    BY <1>1, QueueAssumption DEF QueueState
  <2> QED BY <1>3, <2>3, <2>4 DEF Backed
<1> QED BY <1>1, <1>2, <1>5, <1>9 DEF BackedInv, Calling, Backed

LEMMA ReportBacked ==
    ASSUME BackedInv, NEW bundled \in SUBSET Index, NEW n \in Nat,
           NEW outcomes \in [1 .. n -> Outcome], ReportLifecycle(bundled, outcomes)
    PROVE  BackedInv'
<1>1. Shape /\ RefundInv' /\ queue \in QueueState /\ queue' \in QueueState /\ ~Calling
  BY ReportRefund, ReportEffect DEF BackedInv, RefundInv, Shape, TypeOK, Calling
<1>2. queue'.balance = queue.balance /\ Sats(queue') = Sats(queue) /\ UNCHANGED parent
  BY <1>1, ReportAmounts, ReportEffect
<1>3. CASE UNCHANGED <<queue, beforeCall, todo>> /\ phase' = "txs"
  BY <1>1, <1>2, <1>3 DEF BackedInv, Calling, Backed, Queued
<1>4. CASE Reported(bundled, outcomes)
  <2>1. /\ queue'.requestCount = queue.requestCount /\ queue'.refunds = queue.refunds
        /\ beforeCall' = queue
    BY <1>4 DEF Reported
  <2>2. Backed(queue')
    BY <1>1, <1>2, <2>1, SameLocked DEF BackedInv
  <2> QED BY <1>1, <1>2, <2>1, <2>2 DEF BackedInv, Backed
<1> QED BY <1>1, <1>3, <1>4, ReportEffect

LEMMA RefundBacked ==
    ASSUME BackedInv, NEW job \in todo, RefundAccepted(job) \/ RefundRejected(job)
    PROVE  BackedInv'
<1> DEFINE i == job[2]
           sats == Sats(queue)
           unpaid == Unpaid(queue)
<1>1. /\ Shape /\ RefundInv' /\ queue \in QueueState /\ queue' \in QueueState
      /\ i \in Index
  BY RefundRefund DEF BackedInv, RefundInv, Shape, TypeOK
<1>2. /\ Calling /\ UNCHANGED <<parent, beforeCall>> /\ todo' = todo \ {job}
      /\ queue'.requestCount = queue.requestCount
      /\ queue.requests[i].status = "Bundled"
      /\ Sats(queue') = sats
  BY <1>1, RefundEffect, RefundAmounts DEF Calling
<1>3. Queued(queue') = Queued(queue)
  BY <1>2 DEF Queued
<1>4. CASE RefundRejected(job)
  <2>1. queue'.balance = queue.balance /\ queue'.refunds = queue.refunds
    BY <1>1, <1>4, RefundAmounts
  <2>2. Backed(queue')
    BY <1>1, <1>2, <2>1, SameLocked DEF BackedInv
  <2> QED BY <1>1, <1>2, <1>3, <2>2 DEF BackedInv, Backed
<1>5. CASE RefundAccepted(job)
  <2>1. /\ queue'.balance = queue.balance - WeiPerSat * sats[i]
        /\ queue'.refunds = [queue.refunds EXCEPT ![i] = @ + 1]
    BY <1>1, <1>5, RefundAmounts
  <2>2. queue.refunds[i] = 0 /\ queue.refunds \in [Index -> Nat]
    <3>1. queue.refunds \in [Index -> Nat]
      BY <1>1 DEF QueueState
    <3>2. queue.refunds[i] <= 1 /\ queue.refunds[i] # 1
      BY <1>1, <1>2 DEF BackedInv, RefundInv, PaidBack
    <3> QED BY <1>1, <3>1, <3>2
  <2>3. i \in unpaid
    <3>1. ~(i >= queue.requestCount)
      BY <1>1, <1>2 DEF BackedInv, RefundInv, PaidBack
    <3>2. queue.requestCount \in Nat
      BY <1>1 DEF QueueState
    <3> QED BY <1>1, <2>2, <3>1, <3>2 DEF Unpaid, Queued, Index
  <2>4. Unpaid(queue') = unpaid \ {i}
    <3>1. queue'.refunds[i] = 1
      BY <1>1, <2>1, <2>2
    <3>2. \A j \in Index \ {i} : queue'.refunds[j] = queue.refunds[j]
      BY <2>1, <2>2
    <3>3. Queued(queue) \subseteq Index
      BY <1>1, SatsType
    <3> HIDE DEF i
    <3> QED BY <1>3, <3>1, <3>2, <3>3 DEF Unpaid
  <2>5. IsFiniteSet(unpaid) /\ (\A j \in unpaid : sats[j] \in Int) /\ IsFiniteSet(unpaid \ {i})
    <3>1. unpaid \ {i} \in SUBSET unpaid
      OBVIOUS
    <3> QED BY <1>1, <3>1, UnpaidType, FS_Subset
  <2> HIDE DEF sats, unpaid, i
  <2>6. /\ SumFunctionOnSet(sats, unpaid) = sats[i] + SumFunctionOnSet(sats, unpaid \ {i})
        /\ SumFunctionOnSet(sats, unpaid \ {i}) \in Int
        /\ sats[i] \in Int
    BY <2>3, <2>5, SumRemove, SumInt
  <2>7. Backed(queue')
    <3>1. queue.balance = WeiPerSat * (sats[i] + SumFunctionOnSet(sats, unpaid \ {i}))
      BY <2>6 DEF BackedInv, Backed, LockedWei, sats, unpaid
    <3>2. LockedWei(queue') = WeiPerSat * SumFunctionOnSet(sats, unpaid \ {i})
      BY <1>2, <2>4 DEF LockedWei
    <3> QED BY <2>1, <2>6, <3>1, <3>2, QueueAssumption DEF Backed
  <2> QED BY <1>1, <1>2, <1>3, <2>7 DEF BackedInv, Backed
<1> QED BY <1>4, <1>5

LEMMA ControlBacked == BackedInv /\ Control => BackedInv'
<1> SUFFICES ASSUME BackedInv, Control PROVE BackedInv'
  OBVIOUS
<1>1. RefundInv /\ RefundInv'
  BY ControlRefund DEF BackedInv
<1> USE DEF BackedInv, Calling, chain, Backed
<1>3. CASE \E job \in todo : RefundReverts(job)
  BY <1>1, <1>3 DEF RefundReverts
<1>4. CASE CalleeReturns
  BY <1>1, <1>4 DEF CalleeReturns
<1>5. CASE LifecycleHalts
  BY <1>1, <1>5 DEF LifecycleHalts
<1>6. CASE LifecycleReturns
  BY <1>1, <1>6 DEF LifecycleReturns
<1>7. CASE StartBlock
  BY <1>1, <1>7 DEF StartBlock
<1>8. CASE SealBlock
  BY <1>1, <1>8 DEF SealBlock
<1>9. CASE AbandonBlock
  BY <1>1, <1>9 DEF AbandonBlock
<1>10. CASE DepositsHalt
  BY <1>1, <1>10 DEF DepositsHalt
<1> QED BY <1>3, <1>4, <1>5, <1>6, <1>7, <1>8, <1>9, <1>10 DEF Control

LEMMA InitBacked == Init => BackedInv
<1> SUFFICES ASSUME Init PROVE BackedInv
  OBVIOUS
<1>1. /\ Queued(queue) = {} /\ parent = queue /\ beforeCall = queue /\ todo = {}
      /\ queue.balance = 0
  BY DEF Init, Queued
<1>2. Unpaid(queue) = {}
  BY <1>1 DEF Unpaid
<1>3. LockedWei(queue) = 0
  BY <1>2, SumEmpty, QueueAssumption DEF LockedWei
<1> QED BY <1>1, <1>3, InitRefund DEF BackedInv, Backed

LEMMA NextBacked == BackedInv /\ [Next]_vars => BackedInv'
<1> SUFFICES ASSUME BackedInv, [Next]_vars PROVE BackedInv'
  OBVIOUS
<1>1. CASE Next
  BY <1>1, NextCases, RequestBacked, ReportBacked, RefundBacked, ControlBacked
<1>2. CASE UNCHANGED vars
  BY <1>2, NextRefund DEF vars, BackedInv, Calling, Backed
<1> QED BY <1>1, <1>2

(* The fourth part of the invariant holds at every step.                  *)
THEOREM BackedInvariant == Spec => []BackedInv
  BY InitBacked, NextBacked, PTL DEF Spec

(***************************************************************************)
(* The contract's coins are at every point of a block exactly what the    *)
(* requests that were not paid back locked: whatever callbacks queue, and *)
(* whatever is rejected, undone or abandoned.                             *)
(***************************************************************************)
THEOREM CoinsAreBacked == Spec => []Conservation
<1>1. BackedInv => Conservation
  BY DEF BackedInv, Backed, Conservation
<1> QED BY <1>1, BackedInvariant, PTL

=============================================================================
