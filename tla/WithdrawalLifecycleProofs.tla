----------------------- MODULE WithdrawalLifecycleProofs -----------------------
(***************************************************************************)
(* Block by block, WithdrawalRequestQueue implements WithdrawalLifecycle, *)
(* for every number of requests, every height and every amount.           *)
(***************************************************************************)
EXTENDS WithdrawalRequestQueueProofs

(***************************************************************************)
(* Invariant of the refinement: how far a block in progress has taken the *)
(* requests of its parent state.  Once the loop is through, a request has *)
(* a status that may follow its status in the parent state; those that    *)
(* left Pending were queued there and share one bundle.                   *)
(***************************************************************************)
FollowsStatus(s, t) == t \in Lifecycles!Successors(s)

KeptOrSettled(q, r, jobs, i) ==
    q.requests[i].status # "Pending" =>
        /\ r.requests[i].bundleM6id = q.requests[i].bundleM6id
        /\ FollowsStatus(q.requests[i].status, Settled(r, jobs, i))

NewlyIn(q, r, i) == q.requests[i].status = "Pending" /\ InBundle(r, i)

Follows(q, r, jobs) ==
    /\ \A i \in Index : KeptOrSettled(q, r, jobs, i)
    /\ \E m6id \in M6id : \A i \in Index : NewlyIn(q, r, i) =>
          /\ i \in Queued(q)
          /\ r.requests[i].bundleM6id = m6id
          /\ Settled(r, jobs, i) = "Bundled"

(* A Pending request has no bundle.                                       *)
Unassigned(q) ==
    \A i \in Index : q.requests[i].status = "Pending" => q.requests[i].bundleM6id = NoBundle

LifecycleInv ==
    /\ BundleInv
    /\ Unassigned(queue) /\ Unassigned(parent)
    /\ Calling => Unassigned(beforeCall) /\ Appended(parent, beforeCall)
    /\ Follows(parent, queue, todo)

(***************************************************************************)
(* A state that only appends to its parent follows it.                    *)
(***************************************************************************)
LEMMA AppendedFollows ==
    ASSUME NEW q \in QueueState, NEW r, PaidBack(q), Appended(q, r)
    PROVE  Follows(q, r, {})
<1>1. \A i \in Index : i \in Queued(q) \/ i >= q.requestCount
  BY UpdateAssumption DEF Queued, Index, QueueState
<1>2. \A i \in Index : ~NewlyIn(q, r, i)
  BY <1>1 DEF NewlyIn, Appended, InBundle
<1>3. ASSUME NEW i \in Index, q.requests[i].status # "Pending"
      PROVE  r.requests[i] = q.requests[i]
  BY <1>1, <1>3 DEF Appended, PaidBack
<1>4. \A i \in Index : KeptOrSettled(q, r, {}, i)
  <2> SUFFICES ASSUME NEW i \in Index, q.requests[i].status # "Pending"
               PROVE  /\ r.requests[i].bundleM6id = q.requests[i].bundleM6id
                      /\ FollowsStatus(q.requests[i].status, Settled(r, {}, i))
    BY DEF KeptOrSettled
  <2>1. q.requests[i].status \in Status
    BY DEF QueueState, Request
  <2> QED BY <1>3, <2>1 DEF Settled, FollowsStatus, Lifecycles!Successors, Status
<1>5. NoBundle \in M6id
  BY DEF NoBundle, M6id
<1> QED BY <1>2, <1>4, <1>5 DEF Follows

LEMMA InitLifecycle == Init => LifecycleInv
<1> SUFFICES ASSUME Init PROVE LifecycleInv
  OBVIOUS
<1>1. BundleInv /\ parent \in QueueState /\ PaidBack(parent) /\ todo = {} /\ phase = "sealed"
  BY InitBundle DEF BundleInv, RefundInv, Shape, TypeOK, Init
<1>2. Follows(parent, queue, todo)
  BY <1>1, AppendedFollows DEF BundleInv
<1>3. Unassigned(queue) /\ Unassigned(parent)
  BY DEF Init, Unassigned, EmptyRequest
<1> QED BY <1>1, <1>2, <1>3 DEF LifecycleInv, Calling

LEMMA RequestLifecycle ==
    ASSUME LifecycleInv, NEW msgValue \in MsgValue, NEW mainFeeSats \in MainFeeSats,
           RequestWithdrawal(msgValue, mainFeeSats)
    PROVE  LifecycleInv'
<1> DEFINE new == queue.requestCount
<1>1. BundleInv /\ BundleInv' /\ Shape /\ queue \in QueueState
  BY RequestBundle DEF LifecycleInv, BundleInv, RefundInv, Shape, TypeOK
<1>2. /\ new \in Index
      /\ queue'.requests[new].status = "Pending"
      /\ \A i \in Index \ {new} : queue'.requests[i] = queue.requests[i]
      /\ UNCHANGED <<parent, height, phase, beforeCall, todo>>
  BY <1>1, RequestEffect
<1>3. queue'.requests[new].bundleM6id = NoBundle
  BY <1>1, <1>2 DEF RequestWithdrawal, QueueState
<1>4. queue.requests[new].status = "Pending" /\ ~InBundle(queue', new)
  BY <1>1, <1>2 DEF BundleInv, RefundInv, PaidBack, QueueState, Shape, TypeOK, InBundle, Index
<1>5. parent.requests[new].status = "Pending"
  BY <1>1, <1>2 DEF BundleInv, RefundInv, PaidBack, QueueState, Shape, TypeOK, Index
<1> HIDE DEF new
<1>6. Unassigned(queue')
  BY <1>2, <1>3 DEF LifecycleInv, Unassigned
<1>7. Follows(parent, queue', todo)
  <2>1. \A i \in Index : KeptOrSettled(parent, queue', todo, i)
    BY <1>2, <1>5 DEF LifecycleInv, Follows, KeptOrSettled, Settled
  <2>2. PICK m6id \in M6id : \A i \in Index : NewlyIn(parent, queue, i) =>
          /\ i \in Queued(parent)
          /\ queue.requests[i].bundleM6id = m6id
          /\ Settled(queue, todo, i) = "Bundled"
    BY DEF LifecycleInv, Follows
  <2>3. \A i \in Index : NewlyIn(parent, queue', i) =>
          /\ i \in Queued(parent)
          /\ queue'.requests[i].bundleM6id = m6id
          /\ Settled(queue', todo, i) = "Bundled"
    BY <1>2, <1>4, <2>2 DEF NewlyIn, Settled, InBundle
  <2> QED BY <2>1, <2>3 DEF Follows
<1> QED BY <1>1, <1>2, <1>6, <1>7 DEF LifecycleInv, Calling

LEMMA ReportFollows ==
    ASSUME LifecycleInv, NEW bundled \in SUBSET Index, NEW n \in Nat,
           NEW outcomes \in [1 .. n -> Outcome], ReportLifecycle(bundled, outcomes),
           Reported(bundled, outcomes)
    PROVE  LifecycleInv'
<1> DEFINE succeeded == Resolved(parent, outcomes, "Succeeded")
           failed    == Resolved(parent, outcomes, "Failed")
           m6id      == NewM6id(bundled, height)
<1>1. BundleInv /\ BundleInv' /\ Shape /\ PaidBack(parent)
  BY ReportBundle DEF LifecycleInv, BundleInv, RefundInv
<1>2. /\ phase = "deposits" /\ bundled \subseteq PendingIn(parent)
      /\ UNCHANGED <<parent, height>> /\ Appended(parent, queue)
  BY <1>1, ReportEffect DEF BundleInv
<1>3. /\ phase' = "refunds" /\ beforeCall' = queue /\ todo' = failed
      /\ \A i \in Index :
            /\ queue'.requests[i].bundleM6id =
                  IF i \in bundled THEN m6id ELSE queue.requests[i].bundleM6id
            /\ queue'.requests[i].status =
                  IF \E job \in succeeded : job[2] = i THEN "Confirmed"
                  ELSE IF i \in bundled THEN "Bundled"
                  ELSE queue.requests[i].status
  BY DEF Reported
<1>4. \A job \in succeeded \cup failed :
         job[2] \in Queued(parent) /\ parent.requests[job[2]].status = "Bundled"
  BY ResolvedBundled
<1>5. \A i \in bundled : i \in Queued(parent) /\ parent.requests[i].status = "Pending"
  BY <1>2 DEF PendingIn
<1>6. m6id \in M6id
  BY <1>1, NewM6idType DEF Shape, TypeOK
<1> HIDE DEF succeeded, failed, m6id
<1>7. \A i \in Index : \/ i \in Queued(parent) /\ queue.requests[i] = parent.requests[i]
                       \/ /\ i \notin Queued(parent) /\ queue.requests[i].status = "Pending"
                          /\ parent.requests[i].status = "Pending"
  <2>1. parent.requestCount \in Nat
    BY <1>1 DEF Shape, TypeOK, QueueState
  <2> QED BY <1>1, <1>2, <2>1, UpdateAssumption DEF Appended, Queued, Index, PaidBack
<1>8. \A i \in Index : KeptOrSettled(parent, queue', failed, i)
  <2> SUFFICES ASSUME NEW i \in Index, parent.requests[i].status # "Pending"
               PROVE  /\ queue'.requests[i].bundleM6id = parent.requests[i].bundleM6id
                      /\ FollowsStatus(parent.requests[i].status, Settled(queue', failed, i))
    BY DEF KeptOrSettled
  <2>1. i \notin bundled /\ queue.requests[i] = parent.requests[i]
    BY <1>5, <1>7
  <2>2. parent.requests[i].status \in Status
    BY <1>1 DEF Shape, TypeOK, QueueState, Request
  <2>3. CASE parent.requests[i].status = "Bundled"
    <3>1. Settled(queue', failed, i) \in {"Refunded", "Confirmed", "Bundled"}
      BY <1>3, <2>1, <2>3 DEF Settled
    <3> QED BY <1>3, <2>1, <2>3, <3>1 DEF FollowsStatus, Lifecycles!Successors
  <2>4. CASE parent.requests[i].status # "Bundled"
    <3>1. Settled(queue', failed, i) = parent.requests[i].status
      BY <1>3, <1>4, <2>1, <2>4 DEF Settled
    <3> QED BY <1>3, <2>1, <2>2, <3>1 DEF FollowsStatus, Lifecycles!Successors, Status
  <2> QED BY <2>3, <2>4
<1>9. \A i \in Index : NewlyIn(parent, queue', i) =>
         /\ i \in Queued(parent)
         /\ queue'.requests[i].bundleM6id = m6id
         /\ Settled(queue', failed, i) = "Bundled"
  <2> SUFFICES ASSUME NEW i \in Index, parent.requests[i].status = "Pending",
                      queue'.requests[i].status # "Pending"
               PROVE  /\ i \in Queued(parent)
                      /\ queue'.requests[i].bundleM6id = m6id
                      /\ Settled(queue', failed, i) = "Bundled"
    BY DEF NewlyIn, InBundle
  <2>1. \A job \in succeeded \cup failed : job[2] # i
    BY <1>4
  <2>2. i \in bundled
    BY <1>3, <1>7, <2>1
  <2> QED BY <1>3, <1>5, <2>1, <2>2 DEF Settled
<1>10. Follows(parent, queue', failed)
  BY <1>6, <1>8, <1>9 DEF Follows
<1>11. Unassigned(queue')
  BY <1>3 DEF LifecycleInv, Unassigned
<1> QED BY <1>1, <1>2, <1>3, <1>10, <1>11 DEF LifecycleInv

LEMMA ReportLifecycleInv ==
    ASSUME LifecycleInv, NEW bundled \in SUBSET Index, NEW n \in Nat,
           NEW outcomes \in [1 .. n -> Outcome], ReportLifecycle(bundled, outcomes)
    PROVE  LifecycleInv'
<1>1. Shape /\ BundleInv'
  BY ReportBundle DEF LifecycleInv, BundleInv, RefundInv
<1>2. CASE UNCHANGED <<queue, beforeCall, todo>> /\ phase' = "txs"
  BY <1>1, <1>2, ReportEffect DEF LifecycleInv, Calling
<1>3. CASE Reported(bundled, outcomes)
  BY <1>3, ReportFollows
<1> QED BY <1>1, <1>2, <1>3, ReportEffect

LEMMA RefundLifecycle ==
    ASSUME LifecycleInv, NEW job \in todo, RefundAccepted(job) \/ RefundRejected(job)
    PROVE  LifecycleInv'
<1>1. BundleInv' /\ Shape
  BY RefundBundle DEF LifecycleInv, BundleInv, RefundInv
<1>2. /\ phase = "refunds" /\ phase' \in {"refunds", "callee"} /\ job[2] \in Index
      /\ todo' = todo \ {job} /\ UNCHANGED <<parent, height, beforeCall>>
      /\ queue.requests[job[2]].status = "Bundled"
      /\ \A i \in Index :
            /\ queue'.requests[i].bundleM6id = queue.requests[i].bundleM6id
            /\ queue'.requests[i].status = IF i = job[2] THEN "Refunded"
                                           ELSE queue.requests[i].status
  BY <1>1, RefundEffect
<1>3. \A i \in Index : Settled(queue', todo', i) = Settled(queue, todo, i)
  BY <1>2 DEF Settled
<1>4. \A i \in Index : InBundle(queue', i) <=> InBundle(queue, i)
  BY <1>2 DEF InBundle
<1>5. Follows(parent, queue', todo')
  <2>1. \A i \in Index : KeptOrSettled(parent, queue', todo', i)
    <3>1. \A i \in Index : KeptOrSettled(parent, queue, todo, i)
      BY DEF LifecycleInv, Follows
    <3> QED BY <1>2, <1>3, <3>1 DEF KeptOrSettled
  <2>2. PICK m6id \in M6id : \A i \in Index : NewlyIn(parent, queue, i) =>
          /\ i \in Queued(parent)
          /\ queue.requests[i].bundleM6id = m6id
          /\ Settled(queue, todo, i) = "Bundled"
    BY DEF LifecycleInv, Follows
  <2>3. \A i \in Index : NewlyIn(parent, queue', i) =>
          /\ i \in Queued(parent)
          /\ queue'.requests[i].bundleM6id = m6id
          /\ Settled(queue', todo', i) = "Bundled"
    BY <1>2, <1>3, <1>4, <2>2 DEF NewlyIn
  <2>4. Follows(parent, queue', todo')
    BY <2>1, <2>3 DEF Follows
  <2> QED BY <1>2, <2>4
<1>6. Unassigned(queue')
  BY <1>2 DEF LifecycleInv, Unassigned
<1> QED BY <1>1, <1>2, <1>5, <1>6 DEF LifecycleInv, Calling

LEMMA ControlLifecycle == LifecycleInv /\ Control => LifecycleInv'
<1> SUFFICES ASSUME LifecycleInv, Control PROVE LifecycleInv'
  OBVIOUS
<1>1. BundleInv /\ BundleInv'
  BY ControlBundle DEF LifecycleInv
<1>2. parent \in QueueState /\ queue \in QueueState /\ PaidBack(parent) /\ PaidBack(queue)
  BY <1>1 DEF BundleInv, RefundInv, Shape, TypeOK
<1>3. Appended(parent, parent) /\ Appended(queue, queue)
  BY <1>2 DEF Appended, PaidBack
<1>4. Follows(parent, parent, {}) /\ Follows(queue, queue, {})
  BY <1>2, <1>3, AppendedFollows
<1>5. Calling => Follows(parent, beforeCall, {})
  BY <1>2, AppendedFollows DEF LifecycleInv
<1> USE DEF LifecycleInv, Calling, chain
<1>6. CASE \E job \in todo : RefundReverts(job)
  BY <1>1, <1>5, <1>6 DEF RefundReverts
<1>7. CASE CalleeReturns
  BY <1>1, <1>7 DEF CalleeReturns
<1>8. CASE LifecycleHalts
  BY <1>1, <1>5, <1>8 DEF LifecycleHalts
<1>9. CASE LifecycleReturns
  BY <1>1, <1>9 DEF LifecycleReturns
<1>10. CASE StartBlock
  BY <1>1, <1>10 DEF StartBlock
<1>11. CASE SealBlock
  <2>1. todo = {}
    BY <1>11 DEF SealBlock, BundleInv
  <2> QED BY <1>1, <1>4, <1>11, <2>1 DEF SealBlock
<1>12. CASE AbandonBlock
  BY <1>1, <1>4, <1>12 DEF AbandonBlock
<1>13. CASE DepositsHalt
  <2>1. todo = {}
    BY <1>13 DEF DepositsHalt, BundleInv
  <2> QED BY <1>1, <1>4, <1>13, <2>1 DEF DepositsHalt
<1> QED BY <1>6, <1>7, <1>8, <1>9, <1>10, <1>11, <1>12, <1>13 DEF Control

LEMMA NextLifecycle == LifecycleInv /\ [Next]_vars => LifecycleInv'
<1> SUFFICES ASSUME LifecycleInv, [Next]_vars PROVE LifecycleInv'
  OBVIOUS
<1>1. CASE Next
  BY <1>1, NextCases, RequestLifecycle, ReportLifecycleInv, RefundLifecycle, ControlLifecycle
<1>2. CASE UNCHANGED vars
  <2>1. BundleInv'
    BY <1>2, NextBundle DEF LifecycleInv
  <2> QED BY <1>2, <2>1 DEF vars, LifecycleInv, Calling
<1> QED BY <1>1, <1>2

(* At every step a block in progress follows its parent state.           *)
THEOREM LifecycleInvariant == Spec => []LifecycleInv
  BY InitLifecycle, NextLifecycle, PTL DEF Spec

-----------------------------------------------------------------------------
(***************************************************************************)
(* What a state that follows its parent means to WithdrawalLifecycle.     *)
(***************************************************************************)
LEMMA SealedBlock ==
    ASSUME LifecycleInv, LifecycleInv', SealBlock
    PROVE  Lifecycles!Block
<1> DEFINE status(q) == [i \in Index |-> q.requests[i].status]
           bundle(q) == [i \in Index |-> q.requests[i].bundleM6id]
           newly == {i \in Index : NewlyIn(parent, queue, i)}
<1>1. /\ parent' = queue /\ todo = {} /\ BundleInv
      /\ parent \in QueueState /\ queue \in QueueState
      /\ PaidBack(parent) /\ PaidBack(queue) /\ Unassigned(parent) /\ Unassigned(queue)
  BY DEF LifecycleInv, BundleInv, RefundInv, Shape, TypeOK, SealBlock, Calling
<1>2. \A i \in Index : Settled(queue, todo, i) = queue.requests[i].status
  BY <1>1 DEF Settled
<1>3. \A i \in Index : parent.requests[i].status # "Pending" =>
         /\ queue.requests[i].bundleM6id = parent.requests[i].bundleM6id
         /\ FollowsStatus(parent.requests[i].status, queue.requests[i].status)
  BY <1>2 DEF LifecycleInv, Follows, KeptOrSettled
<1>4. PICK m6id \in M6id : \A i \in newly :
         /\ i \in Queued(parent)
         /\ queue.requests[i].bundleM6id = m6id
         /\ queue.requests[i].status = "Bundled"
  BY <1>2 DEF LifecycleInv, Follows
<1>5. \A i \in Index : /\ InBundle(parent, i) => i \in Queued(parent)
                       /\ InBundle(queue, i) => i \in Queued(queue)
  <2>1. parent.requestCount \in Nat /\ queue.requestCount \in Nat
    BY <1>1 DEF QueueState
  <2>2. \A i \in Index : i \in Nat
    BY UpdateAssumption DEF Index
  <2>3. \A i \in Index : /\ i >= parent.requestCount \/ i \in Queued(parent)
                         /\ i >= queue.requestCount \/ i \in Queued(queue)
    BY <2>1, <2>2 DEF Queued
  <2> QED BY <1>1, <2>3 DEF PaidBack, InBundle
<1>6. /\ \A i \in Index : InBundle(queue, i) =>
            /\ i \in queue.requests[i].bundleM6id.indices
            /\ \A j \in queue.requests[i].bundleM6id.indices :
                  /\ InBundle(queue, j)
                  /\ queue.requests[j].status = queue.requests[i].status
      /\ \A i \in Index : InBundle(parent, i) =>
            /\ i \in parent.requests[i].bundleM6id.indices
            /\ \A j \in parent.requests[i].bundleM6id.indices : InBundle(parent, j)
  BY <1>1, <1>5 DEF BundleInv, Uniform, Settled
<1>7. \A i \in Index : /\ queue.requests[i].bundleM6id = NoBundle <=> queue.requests[i].status = "Pending"
                       /\ parent.requests[i].bundleM6id = NoBundle <=> parent.requests[i].status = "Pending"
  BY <1>1, <1>6 DEF Unassigned, InBundle, NoBundle
<1>8. queue.requestCount \in parent.requestCount .. MaxRequests
  BY <1>1, UpdateAssumption DEF BundleInv, RefundInv, QueueState
<1>9. /\ status(queue) \in [Index -> {"Pending", "Bundled", "Confirmed", "Refunded"}]
      /\ bundle(queue) \in [Index -> (M6id \ {NoBundle}) \cup {NoBundle}]
  BY <1>1 DEF QueueState, Request, Status
<1>10. \A i \in Index : queue.requests[i].status \in Lifecycles!Successors(parent.requests[i].status)
  <2> SUFFICES ASSUME NEW i \in Index
               PROVE  queue.requests[i].status \in Lifecycles!Successors(parent.requests[i].status)
    OBVIOUS
  <2>1. CASE parent.requests[i].status # "Pending"
    BY <1>3, <2>1 DEF FollowsStatus
  <2>2. CASE parent.requests[i].status = "Pending" /\ queue.requests[i].status = "Pending"
    BY <2>2 DEF Lifecycles!Successors
  <2>3. CASE parent.requests[i].status = "Pending" /\ queue.requests[i].status # "Pending"
    <3>1. queue.requests[i].status = "Bundled"
      BY <1>4, <2>3 DEF NewlyIn, InBundle
    <3> QED BY <2>3, <3>1 DEF Lifecycles!Successors
  <2> QED BY <2>1, <2>2, <2>3
<1>11. \A i \in newly, j \in Index : parent.requests[j].bundleM6id # queue.requests[i].bundleM6id
  <2> SUFFICES ASSUME NEW i \in newly, NEW j \in Index,
                      parent.requests[j].bundleM6id = queue.requests[i].bundleM6id
               PROVE  FALSE
    OBVIOUS
  <2>1. InBundle(queue, i) /\ ~InBundle(parent, i)
    BY DEF NewlyIn, InBundle
  <2>2. InBundle(parent, j)
    BY <1>7, <2>1 DEF InBundle
  <2>3. i \in parent.requests[j].bundleM6id.indices
    BY <1>6, <2>1
  <2> QED BY <1>6, <2>1, <2>2, <2>3
<1>12. \A i, j \in Index :
          /\ queue.requests[i].bundleM6id # NoBundle
          /\ queue.requests[i].bundleM6id = queue.requests[j].bundleM6id
          => queue.requests[i].status = queue.requests[j].status
  BY <1>6, <1>7 DEF InBundle
<1>13. Lifecycles!NewlyBundled \subseteq newly
  BY <1>1 DEF Lifecycles!NewlyBundled, NewlyIn, InBundle, Lifecycles!Index, Index
<1>14. \A i \in newly : i < parent.requestCount
  BY <1>1, <1>4 DEF Queued, QueueState
<1> HIDE DEF newly
<1>15. Lifecycles!Index = Index
  BY DEF Lifecycles!Index, Index
<1>16. \A i \in Index : /\ status(parent)[i] = parent.requests[i].status
                        /\ bundle(parent)[i] = parent.requests[i].bundleM6id
                        /\ status(queue)[i] = queue.requests[i].status
                        /\ bundle(queue)[i] = queue.requests[i].bundleM6id
  OBVIOUS
<1>17. status(parent)' = status(queue) /\ bundle(parent)' = bundle(queue)
  BY <1>1
<1>18. newly \subseteq Index
  BY DEF newly
<1> HIDE DEF status, bundle
<1>19. /\ status(queue) \in [Index -> {"Pending", "Bundled", "Confirmed", "Refunded"}]
       /\ bundle(queue) \in [Index -> (M6id \ {NoBundle}) \cup {NoBundle}]
       /\ \A i \in Index : status(queue)[i] \in Lifecycles!Successors(status(parent)[i])
       /\ \A i \in Index : bundle(queue)[i] = NoBundle <=> status(queue)[i] = "Pending"
       /\ \A i \in Index : status(parent)[i] # "Pending" => bundle(queue)[i] = bundle(parent)[i]
  BY <1>3, <1>7, <1>9, <1>10, <1>16
<1>20. /\ \A i \in newly : i < parent.requestCount
       /\ \A i, j \in newly : bundle(queue)[i] = bundle(queue)[j]
       /\ \A i \in newly, j \in Index : bundle(parent)[j] # bundle(queue)[i]
  BY <1>4, <1>11, <1>14, <1>16, <1>18
<1>21. \A i, j \in Index :
          bundle(queue)[i] # NoBundle /\ bundle(queue)[i] = bundle(queue)[j]
             => status(queue)[i] = status(queue)[j]
  BY <1>12, <1>16
<1>22. parent.requestCount' \in parent.requestCount .. MaxRequests
  BY <1>1, <1>8
<1> QED
  BY <1>13, <1>15, <1>17, <1>19, <1>20, <1>21, <1>22 DEF Lifecycles!Block, status, bundle

LEMMA InitRefines == Init => Lifecycles!Init
  BY DEF Init, Lifecycles!Init, EmptyRequest, Lifecycles!Index, Index

LEMMA NextRefines ==
    LifecycleInv /\ LifecycleInv' /\ [Next]_vars => [Lifecycles!Block]_(Lifecycles!lifecycleVars)
<1> SUFFICES ASSUME LifecycleInv, LifecycleInv', [Next]_vars
             PROVE  Lifecycles!Block \/ UNCHANGED Lifecycles!lifecycleVars
  OBVIOUS
<1>1. SealBlock \/ UNCHANGED parent
  BY DEF vars, Next, Lifecycle, chain, RequestWithdrawal, ReportLifecycle, RefundAccepted,
     RefundRejected, RefundReverts, CalleeReturns, LifecycleHalts, LifecycleReturns,
     StartBlock, DepositsHalt, AbandonBlock
<1>2. UNCHANGED parent => UNCHANGED Lifecycles!lifecycleVars
  BY DEF Lifecycles!lifecycleVars
<1> QED BY <1>1, <1>2, SealedBlock

(***************************************************************************)
(* Block by block, the contract and its caller in src/evm.rs implement    *)
(* WithdrawalLifecycle: bundles get a fresh name, resolve as a whole and  *)
(* once, and no block undoes what an earlier one settled.                 *)
(***************************************************************************)
THEOREM QueueImplementsLifecycle == Spec => RefinesLifecycle
  BY InitRefines, NextRefines, LifecycleInvariant, PTL DEF Spec, RefinesLifecycle, Lifecycles!Spec
=============================================================================
