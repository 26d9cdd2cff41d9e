------------------------------- MODULE PegProofs -------------------------------
(***************************************************************************)
(* Theorems about Peg, for every reserve, every bound and all amounts:    *)
(* the composition is an execution of WithdrawalRequestQueue, so that     *)
(* what is proved of the queue holds in it; it creates or destroys no     *)
(* coin; and treasury and vault cover what they owe.                      *)
(***************************************************************************)
EXTENDS Peg, WithdrawalRequestQueueProofs

Held(balances, q) ==
    balances.vault + balances.users + balances.burned + q.balance = Reserve

Ranges ==
    /\ anchor.deposits <= upTo.deposits /\ anchor.outcomes <= upTo.outcomes
    /\ upTo.outcomes <= Len(outcomes)
    /\ upTo.deposits <= Len(deposits)
    /\ Len(outcomes) <= MaxOutcomes

PegShape == PegTypeOK /\ Shape /\ Ranges

(***************************************************************************)
(* The invariant: types, ranges inside the mainchain, and the supply, of  *)
(* the state in progress and of the states an undone call or block goes   *)
(* back to.                                                               *)
(***************************************************************************)
PegInv ==
    /\ PegShape
    /\ Held(bank, queue)
    /\ Held(parentBank, parent)
    /\ Calling => Held(bankBeforeCall, beforeCall)

books == <<deposits, outcomes, broadcast, anchor, upTo, cursor,
           bank, parentBank, bankBeforeCall>>

USE QueueAssumption, UpdateAssumption, PegAssumption

LEMMA SeqElements ==
    ASSUME NEW S, NEW s \in Seq(S)
    PROVE  /\ Len(s) \in Nat
           /\ \A k \in 1 .. Len(s) : s[k] \in S
  OBVIOUS

LEMMA SeqWidens ==
    ASSUME NEW S, NEW T, S \subseteq T, NEW s \in Seq(S)
    PROVE  s \in Seq(T)
  OBVIOUS

LEMMA NewBundleType == Shape => NewBundle \in SUBSET Index
  BY DEF Shape, TypeOK, QueueState, NewBundle, Oldest, PendingIn, Queued, Index

(* The outcomes a block is given are outcomes the queue model allows.     *)
LEMMA RangeOutcomesType ==
    ASSUME PegShape
    PROVE  \E n \in 0 .. MaxOutcomes : RangeOutcomes \in [1 .. n -> Outcome]
<1> DEFINE n == upTo.outcomes - anchor.outcomes
<1>1. /\ anchor.outcomes \in Nat /\ upTo.outcomes \in Nat
      /\ Len(outcomes) \in Nat
      /\ \A k \in 1 .. Len(outcomes) :
            outcomes[k] \in [m6id : broadcast, status : {"Succeeded", "Failed"}]
  <2> HIDE DEF n
  <2>1. outcomes \in Seq([m6id : broadcast, status : {"Succeeded", "Failed"}])
    BY DEF PegShape, PegTypeOK
  <2>2. anchor \in Point /\ upTo \in Point
    BY DEF PegShape, PegTypeOK
  <2>3. /\ Len(outcomes) \in Nat
        /\ \A k \in 1 .. Len(outcomes) :
              outcomes[k] \in [m6id : broadcast, status : {"Succeeded", "Failed"}]
    BY <2>1, SeqElements
  <2> QED BY <2>2, <2>3 DEF Point
<1>2. n \in 0 .. MaxOutcomes
  BY <1>1 DEF PegShape, Ranges
<1>3. ASSUME NEW k \in 1 .. n
      PROVE  Known(outcomes[anchor.outcomes + k]) \in Outcome
  <2>1. anchor.outcomes + k \in 1 .. Len(outcomes)
    BY <1>1 DEF PegShape, Ranges
  <2>2. outcomes[anchor.outcomes + k] \in [m6id : broadcast, status : {"Succeeded", "Failed"}]
    BY <1>1, <2>1
  <2> QED BY <2>2 DEF Known, Outcome
<1>4. RangeOutcomes \in [1 .. n -> Outcome]
  BY <1>3 DEF RangeOutcomes
<1> HIDE DEF n
<1> QED BY <1>2, <1>4

(***************************************************************************)
(* Every step of the composition is a step of the queue, or leaves it.    *)
(***************************************************************************)
LEMMA QueueStep == ASSUME PegShape, [PegNext]_pegVars PROVE [Next]_vars
<1>1. CASE \E sats \in DepositSats : MineDeposit(sats)
  BY <1>1 DEF MineDeposit
<1>2. CASE \E m6id \in broadcast, status \in {"Succeeded", "Failed"} : MineOutcome(m6id, status)
  BY <1>2 DEF MineOutcome
<1>3. CASE BuildBlock
  BY <1>3 DEF BuildBlock, Next
<1>4. CASE CreditDeposit \/ RejectDeposit
  BY <1>4 DEF CreditDeposit, RejectDeposit
<1>5. CASE DepositCallHalts
  BY <1>5 DEF DepositCallHalts, Next
<1>6. CASE \E msgValue \in MsgValue, mainFeeSats \in MainFeeSats :
             UserRequests(msgValue, mainFeeSats)
  BY <1>6 DEF UserRequests, Next
<1>7. CASE ReportRange
  <2>1. NewBundle \in SUBSET Index
    BY NewBundleType DEF PegShape
  <2>2. PICK n \in 0 .. MaxOutcomes : RangeOutcomes \in [1 .. n -> Outcome]
    BY RangeOutcomesType
  <2>3. ReportLifecycle(NewBundle, RangeOutcomes)
    BY <1>7 DEF ReportRange
  <2>4. Lifecycle
    BY <2>1, <2>2, <2>3 DEF Lifecycle
  <2> QED BY <2>4 DEF Next
<1>8. CASE \E job \in todo : Refund(job)
  BY <1>8 DEF Refund, Next, Lifecycle
<1>9. CASE LifecycleCallHalts \/ LifecycleCallGoesOn
  BY <1>9 DEF LifecycleCallHalts, LifecycleCallGoesOn, Next, Lifecycle
<1>10. CASE Seal \/ Abandon
  BY <1>10 DEF Seal, Abandon, Next
<1>11. CASE UNCHANGED pegVars
  BY <1>11 DEF pegVars
<1> QED BY <1>1, <1>2, <1>3, <1>4, <1>5, <1>6, <1>7, <1>8, <1>9, <1>10, <1>11 DEF PegNext

-----------------------------------------------------------------------------
(***************************************************************************)
(* What the queue's steps do to its balance.                              *)
(***************************************************************************)
LEMMA RequestBalance ==
    ASSUME Shape, NEW msgValue \in MsgValue, NEW mainFeeSats \in MainFeeSats,
           RequestWithdrawal(msgValue, mainFeeSats)
    PROVE  /\ queue'.balance = queue.balance + msgValue
           /\ UNCHANGED <<parent, phase, beforeCall>>
  BY DEF Shape, TypeOK, QueueState, RequestWithdrawal, chain

LEMMA ReportBalance ==
    ASSUME Shape, NEW bundled, NEW reported, ReportLifecycle(bundled, reported)
    PROVE  /\ queue'.balance = queue.balance
           /\ phase' \in {"refunds", "txs"}
           /\ phase' = "refunds" => beforeCall' = queue
           /\ UNCHANGED parent
  BY DEF Shape, TypeOK, QueueState, ReportLifecycle, chain

LEMMA RefundBalance ==
    ASSUME Shape, NEW job \in todo
    PROVE  /\ AmountWei(queue.requests[job[2]]) \in Nat
           /\ RefundAccepted(job) =>
                 queue'.balance = queue.balance - AmountWei(queue.requests[job[2]])
           /\ RefundRejected(job) => queue'.balance = queue.balance
           /\ RefundAccepted(job) \/ RefundRejected(job) =>
                 phase = "refunds" /\ UNCHANGED <<parent, beforeCall>>
<1>1. job[2] \in Index /\ queue \in QueueState
  BY DEF Shape, TypeOK
<1>2. AmountWei(queue.requests[job[2]]) \in Nat
  BY <1>1 DEF QueueState, Request, AmountWei
<1> DEFINE amount == AmountWei(queue.requests[job[2]])
<1>3. RefundAccepted(job) => queue'.balance = queue.balance - amount
  <2> HIDE DEF amount
  <2> SUFFICES ASSUME RefundAccepted(job) PROVE queue'.balance = queue.balance - amount
    OBVIOUS
  <2>1. queue' = [queue EXCEPT !.requests[job[2]].status = "Refunded",
                               !.balance = @ - amount,
                               !.refunds[job[2]] = @ + 1]
    BY DEF RefundAccepted, amount
  <2> QED BY <1>1, <2>1 DEF QueueState
<1>4. RefundRejected(job) => queue'.balance = queue.balance
  BY <1>1 DEF QueueState, RefundRejected
<1>5. RefundAccepted(job) \/ RefundRejected(job) =>
        phase = "refunds" /\ UNCHANGED <<parent, beforeCall>>
  BY DEF RefundAccepted, RefundRejected, chain
<1> QED BY <1>2, <1>3, <1>4, <1>5

LEMMA CreditType ==
    ASSUME PegShape, AtNextDeposit
    PROVE  /\ CreditWei \in Nat
           /\ cursor + 1 \in Nat
<1>1. cursor \in Nat /\ upTo.deposits \in Nat
  BY DEF PegShape, PegTypeOK, Point
<1>2. cursor + 1 \in 1 .. Len(deposits)
  BY <1>1 DEF PegShape, PegTypeOK, Ranges, AtNextDeposit
<1>3. deposits[cursor + 1] \in DepositSats
  BY <1>2, SeqElements DEF PegShape, PegTypeOK
<1>4. deposits[cursor + 1] \in Nat
  BY <1>3
<1>5. \A sats \in Nat : sats * WeiPerSat \in Nat
  OBVIOUS
<1> QED BY <1>1, <1>4, <1>5 DEF CreditWei

LEMMA InitPeg == PegInit => PegInv
<1> SUFFICES ASSUME PegInit PROVE PegInv
  OBVIOUS
<1>1. Shape
  BY InitShape DEF PegInit
<1>2. Ranges
  BY DEF PegInit, Ranges, Genesis
<1>3. PegTypeOK
  BY <1>1 DEF PegInit, PegTypeOK, Shape, Genesis, Point, Balances
<1>4. queue.balance = 0 /\ parent = queue /\ phase = "sealed"
  BY DEF PegInit, Init
<1> QED BY <1>1, <1>2, <1>3, <1>4 DEF PegInv, PegShape, Held, Calling, PegInit

(***************************************************************************)
(* A step that leaves the mainchain, and what it keeps of the ranges.     *)
(***************************************************************************)
Covered ==
    /\ upTo' \in Point /\ anchor' \in Point /\ cursor' \in Nat
    /\ anchor'.deposits <= upTo'.deposits /\ anchor'.outcomes <= upTo'.outcomes
    /\ upTo'.outcomes <= Len(outcomes)
    /\ upTo'.deposits <= Len(deposits)

SameRanges == UNCHANGED <<mainchain, broadcast, anchor, upTo>>

LEMMA SameRangesCovered ==
    ASSUME PegShape, SameRanges, cursor' \in Nat
    PROVE  Covered /\ UNCHANGED <<mainchain, broadcast>>
  BY DEF PegShape, PegTypeOK, Ranges, SameRanges, Covered

LEMMA RestOfShape ==
    ASSUME PegShape, Shape', Covered, UNCHANGED <<mainchain, broadcast>>,
           bank' \in Balances, parentBank' \in Balances, bankBeforeCall' \in Balances
    PROVE  PegShape'
  BY DEF PegShape, PegTypeOK, Ranges, Shape, Covered, mainchain

LEMMA MainchainPeg ==
    ASSUME PegInv, Shape',
           \/ \E sats \in DepositSats : MineDeposit(sats)
           \/ \E m6id \in broadcast, status \in {"Succeeded", "Failed"} :
                 MineOutcome(m6id, status)
    PROVE  PegInv'
<1> USE DEF PegInv, PegShape, PegTypeOK, Ranges, Held, Calling, vars, chain, Point, Shape
<1>1. CASE \E sats \in DepositSats : MineDeposit(sats)
  BY <1>1 DEF MineDeposit
<1>2. CASE \E m6id \in broadcast, status \in {"Succeeded", "Failed"} : MineOutcome(m6id, status)
  BY <1>2 DEF MineOutcome
<1> QED BY <1>1, <1>2

LEMMA DepositCallPeg ==
    ASSUME PegInv, Shape', CreditDeposit \/ RejectDeposit \/ DepositCallHalts
    PROVE  PegInv'
<1>1. PegShape /\ AtNextDeposit /\ ~Calling
  BY DEF PegInv, CreditDeposit, RejectDeposit, DepositCallHalts, AtNextDeposit, Calling
<1>2. CreditWei \in Nat /\ cursor + 1 \in Nat
  BY <1>1, CreditType
<1>3. /\ bank \in Balances /\ parentBank \in Balances /\ bankBeforeCall \in Balances
      /\ upTo.deposits \in Nat
      /\ queue.balance \in Nat
  BY <1>1 DEF PegShape, PegTypeOK, Point, Shape, TypeOK, QueueState
<1>4. SameRanges /\ cursor' \in Nat
  BY <1>2, <1>3 DEF CreditDeposit, RejectDeposit, DepositCallHalts, SameRanges
<1>5. bank' \in Balances
  <2> HIDE DEF CreditWei
  <2>1. CASE CreditDeposit
    <3>1. bank' = [vault |-> bank.vault - CreditWei, users |-> bank.users + CreditWei,
                   burned |-> bank.burned]
      BY <1>3, <2>1 DEF CreditDeposit, Balances
    <3> QED BY <1>2, <1>3, <2>1, <3>1 DEF CreditDeposit, Balances
  <2>2. CASE RejectDeposit \/ DepositCallHalts
    BY <1>3, <2>2 DEF RejectDeposit, DepositCallHalts
  <2> QED BY <2>1, <2>2
<1>6. UNCHANGED <<parentBank, bankBeforeCall, parent, phase>>
  BY DEF CreditDeposit, RejectDeposit, DepositCallHalts, DepositsHalt, vars, chain
<1>7. PegShape'
  BY <1>1, <1>3, <1>4, <1>5, <1>6, SameRangesCovered, RestOfShape
<1>8. Held(bank', queue')
  <2>1. CASE CreditDeposit
    <3> HIDE DEF CreditWei
    <3>1. queue' = queue
      BY <2>1 DEF CreditDeposit, vars
    <3> QED BY <1>2, <1>3, <2>1, <3>1 DEF CreditDeposit, Held, PegInv, Balances
  <2>2. CASE RejectDeposit
    BY <2>2 DEF RejectDeposit, Held, PegInv, vars
  <2>3. CASE DepositCallHalts
    BY <2>3 DEF DepositCallHalts, DepositsHalt, Held, PegInv
  <2> QED BY <2>1, <2>2, <2>3
<1> QED BY <1>1, <1>6, <1>7, <1>8 DEF PegInv, Held, Calling

LEMMA RequestPeg ==
    ASSUME PegInv, Shape', NEW msgValue \in MsgValue, NEW mainFeeSats \in MainFeeSats,
           UserRequests(msgValue, mainFeeSats)
    PROVE  PegInv'
<1>1. /\ queue'.balance = queue.balance + msgValue
      /\ UNCHANGED <<parent, phase, beforeCall>>
  BY RequestBalance DEF PegInv, PegShape, UserRequests
<1>2. /\ bank \in Balances /\ parentBank \in Balances /\ bankBeforeCall \in Balances
      /\ cursor \in Nat /\ msgValue \in Nat /\ queue.balance \in Nat
  BY DEF PegInv, PegShape, PegTypeOK, Shape, TypeOK, QueueState
<1>3. /\ SameRanges /\ cursor' = cursor
      /\ UNCHANGED <<parentBank, bankBeforeCall>>
      /\ msgValue <= bank.users
      /\ bank' = [bank EXCEPT !.users = @ - msgValue]
  BY DEF UserRequests, SameRanges
<1>4. /\ bank'.vault = bank.vault /\ bank'.users = bank.users - msgValue
      /\ bank'.burned = bank.burned
      /\ bank' \in Balances
  BY <1>2, <1>3 DEF Balances
<1>5. PegShape'
  BY <1>2, <1>3, <1>4, SameRangesCovered, RestOfShape DEF PegInv
<1>6. Held(bank', queue')
  BY <1>1, <1>2, <1>4 DEF Held, PegInv, Balances
<1> QED BY <1>1, <1>3, <1>5, <1>6 DEF PegInv, Held, Calling

(* What a block burns moves from the users to the burned coins.           *)
LEMMA SealBurns ==
    ASSUME bank \in Balances, Seal
    PROVE  /\ bank' \in Balances
           /\ bank'.vault + bank'.users + bank'.burned = bank.vault + bank.users + bank.burned
           /\ Issued(bank') = Issued(bank)
<1>1. PICK burnt \in BaseFees :
          /\ burnt <= bank.users
          /\ bank' = [bank EXCEPT !.users = @ - burnt, !.burned = @ + burnt]
  BY DEF Seal
<1>2. burnt \in Nat /\ bank.vault \in Nat /\ bank.users \in Nat /\ bank.burned \in Nat
  BY PegAssumption DEF Balances
<1>3. bank' = [vault |-> bank.vault, users |-> bank.users - burnt, burned |-> bank.burned + burnt]
  BY <1>1 DEF Balances
<1> QED BY <1>1, <1>2, <1>3 DEF Balances, Issued

LEMMA ReportPeg == ASSUME PegInv, Shape', ReportRange PROVE PegInv'
<1>1. /\ queue'.balance = queue.balance
      /\ phase' \in {"refunds", "txs"}
      /\ phase' = "refunds" => beforeCall' = queue
      /\ UNCHANGED parent
  BY ReportBalance DEF PegInv, PegShape, ReportRange
<1>2. /\ SameRanges /\ cursor' = cursor
      /\ UNCHANGED <<bank, parentBank>> /\ bankBeforeCall' = bank
  BY DEF ReportRange, SameRanges
<1>3. /\ bank \in Balances /\ parentBank \in Balances
      /\ cursor \in Nat
  BY DEF PegInv, PegShape, PegTypeOK
<1>4. PegShape'
  BY <1>2, <1>3, SameRangesCovered, RestOfShape DEF PegInv
<1> QED BY <1>1, <1>2, <1>4 DEF PegInv, Held, Calling

LEMMA RefundPeg == ASSUME PegInv, Shape', NEW job \in todo, Refund(job) PROVE PegInv'
<1> DEFINE amount == AmountWei(queue.requests[job[2]])
<1>1. amount \in Nat
  BY RefundBalance DEF PegInv, PegShape
<1>2. phase = "refunds" /\ UNCHANGED <<parent, beforeCall>>
  BY RefundBalance DEF PegInv, PegShape, Refund
<1>3. /\ bank \in Balances /\ parentBank \in Balances /\ bankBeforeCall \in Balances
      /\ cursor \in Nat /\ queue.balance \in Nat
  BY DEF PegInv, PegShape, PegTypeOK, Shape, TypeOK, QueueState
<1>4. \/ /\ queue'.balance = queue.balance - amount
         /\ bank' = [bank EXCEPT !.users = @ + amount]
      \/ UNCHANGED bank /\ queue'.balance = queue.balance
  BY RefundBalance DEF PegInv, PegShape, Refund
<1>5. /\ SameRanges /\ cursor' = cursor
      /\ UNCHANGED <<parentBank, bankBeforeCall>>
  BY DEF Refund, SameRanges
<1> HIDE DEF amount
<1>6. bank' \in Balances
  BY <1>1, <1>3, <1>4 DEF Balances
<1>7. Held(bank', queue')
  BY <1>1, <1>3, <1>4 DEF Held, PegInv, Balances
<1>8. PegShape'
  BY <1>3, <1>5, <1>6, SameRangesCovered, RestOfShape DEF PegInv
<1> QED BY <1>2, <1>5, <1>7, <1>8 DEF PegInv, Held, Calling

LEMMA ControlPeg ==
    ASSUME PegInv, Shape',
           BuildBlock \/ LifecycleCallHalts \/ LifecycleCallGoesOn \/ Seal \/ Abandon
    PROVE  PegInv'
<1>1. /\ bank \in Balances /\ parentBank \in Balances /\ bankBeforeCall \in Balances
      /\ cursor \in Nat /\ anchor \in Point /\ upTo \in Point
      /\ Len(deposits) \in Nat /\ Len(outcomes) \in Nat
      /\ height' \in Nat
  BY DEF PegInv, PegShape, PegTypeOK, Shape, TypeOK
<1>2. CASE BuildBlock
  <2>1. upTo' = Tip /\ UNCHANGED <<mainchain, anchor, cursor, bank, parentBank, bankBeforeCall>>
    BY <1>2 DEF BuildBlock
  <2>2. upTo' \in Point
    BY <1>1, <2>1 DEF Tip, Point
  <2>3. NewM6id(NewBundle, height') \in M6id
    BY <1>1, NewBundleType, NewM6idType DEF PegInv, PegShape
  <2>4. /\ broadcast \subseteq broadcast'
        /\ broadcast' \subseteq M6id
    BY <1>2, <2>3 DEF BuildBlock, PegInv, PegShape, PegTypeOK
  <2>5. outcomes' \in Seq([m6id : broadcast', status : {"Succeeded", "Failed"}])
    <3>1. outcomes \in Seq([m6id : broadcast, status : {"Succeeded", "Failed"}])
      BY DEF PegInv, PegShape, PegTypeOK
    <3>2. outcomes' = outcomes
      BY <2>1 DEF mainchain
    <3> DEFINE Decision(m6ids) == [m6id : m6ids, status : {"Succeeded", "Failed"}]
    <3>3. Decision(broadcast) \subseteq Decision(broadcast')
      BY <2>4
    <3> QED BY <3>1, <3>2, <3>3, SeqWidens
  <2>6. PegTypeOK'
    BY <1>1, <2>1, <2>2, <2>4, <2>5 DEF mainchain, PegInv, PegShape, PegTypeOK, Shape
  <2>7. Ranges'
    BY <1>1, <2>1 DEF mainchain, PegInv, PegShape, Ranges, Tip, Point
  <2>8. UNCHANGED <<queue, parent, beforeCall>> /\ phase' = "deposits"
    BY <1>2 DEF BuildBlock, StartBlock
  <2> QED BY <2>1, <2>6, <2>7, <2>8 DEF PegInv, PegShape, Held, Calling
<1>3. CASE LifecycleCallHalts
  <2>1. SameRanges /\ cursor' \in Nat
    BY <1>1, <1>3 DEF LifecycleCallHalts, SameRanges
  <2>2. /\ Calling /\ phase' = "txs"
        /\ queue' = beforeCall /\ bank' = bankBeforeCall
        /\ UNCHANGED <<parent, parentBank, bankBeforeCall>>
    BY <1>3 DEF LifecycleCallHalts, LifecycleHalts, Calling, chain
  <2>3. PegShape'
    BY <1>1, <2>1, <2>2, SameRangesCovered, RestOfShape DEF PegInv
  <2> QED BY <2>2, <2>3 DEF PegInv, Held, Calling
<1>4. CASE LifecycleCallGoesOn
  <2>1. SameRanges /\ cursor' \in Nat
    BY <1>1, <1>4 DEF LifecycleCallGoesOn, SameRanges
  <2>2. /\ Calling
        /\ UNCHANGED <<queue, parent, beforeCall, bank, parentBank, bankBeforeCall>>
    BY <1>4 DEF LifecycleCallGoesOn, CalleeReturns, LifecycleReturns, Calling, chain
  <2>3. PegShape'
    BY <1>1, <2>1, <2>2, SameRangesCovered, RestOfShape DEF PegInv
  <2> QED BY <2>2, <2>3 DEF PegInv, Held
<1>5. CASE Seal
  <2>1. /\ anchor' = upTo /\ parentBank' = bank'
        /\ UNCHANGED <<mainchain, broadcast, upTo, cursor, bankBeforeCall>>
    BY <1>5 DEF Seal
  <2>2. Covered
    BY <1>1, <2>1 DEF PegInv, PegShape, Ranges, Covered, Point
  <2>3. queue' = queue /\ parent' = queue /\ phase' = "sealed"
    BY <1>5 DEF Seal, SealBlock
  <2>4. /\ bank' \in Balances
        /\ bank'.vault + bank'.users + bank'.burned = bank.vault + bank.users + bank.burned
    BY <1>1, <1>5, SealBurns
  <2>5. PegShape'
    BY <1>1, <2>1, <2>2, <2>4, RestOfShape DEF PegInv
  <2>6. Held(bank', queue')
    BY <2>3, <2>4 DEF PegInv, Held
  <2> QED BY <2>1, <2>3, <2>5, <2>6 DEF PegInv, Held, Calling
<1>6. CASE Abandon
  <2>1. /\ upTo' = anchor /\ cursor' = anchor.deposits /\ bank' = parentBank
        /\ UNCHANGED <<mainchain, broadcast, anchor, parentBank, bankBeforeCall>>
    BY <1>6 DEF Abandon
  <2>2. Covered
    BY <1>1, <2>1 DEF PegInv, PegShape, Ranges, Covered, Point
  <2>3. PegShape'
    BY <1>1, <2>1, <2>2, RestOfShape DEF PegInv
  <2>4. queue' = parent /\ parent' = parent /\ phase' = "sealed"
    BY <1>6 DEF Abandon, AbandonBlock
  <2> QED BY <2>1, <2>3, <2>4 DEF PegInv, Held, Calling
<1> QED BY <1>2, <1>3, <1>4, <1>5, <1>6

LEMMA NextPeg == PegInv /\ [PegNext]_pegVars => PegInv'
<1> SUFFICES ASSUME PegInv, [PegNext]_pegVars PROVE PegInv'
  OBVIOUS
<1>1. Shape'
  BY QueueStep, NextShape DEF PegInv, PegShape
<1>2. CASE PegNext
  BY <1>1, <1>2, MainchainPeg, DepositCallPeg, RequestPeg, ReportPeg, RefundPeg, ControlPeg
     DEF PegNext
<1>3. CASE UNCHANGED pegVars
  BY <1>1, <1>3 DEF pegVars, vars, chain, mainchain, PegInv, PegShape, PegTypeOK, Ranges, Held,
     Calling, Point, Shape
<1> QED BY <1>2, <1>3

(* The invariant of the books holds at every step.                        *)
THEOREM PegInvariant == PegSpec => []PegInv
  BY InitPeg, NextPeg, PTL DEF PegSpec

(***************************************************************************)
(* The queue inside the peg behaves as the queue on its own was modelled: *)
(* every behaviour of the composition is one of WithdrawalRequestQueue.   *)
(***************************************************************************)
THEOREM PegImplementsQueue == PegSpec => Spec
<1>1. PegInit => Init
  BY DEF PegInit
<1>2. PegInv /\ [PegNext]_pegVars => [Next]_vars
  BY QueueStep DEF PegInv
<1> QED BY <1>1, <1>2, PegInvariant, PTL DEF PegSpec, Spec

(***************************************************************************)
(* So no request is refunded twice whatever the mainchain decides, and    *)
(* whichever deposits were credited in between.                           *)
(***************************************************************************)
THEOREM PegRefundsAreSingle == PegSpec => []RefundedOnce
  BY PegImplementsQueue, RefundsAreSingle, PTL

(***************************************************************************)
(* Type correctness of the books: no balance goes below zero.             *)
(***************************************************************************)
THEOREM PegTypeCorrect == PegSpec => []PegTypeOK
  BY PegInvariant, PTL DEF PegInv, PegShape

(***************************************************************************)
(* The two system calls create and destroy no coin, whatever is rejected, *)
(* undone or abandoned.                                                   *)
(***************************************************************************)
THEOREM SupplyIsFixed == PegSpec => []SupplyFixed
<1>1. PegInv => SupplyFixed
  BY DEF PegInv, Held, SupplyFixed
<1> QED BY <1>1, PegInvariant, PTL

-----------------------------------------------------------------------------
(***************************************************************************)
(* Why the treasury covers what the sidechain owes: first what Peg knows  *)
(* of the M6s (each is decided once, belongs to the requests that carry   *)
(* it, and is assigned by the block it was broadcast for), then the sums. *)
(***************************************************************************)
USE QueueAssumption, UpdateAssumption, PegAssumption

Decision == [m6id : broadcast, status : {"Succeeded", "Failed"}]

LEMMA OutcomesType ==
    ASSUME PegShape
    PROVE  /\ Len(outcomes) \in Nat /\ DOMAIN outcomes = 1 .. Len(outcomes)
           /\ \A k \in DOMAIN outcomes : outcomes[k] \in Decision
<1>1. outcomes \in Seq(Decision)
  BY DEF PegShape, PegTypeOK, Decision
<1>2. DOMAIN outcomes = 1 .. Len(outcomes)
  BY <1>1
<1> QED BY <1>1, <1>2, SeqElements

-----------------------------------------------------------------------------
(***************************************************************************)
(* Invariant, first part: an M6 is decided once, so that the refund loop  *)
(* finds each request of its list Bundled.                                *)
(***************************************************************************)
DecidedOnce ==
    \A k, l \in DOMAIN outcomes : outcomes[k].m6id = outcomes[l].m6id => k = l

OneByOne ==
    /\ PegInv /\ BundleInv
    /\ DecidedOnce
    /\ RefundsGoThrough
    /\ \A a, b \in todo : a[2] = b[2] => a = b

(* A job of the call stands for one decision of the mainchain.            *)
LEMMA JobDecision ==
    ASSUME PegShape, Uniform(parent, {}),
           NEW status, NEW job \in Resolved(parent, RangeOutcomes, status)
    PROVE  /\ job[1] \in Nat /\ job = <<job[1], job[2]>>
           /\ job[2] \in Queued(parent)
           /\ parent.requests[job[2]].status = "Bundled"
           /\ anchor.outcomes + job[1] \in DOMAIN outcomes
           /\ outcomes[anchor.outcomes + job[1]].m6id = parent.requests[job[2]].bundleM6id
           /\ outcomes[anchor.outcomes + job[1]].status = status
<1> DEFINE k == anchor.outcomes + job[1]
           n == upTo.outcomes - anchor.outcomes
           request == parent.requests[job[2]]
<1>1. /\ anchor.outcomes \in Nat /\ upTo.outcomes \in Nat /\ Len(outcomes) \in Nat
      /\ upTo.outcomes <= Len(outcomes)
      /\ DOMAIN outcomes = 1 .. Len(outcomes)
  BY OutcomesType DEF PegShape, PegTypeOK, Point, Ranges
<1>2. /\ job \in (1 .. n) \X Queued(parent)
      /\ RangeOutcomes[job[1]].status = status
      /\ request.status = "Bundled" /\ request.bundleM6id = RangeOutcomes[job[1]].m6id
  <2>1. DOMAIN RangeOutcomes = 1 .. n
    BY DEF RangeOutcomes
  <2> QED BY <2>1 DEF Resolved, Matching
<1>3. job[1] \in 1 .. n /\ job[2] \in Queued(parent) /\ job = <<job[1], job[2]>>
  BY <1>2
<1>4. k \in DOMAIN outcomes /\ job[1] \in Nat
  <2>1. \A j \in 1 .. n : j \in Nat /\ anchor.outcomes + j \in 1 .. Len(outcomes)
    BY <1>1
  <2> HIDE DEF n
  <2> QED BY <1>1, <1>3, <2>1
<1>5. outcomes[k] \in Decision
  BY <1>4, OutcomesType
<1>6. RangeOutcomes[job[1]] = Known(outcomes[k])
  BY <1>3 DEF RangeOutcomes
<1> HIDE DEF k, n
<1>7. outcomes[k].status = status
  BY <1>2, <1>5, <1>6 DEF Known, Decision
<1>8. outcomes[k].m6id = request.bundleM6id
  <2>1. CASE outcomes[k].m6id \in KnownM6ids
    BY <1>2, <1>6, <2>1 DEF Known
  <2>2. CASE outcomes[k].m6id \notin KnownM6ids
    <3>1. request.bundleM6id = NoBundle
      BY <1>2, <1>5, <1>6, <2>2 DEF Known, Decision
    <3>2. job[2] \in request.bundleM6id.indices
      BY <1>2, <1>3 DEF Uniform, InBundle
    <3> QED BY <3>1, <3>2 DEF NoBundle
  <2> QED BY <2>1, <2>2
<1> QED BY <1>2, <1>3, <1>4, <1>7, <1>8 DEF k

LEMMA ResolvedOnce ==
    ASSUME PegShape, Uniform(parent, {}), DecidedOnce,
           NEW s, NEW a \in Resolved(parent, RangeOutcomes, s),
           NEW t, NEW b \in Resolved(parent, RangeOutcomes, t), a[2] = b[2]
    PROVE  a = b /\ s = t
<1> DEFINE k == anchor.outcomes + a[1]
           l == anchor.outcomes + b[1]
<1>1. /\ a[1] \in Nat /\ a = <<a[1], a[2]>> /\ b[1] \in Nat /\ b = <<b[1], b[2]>>
      /\ k \in DOMAIN outcomes /\ l \in DOMAIN outcomes
      /\ outcomes[k].m6id = outcomes[l].m6id
      /\ outcomes[k].status = s /\ outcomes[l].status = t
  BY JobDecision
<1>2. k = l
  <2> HIDE DEF k, l
  <2> QED BY <1>1 DEF DecidedOnce
<1>3. anchor.outcomes \in Nat
  BY DEF PegShape, PegTypeOK, Point
<1>4. a[1] = b[1]
  BY <1>1, <1>2, <1>3
<1> QED BY <1>1, <1>2, <1>4

(* The block's bundle is of requests that are Pending in its parent state. *)
LEMMA NewBundlePending ==
    ASSUME Shape
    PROVE  /\ NewBundle \in SUBSET Index
           /\ \A i \in NewBundle : i \in Queued(parent) /\ parent.requests[i].status = "Pending"
  BY NewBundleType DEF NewBundle, Oldest, PendingIn

(***************************************************************************)
(* What the call finds and leaves, when it is made: no require of loops 1 *)
(* and 2 fails.                                                           *)
(***************************************************************************)
LEMMA ReportAccepted ==
    ASSUME OneByOne, ReportRange
    PROVE  /\ UNCHANGED <<mainchain, broadcast, anchor, upTo, cursor, bank, parentBank>>
           /\ UNCHANGED <<parent, height>>
           /\ bankBeforeCall' = bank
           /\ phase = "deposits" /\ todo = {} /\ Appended(parent, queue)
           /\ \/ NewBundle = {} /\ UNCHANGED <<queue, beforeCall, todo>> /\ phase' = "txs"
              \/ Reported(NewBundle, RangeOutcomes)
<1> DEFINE m6id      == NewM6id(NewBundle, height)
           succeeded == Resolved(parent, RangeOutcomes, "Succeeded")
           failed    == Resolved(parent, RangeOutcomes, "Failed")
           marked    == MarkBundled(queue.requests, NewBundle, m6id)
<1>1. Shape /\ PegShape
  BY DEF OneByOne, PegInv, PegShape
<1>2. ReportLifecycle(NewBundle, RangeOutcomes)
  BY DEF ReportRange
<1>3. PICK n \in Nat : RangeOutcomes \in [1 .. n -> Outcome]
  BY <1>1, RangeOutcomesType
<1>4. /\ phase = "deposits" /\ UNCHANGED <<parent, height>>
      /\ \/ UNCHANGED <<queue, beforeCall, todo>> /\ phase' = "txs"
         \/ Reported(NewBundle, RangeOutcomes)
  BY <1>1, <1>2, <1>3, NewBundlePending, ReportEffect
<1>5. todo = {} /\ Appended(parent, queue) /\ Uniform(parent, {})
  BY <1>4 DEF OneByOne, BundleInv, Calling
<1>6. /\ queue \in QueueState /\ Queued(parent) \subseteq Index
  <2>1. queue \in QueueState /\ parent \in QueueState
    BY <1>1 DEF Shape, TypeOK
  <2> QED BY <2>1, SatsType
<1>7. AllPending(queue.requests, NewBundle)
  BY <1>1, <1>5, NewBundlePending DEF AllPending, Appended
<1>8. AllBundled(marked, succeeded)
  <2>1. ASSUME NEW job \in succeeded
        PROVE  marked[job[2]].status = "Bundled"
    <3>1. job[2] \in Queued(parent) /\ parent.requests[job[2]].status = "Bundled"
      BY <1>1, <1>5, JobDecision
    <3>2. queue.requests[job[2]].status = "Bundled" /\ job[2] \in Index
      BY <1>5, <1>6, <3>1 DEF Appended
    <3>3. job[2] \notin NewBundle
      BY <1>1, <3>1, NewBundlePending
    <3> HIDE DEF m6id
    <3> QED BY <1>6, <3>2, <3>3 DEF MarkBundled
  <2>2. \A a, b \in succeeded : a[2] = b[2] => a = b
    BY <1>1, <1>5, ResolvedOnce DEF OneByOne
  <2> HIDE DEF marked, succeeded
  <2> QED BY <2>1, <2>2 DEF AllBundled
<1>9. CASE UNCHANGED <<queue, beforeCall, todo>> /\ phase' = "txs"
  <2>1. NewBundle = {} \/ phase' = "refunds"
    <3> HIDE DEF m6id, succeeded, failed, marked
    <3>1. ~(NewBundle = {} /\ succeeded = {} /\ failed = {}) => phase' = "refunds"
      BY <1>2, <1>7, <1>8 DEF ReportLifecycle, m6id, succeeded, failed, marked
    <3> QED BY <3>1
  <2> QED BY <1>4, <1>5, <1>9, <2>1 DEF ReportRange
<1> QED BY <1>4, <1>5, <1>9 DEF ReportRange

LEMMA OutcomesGrow ==
    ASSUME PegShape, NEW m6id, NEW status, MineOutcome(m6id, status)
    PROVE  /\ UNCHANGED <<vars, deposits, broadcast, anchor, upTo, cursor>>
           /\ UNCHANGED <<bank, parentBank, bankBeforeCall>>
           /\ DOMAIN outcomes' = DOMAIN outcomes \cup {Len(outcomes) + 1}
           /\ Len(outcomes) + 1 \notin DOMAIN outcomes
           /\ \A k \in DOMAIN outcomes : outcomes'[k] = outcomes[k]
           /\ outcomes'[Len(outcomes) + 1] = [m6id |-> m6id, status |-> status]
           /\ \A k \in DOMAIN outcomes : outcomes[k].m6id # m6id
           /\ status = "Succeeded" => M6Sats(m6id) <= Treasury
<1>1. outcomes \in Seq(Decision)
  BY DEF PegShape, PegTypeOK, Decision
<1>2. outcomes' = Append(outcomes, [m6id |-> m6id, status |-> status])
  BY DEF MineOutcome
<1>3. /\ DOMAIN outcomes = 1 .. Len(outcomes) /\ Len(outcomes) \in Nat
      /\ DOMAIN outcomes' = 1 .. Len(outcomes) + 1
      /\ \A k \in 1 .. Len(outcomes) : outcomes'[k] = outcomes[k]
      /\ outcomes'[Len(outcomes) + 1] = [m6id |-> m6id, status |-> status]
  BY <1>1, <1>2
<1> QED BY <1>3 DEF MineOutcome

(* The steps that move no request and decide no M6.                       *)
PegControl ==
    \/ BuildBlock \/ CreditDeposit \/ RejectDeposit \/ DepositCallHalts
    \/ LifecycleCallHalts \/ LifecycleCallGoesOn \/ Seal \/ Abandon

LEMMA PegNextCases ==
    ASSUME PegNext
    PROVE  \/ \E sats \in DepositSats : MineDeposit(sats)
           \/ \E m6id \in broadcast, status \in {"Succeeded", "Failed"} : MineOutcome(m6id, status)
           \/ \E msgValue \in MsgValue, mainFeeSats \in MainFeeSats :
                 UserRequests(msgValue, mainFeeSats)
           \/ ReportRange
           \/ \E job \in todo : Refund(job)
           \/ PegControl
  BY DEF PegNext, PegControl

LEMMA InitOneByOne == PegInit => OneByOne
  BY InitPeg, InitBundle DEF PegInit, Init, OneByOne, DecidedOnce, RefundsGoThrough

LEMMA NextOneByOne == OneByOne /\ [PegNext]_pegVars => OneByOne'
<1> SUFFICES ASSUME OneByOne, [PegNext]_pegVars PROVE OneByOne'
  OBVIOUS
<1>1. /\ PegInv' /\ BundleInv' /\ PegShape /\ Shape
      /\ queue \in QueueState /\ \A job \in todo : job[2] \in Index
  BY NextPeg, NextBundle, QueueStep DEF OneByOne, PegInv, PegShape, Shape, TypeOK
<1>2. CASE \E sats \in DepositSats : MineDeposit(sats)
  BY <1>1, <1>2 DEF MineDeposit, vars, OneByOne, DecidedOnce, RefundsGoThrough, StillBundled
<1>3. CASE \E m6id \in broadcast, status \in {"Succeeded", "Failed"} : MineOutcome(m6id, status)
  <2>1. DecidedOnce'
    <3> DEFINE last == Len(outcomes) + 1
    <3>1. PICK m6id \in broadcast, status \in {"Succeeded", "Failed"} :
             MineOutcome(m6id, status)
      BY <1>3
    <3>2. /\ DOMAIN outcomes' = DOMAIN outcomes \cup {last}
          /\ \A k \in DOMAIN outcomes : outcomes'[k] = outcomes[k]
          /\ outcomes'[last] = [m6id |-> m6id, status |-> status]
          /\ \A k \in DOMAIN outcomes : outcomes[k].m6id # m6id
      BY <1>1, <3>1, OutcomesGrow
    <3> HIDE DEF last
    <3>3. outcomes'[last].m6id = m6id
      BY <3>2
    <3> QED BY <3>2, <3>3 DEF OneByOne, DecidedOnce
  <2> QED BY <1>1, <1>3, <2>1 DEF MineOutcome, vars, OneByOne, RefundsGoThrough, StillBundled
<1>4. CASE \E msgValue \in MsgValue, mainFeeSats \in MainFeeSats :
              UserRequests(msgValue, mainFeeSats)
  <2>1. /\ queue.requestCount \in Index
        /\ \A i \in Index \ {queue.requestCount} : queue'.requests[i] = queue.requests[i]
        /\ UNCHANGED <<todo, outcomes>>
    BY <1>1, <1>4, RequestEffect DEF UserRequests, mainchain
  <2>2. queue.requests[queue.requestCount].status = "Pending"
    BY <1>1, <2>1 DEF OneByOne, BundleInv, RefundInv, PaidBack, Index
  <2> QED BY <1>1, <2>1, <2>2 DEF OneByOne, DecidedOnce, RefundsGoThrough, StillBundled
<1>5. CASE ReportRange
  <2>1. UNCHANGED outcomes /\ todo = {} /\ Appended(parent, queue) /\ Uniform(parent, {})
    BY <1>5, ReportAccepted DEF OneByOne, BundleInv, mainchain
  <2>2. CASE todo' = todo
    BY <1>1, <2>1, <2>2 DEF OneByOne, DecidedOnce, RefundsGoThrough
  <2>3. CASE Reported(NewBundle, RangeOutcomes)
    <3>1. todo' = Resolved(parent, RangeOutcomes, "Failed")
      BY <2>3 DEF Reported
    <3>2. \A a, b \in todo' : a[2] = b[2] => a = b
      BY <1>1, <2>1, <3>1, ResolvedOnce DEF OneByOne
    <3>3. ASSUME NEW job \in todo'
          PROVE  queue'.requests[job[2]].status = "Bundled"
      <4>1. job[2] \in Queued(parent) /\ parent.requests[job[2]].status = "Bundled"
        BY <1>1, <2>1, <3>1, JobDecision
      <4>2. queue.requests[job[2]].status = "Bundled" /\ job[2] \in Index
        BY <1>1, <2>1, <3>1, <4>1 DEF Appended, Shape, TypeOK, OneByOne, BundleInv, RefundInv, PegInv
      <4>3. ~ \E other \in Resolved(parent, RangeOutcomes, "Succeeded") : other[2] = job[2]
        BY <1>1, <2>1, <3>1, ResolvedOnce DEF OneByOne
      <4> QED BY <2>3, <4>2, <4>3 DEF Reported
    <3> QED BY <1>1, <2>1, <3>2, <3>3 DEF OneByOne, DecidedOnce, RefundsGoThrough, StillBundled
  <2> QED BY <1>5, <2>2, <2>3, ReportAccepted
<1>6. CASE \E job \in todo : Refund(job)
  <2>1. PICK job \in todo : RefundAccepted(job) \/ RefundRejected(job)
    BY <1>6 DEF Refund
  <2>2. /\ todo' = todo \ {job}
        /\ \A i \in Index : queue'.requests[i].status = IF i = job[2] THEN "Refunded"
                                                        ELSE queue.requests[i].status
    BY <1>1, <2>1, RefundEffect
  <2>3. UNCHANGED outcomes
    BY <1>6 DEF Refund, mainchain
  <2>4. \A other \in todo' : other \in todo /\ other[2] # job[2] /\ other[2] \in Index
    BY <1>1, <2>2 DEF OneByOne
  <2>5. RefundsGoThrough'
    BY <2>2, <2>4 DEF OneByOne, RefundsGoThrough, StillBundled
  <2> QED BY <1>1, <2>3, <2>4, <2>5 DEF OneByOne, DecidedOnce
<1>7. CASE PegControl
  <2>1. UNCHANGED outcomes
    BY <1>7 DEF PegControl, BuildBlock, CreditDeposit, RejectDeposit, DepositCallHalts,
       LifecycleCallHalts, LifecycleCallGoesOn, Seal, Abandon, mainchain
  <2>2. CASE BuildBlock \/ CreditDeposit \/ RejectDeposit \/ LifecycleCallGoesOn \/ Seal
    <3>1. UNCHANGED <<queue, todo>>
      BY <2>2 DEF BuildBlock, CreditDeposit, RejectDeposit, LifecycleCallGoesOn, Seal, vars,
         StartBlock, CalleeReturns, LifecycleReturns, SealBlock
    <3> QED BY <1>1, <2>1, <3>1 DEF OneByOne, DecidedOnce, RefundsGoThrough, StillBundled
  <2>3. CASE DepositCallHalts \/ LifecycleCallHalts \/ Abandon
    <3>1. todo' = {}
      BY <2>3 DEF DepositCallHalts, DepositsHalt, LifecycleCallHalts, LifecycleHalts, Abandon,
         AbandonBlock, OneByOne, BundleInv, Calling
    <3> QED BY <1>1, <2>1, <3>1 DEF OneByOne, DecidedOnce, RefundsGoThrough
  <2> QED BY <1>7, <2>2, <2>3 DEF PegControl
<1>8. CASE UNCHANGED pegVars
  BY <1>1, <1>8 DEF pegVars, vars, mainchain, OneByOne, DecidedOnce, RefundsGoThrough, StillBundled
<1> QED BY <1>2, <1>3, <1>4, <1>5, <1>6, <1>7, <1>8, PegNextCases

(* The first part of the invariant holds at every step.                   *)
THEOREM OneByOneInvariant == PegSpec => []OneByOne
  BY InitOneByOne, NextOneByOne, PTL DEF PegSpec

(***************************************************************************)
(* Because the mainchain decides an M6 once, the require of the refund    *)
(* loop holds whenever the loop reaches it: a repeated or late decision   *)
(* never undoes a lifecycle call.                                         *)
(***************************************************************************)
THEOREM RefundLoopNeverReverts == PegSpec => []RefundsGoThrough
  BY OneByOneInvariant, PTL DEF OneByOne

-----------------------------------------------------------------------------
(***************************************************************************)
(* Invariant, second part: whose each M6 is.  A block assigns the oldest  *)
(* Pending requests of its parent state under an m6id that is fixed by    *)
(* that state, also when the block is abandoned and built again.  So an   *)
(* M6 the enforcer has is carried by all its requests, or it is the one   *)
(* the block in progress assigns; and a request is settled only by the    *)
(* decision on the M6 it carries.                                         *)
(***************************************************************************)
NextHeight == IF phase = "sealed" THEN height + 1 ELSE height
NextM6id == NewM6id(NewBundle, NextHeight)

Belongs(m6id, p, next) ==
    \A i \in m6id.indices :
        /\ i \in Queued(p)
        /\ m6id = IF InBundle(p, i) THEN p.requests[i].bundleM6id ELSE next

(* q is a state of the queue in a block on top of p that assigns next.    *)
Continues(q, p, next) ==
    \A i \in Queued(q) :
        IF InBundle(p, i)
        THEN InBundle(q, i) /\ q.requests[i].bundleM6id = p.requests[i].bundleM6id
        ELSE InBundle(q, i) => i \in next.indices /\ q.requests[i].bundleM6id = next

Decided(decisions, m6id, status) ==
    \E k \in DOMAIN decisions : decisions[k].m6id = m6id /\ decisions[k].status = status

Justified(q, decisions) ==
    \A i \in Queued(q) :
        /\ q.requests[i].status = "Confirmed" =>
              Decided(decisions, q.requests[i].bundleM6id, "Succeeded")
        /\ q.requests[i].status = "Refunded" =>
              Decided(decisions, q.requests[i].bundleM6id, "Failed")

M6Inv ==
    /\ OneByOne
    /\ cursor <= upTo.deposits
    /\ \A m6id \in broadcast : Belongs(m6id, parent, NextM6id)
    /\ Continues(queue, parent, NextM6id)
    /\ Justified(queue, outcomes) /\ Justified(parent, outcomes)
    /\ Calling => /\ Continues(beforeCall, parent, NextM6id)
                  /\ Justified(beforeCall, outcomes)
                  /\ \A i \in NewBundle : /\ queue.requests[i].status = "Bundled"
                                          /\ beforeCall.requests[i].status = "Pending"
    /\ phase = "txs" => \A i \in NewBundle : InBundle(queue, i)
    /\ \A job \in todo : /\ InBundle(parent, job[2])
                         /\ Decided(outcomes, queue.requests[job[2]].bundleM6id, "Failed")

LEMMA NextM6idIndices == NextM6id.indices = NewBundle
  BY DEF NextM6id, NewM6id

LEMMA SameNext ==
    ASSUME UNCHANGED parent, NextHeight' = NextHeight
    PROVE  UNCHANGED <<NewBundle, NextM6id>>
<1>1. NewBundle' = NewBundle
  BY DEF NewBundle, Oldest, PendingIn, Queued
<1> QED BY <1>1 DEF NextM6id, NewM6id

(* What is known of the types in a step that keeps the parts above.       *)
LEMMA M6Types ==
    ASSUME M6Inv
    PROVE  /\ Shape /\ PegShape
           /\ queue \in QueueState /\ parent \in QueueState /\ beforeCall \in QueueState
           /\ height \in Nat /\ cursor \in Nat /\ anchor \in Point /\ upTo \in Point
           /\ Queued(queue) \subseteq Index /\ Queued(parent) \subseteq Queued(queue)
           /\ parent.requestCount \in Nat /\ queue.requestCount \in Nat
           /\ Calling => Queued(parent) \subseteq Queued(beforeCall)
           /\ \A i \in Index : InBundle(parent, i) => i \in Queued(parent)
           /\ \A i \in NewBundle : i \in Queued(parent) /\ ~InBundle(parent, i)
           /\ \A job \in todo : job[2] \in Index
<1>1. /\ Shape /\ PegShape /\ RefundInv
      /\ queue \in QueueState /\ parent \in QueueState /\ beforeCall \in QueueState
      /\ height \in Nat /\ cursor \in Nat /\ anchor \in Point /\ upTo \in Point
      /\ \A job \in todo : job[2] \in Index
  BY DEF M6Inv, OneByOne, PegInv, BundleInv, PegShape, PegTypeOK, Shape, TypeOK
<1>2. /\ parent.requestCount \in Nat /\ queue.requestCount \in Nat /\ beforeCall.requestCount \in Nat
      /\ parent.requestCount <= queue.requestCount
      /\ Calling => parent.requestCount <= beforeCall.requestCount
  BY <1>1 DEF QueueState, RefundInv
<1>3. /\ Queued(parent) \subseteq Queued(queue)
      /\ Calling => Queued(parent) \subseteq Queued(beforeCall)
      /\ \A i \in Index : i \in Queued(parent) \/ i >= parent.requestCount
  BY <1>2 DEF Queued, Index
<1>4. \A i \in Index : InBundle(parent, i) => i \in Queued(parent)
  BY <1>1, <1>3 DEF RefundInv, PaidBack, InBundle
<1>5. \A i \in NewBundle : i \in Queued(parent) /\ ~InBundle(parent, i)
  BY <1>1, NewBundlePending DEF InBundle
<1>6. Queued(queue) \subseteq Index
  BY <1>1, SatsType
<1> QED BY <1>1, <1>2, <1>3, <1>4, <1>5, <1>6

LEMMA InitM6 == PegInit => M6Inv
<1> SUFFICES ASSUME PegInit PROVE M6Inv
  OBVIOUS
<1>1. OneByOne
  BY InitOneByOne
<1>2. /\ Queued(queue) = {} /\ parent = queue /\ broadcast = {} /\ todo = {}
      /\ phase = "sealed" /\ cursor = 0 /\ upTo.deposits = 0
  BY DEF PegInit, Init, Queued, Genesis
<1> QED BY <1>1, <1>2 DEF M6Inv, Continues, Justified, Calling

LEMMA MainchainM6 ==
    ASSUME M6Inv, OneByOne',
           \/ \E sats \in DepositSats : MineDeposit(sats)
           \/ \E m6id \in broadcast, status \in {"Succeeded", "Failed"} :
                 MineOutcome(m6id, status)
    PROVE  M6Inv'
<1>1. UNCHANGED <<queue, parent, height, phase, beforeCall, todo, broadcast, upTo, cursor>>
  BY DEF MineDeposit, MineOutcome, vars, chain
<1>2. UNCHANGED <<NewBundle, NextM6id>>
  BY <1>1, SameNext DEF NextHeight
<1>3. \A m6id, status : Decided(outcomes, m6id, status) => Decided(outcomes', m6id, status)
  <2>1. CASE outcomes' = outcomes
    BY <2>1
  <2>2. CASE \E m6id \in broadcast, status \in {"Succeeded", "Failed"} : MineOutcome(m6id, status)
    <3>1. PICK m6id \in broadcast, status \in {"Succeeded", "Failed"} : MineOutcome(m6id, status)
      BY <2>2
    <3>2. /\ DOMAIN outcomes \subseteq DOMAIN outcomes'
          /\ \A k \in DOMAIN outcomes : outcomes'[k] = outcomes[k]
      BY <3>1, M6Types, OutcomesGrow
    <3> QED BY <3>2 DEF Decided
  <2> QED BY <2>1, <2>2 DEF MineDeposit
<1>4. \A q : Justified(q, outcomes) => Justified(q, outcomes')
  BY <1>3 DEF Justified
<1> QED BY <1>1, <1>2, <1>3, <1>4 DEF M6Inv, Calling, InBundle

LEMMA RequestM6 ==
    ASSUME M6Inv, OneByOne', NEW msgValue \in MsgValue, NEW mainFeeSats \in MainFeeSats,
           UserRequests(msgValue, mainFeeSats)
    PROVE  M6Inv'
<1> DEFINE new == queue.requestCount
<1>1. /\ queue'.requestCount = new + 1 /\ new \in Index
      /\ queue'.requests[new].status = "Pending"
      /\ \A i \in Index \ {new} : queue'.requests[i] = queue.requests[i]
      /\ UNCHANGED <<parent, height, phase, beforeCall, todo>>
  BY M6Types, RequestEffect DEF UserRequests
<1>2. UNCHANGED <<outcomes, broadcast, upTo, cursor>>
  BY DEF UserRequests, mainchain
<1>3. UNCHANGED <<NewBundle, NextM6id>>
  BY <1>1, SameNext DEF NextHeight
<1>4. queue.requests[new].status = "Pending"
  BY <1>1 DEF M6Inv, OneByOne, BundleInv, RefundInv, PaidBack, Index
<1>5. /\ Queued(queue') = Queued(queue) \cup {new}
      /\ new \notin Queued(queue) /\ Queued(queue) \subseteq Index
  BY <1>1, M6Types DEF Queued
<1>6. ~InBundle(parent, new)
  BY <1>1, <1>5, M6Types
<1> HIDE DEF new
<1>7. Continues(queue', parent, NextM6id)
  BY <1>1, <1>5, <1>6 DEF M6Inv, Continues, InBundle
<1>8. Justified(queue', outcomes)
  BY <1>1, <1>5 DEF M6Inv, Justified
<1>9. \A i \in Index : InBundle(queue, i) => queue'.requests[i] = queue.requests[i]
  BY <1>1, <1>4 DEF InBundle
<1>10. \A job \in todo : queue'.requests[job[2]] = queue.requests[job[2]]
  BY <1>9, M6Types DEF M6Inv, OneByOne, RefundsGoThrough, StillBundled, InBundle
<1>11. NewBundle \subseteq Index
  BY M6Types
<1> QED BY <1>1, <1>2, <1>3, <1>7, <1>8, <1>9, <1>10, <1>11 DEF M6Inv, Calling, InBundle

LEMMA ReportM6 ==
    ASSUME M6Inv, OneByOne', ReportRange
    PROVE  M6Inv'
<1>1. /\ UNCHANGED <<outcomes, broadcast, upTo, cursor, parent, height>>
      /\ phase = "deposits" /\ todo = {} /\ Appended(parent, queue)
  BY ReportAccepted DEF M6Inv, mainchain
<1>2. CASE NewBundle = {} /\ UNCHANGED <<queue, beforeCall, todo>> /\ phase' = "txs"
  <2>1. UNCHANGED <<NewBundle, NextM6id>>
    BY <1>1, <1>2, SameNext DEF NextHeight
  <2> QED BY <1>1, <1>2, <2>1 DEF M6Inv, Calling
<1>3. CASE Reported(NewBundle, RangeOutcomes)
  <2> DEFINE succeeded == Resolved(parent, RangeOutcomes, "Succeeded")
             failed    == Resolved(parent, RangeOutcomes, "Failed")
             settles(jobs, i) == \E job \in jobs : job[2] = i
  <2>1. /\ phase' = "refunds" /\ beforeCall' = queue /\ todo' = failed
        /\ queue'.requestCount = queue.requestCount
        /\ \A i \in Index :
              /\ queue'.requests[i].bundleM6id =
                    IF i \in NewBundle THEN NewM6id(NewBundle, height)
                    ELSE queue.requests[i].bundleM6id
              /\ queue'.requests[i].status =
                    IF settles(succeeded, i) THEN "Confirmed"
                    ELSE IF i \in NewBundle THEN "Bundled"
                    ELSE queue.requests[i].status
    BY <1>3 DEF Reported
  <2>2. UNCHANGED <<NewBundle, NextM6id>> /\ NextM6id = NewM6id(NewBundle, height)
    BY <1>1, <2>1, SameNext DEF NextHeight, NextM6id
  <2>3. \A job \in succeeded \cup failed :
           /\ job[2] \in Queued(parent) /\ InBundle(parent, job[2])
           /\ job[2] \notin NewBundle /\ job[2] \in Index
           /\ queue.requests[job[2]] = parent.requests[job[2]]
    BY <1>1, M6Types, JobDecision DEF M6Inv, OneByOne, BundleInv, InBundle, Appended
  <2>4. /\ \A job \in succeeded :
              Decided(outcomes, queue.requests[job[2]].bundleM6id, "Succeeded")
        /\ \A job \in failed :
              Decided(outcomes, queue.requests[job[2]].bundleM6id, "Failed")
    BY <2>3, M6Types, JobDecision DEF M6Inv, OneByOne, BundleInv, Decided
  <2>5. Queued(queue') = Queued(queue)
    BY <2>1 DEF Queued
  <2>6. /\ \A i \in Queued(parent) : queue.requests[i] = parent.requests[i]
        /\ \A i \in Index : InBundle(queue, i) => i \in Queued(parent) /\ InBundle(parent, i)
    <3>1. \A i \in Index : i \in Queued(parent) \/ i >= parent.requestCount
      BY M6Types DEF Queued, Index
    <3> QED BY <1>1, <3>1 DEF Appended, InBundle
  <2> HIDE DEF succeeded, failed
  <2>7. Continues(queue', parent, NextM6id)
    <3> SUFFICES ASSUME NEW i \in Queued(queue)
                 PROVE  IF InBundle(parent, i)
                        THEN /\ InBundle(queue', i)
                             /\ queue'.requests[i].bundleM6id = parent.requests[i].bundleM6id
                        ELSE InBundle(queue', i) =>
                                /\ i \in NextM6id.indices
                                /\ queue'.requests[i].bundleM6id = NextM6id
      BY <2>5 DEF Continues
    <3>1. i \in Index
      BY M6Types
    <3>2. CASE InBundle(parent, i)
      <4>1. i \in Queued(parent) /\ i \notin NewBundle /\ queue.requests[i] = parent.requests[i]
        BY <2>6, <3>1, <3>2, M6Types
      <4> QED BY <2>1, <3>1, <3>2, <4>1 DEF InBundle
    <3>3. CASE ~InBundle(parent, i)
      <4>1. ~settles(succeeded, i) /\ queue.requests[i].status = "Pending"
        BY <2>3, <2>6, <3>1, <3>3 DEF InBundle
      <4>2. InBundle(queue', i) => i \in NewBundle
        BY <2>1, <3>1, <4>1 DEF InBundle
      <4> QED BY <2>1, <2>2, <3>1, <3>3, <4>2, NextM6idIndices
    <3> QED BY <3>2, <3>3
  <2>8. Justified(queue', outcomes)
    <3> SUFFICES ASSUME NEW i \in Queued(queue)
                 PROVE  /\ queue'.requests[i].status = "Confirmed" =>
                              Decided(outcomes, queue'.requests[i].bundleM6id, "Succeeded")
                        /\ queue'.requests[i].status = "Refunded" =>
                              Decided(outcomes, queue'.requests[i].bundleM6id, "Failed")
      BY <2>5 DEF Justified
    <3>1. i \in Index
      BY M6Types
    <3>2. CASE settles(succeeded, i)
      BY <2>1, <2>3, <2>4, <3>1, <3>2
    <3>3. CASE ~settles(succeeded, i) /\ i \in NewBundle
      BY <2>1, <3>1, <3>3
    <3>4. CASE ~settles(succeeded, i) /\ i \notin NewBundle
      BY <2>1, <3>1, <3>4 DEF M6Inv, Justified
    <3> QED BY <3>2, <3>3, <3>4
  <2>9. \A i \in NewBundle : /\ queue'.requests[i].status = "Bundled"
                             /\ queue.requests[i].status = "Pending"
    <3> SUFFICES ASSUME NEW i \in NewBundle
                 PROVE  /\ queue'.requests[i].status = "Bundled"
                        /\ queue.requests[i].status = "Pending"
      OBVIOUS
    <3>1. i \in Queued(parent) /\ i \in Index /\ ~InBundle(parent, i)
      BY M6Types
    <3>2. ~settles(succeeded, i)
      BY <2>3, <3>1
    <3> QED BY <2>1, <2>6, <3>1, <3>2 DEF InBundle
  <2>10. \A job \in todo' : /\ InBundle(parent, job[2])
                            /\ Decided(outcomes, queue'.requests[job[2]].bundleM6id, "Failed")
    BY <2>1, <2>3, <2>4
  <2> QED BY <1>1, <2>1, <2>2, <2>7, <2>8, <2>9, <2>10 DEF M6Inv
<1> QED BY <1>2, <1>3, ReportAccepted DEF M6Inv

LEMMA RefundM6 ==
    ASSUME M6Inv, OneByOne', NEW job \in todo, Refund(job)
    PROVE  M6Inv'
<1>1. /\ phase = "refunds" /\ phase' \in {"refunds", "callee"} /\ job[2] \in Index
      /\ todo' = todo \ {job} /\ UNCHANGED <<parent, height, beforeCall>>
      /\ queue'.requestCount = queue.requestCount
      /\ queue.requests[job[2]].status = "Bundled"
      /\ \A i \in Index :
            /\ queue'.requests[i].bundleM6id = queue.requests[i].bundleM6id
            /\ queue'.requests[i].status = IF i = job[2] THEN "Refunded"
                                           ELSE queue.requests[i].status
  BY M6Types, RefundEffect DEF Refund
<1>2. UNCHANGED <<outcomes, broadcast, upTo, cursor>>
  BY DEF Refund, mainchain
<1>3. UNCHANGED <<NewBundle, NextM6id>>
  BY <1>1, SameNext DEF NextHeight
<1>4. Queued(queue') = Queued(queue) /\ Queued(queue) \subseteq Index
  BY <1>1, M6Types DEF Queued
<1>5. \A i \in Index : InBundle(queue', i) <=> InBundle(queue, i)
  BY <1>1 DEF InBundle
<1>6. Continues(queue', parent, NextM6id)
  BY <1>1, <1>4, <1>5 DEF M6Inv, Continues
<1>7. Justified(queue', outcomes)
  BY <1>1, <1>4 DEF M6Inv, Justified
<1>8. Calling /\ NewBundle \subseteq Index /\ job[2] \notin NewBundle
  BY <1>1, M6Types DEF M6Inv, Calling
<1>9. \A i \in NewBundle : queue'.requests[i].status = "Bundled"
  BY <1>1, <1>8 DEF M6Inv
<1>10. \A other \in todo' : other \in todo /\ other[2] \in Index
  BY <1>1, M6Types
<1> QED BY <1>1, <1>2, <1>3, <1>6, <1>7, <1>8, <1>9, <1>10 DEF M6Inv, Calling

LEMMA ControlM6 ==
    ASSUME GasSuffices, M6Inv, OneByOne', PegControl
    PROVE  M6Inv'
<1> USE M6Types
<1>1. UNCHANGED outcomes
  BY DEF PegControl, BuildBlock, CreditDeposit, RejectDeposit, DepositCallHalts,
     LifecycleCallHalts, LifecycleCallGoesOn, Seal, Abandon, mainchain
<1>2. CASE BuildBlock
  <2>1. /\ phase = "sealed" /\ phase' = "deposits" /\ height' = height + 1
        /\ UNCHANGED <<queue, parent, todo, cursor>> /\ upTo' = Tip
        /\ broadcast' = broadcast \cup
             (IF NewBundle = {} THEN {} ELSE {NewM6id(NewBundle, height')})
    BY <1>2 DEF BuildBlock, StartBlock
  <2>2. UNCHANGED <<NewBundle, NextM6id>> /\ NextM6id = NewM6id(NewBundle, height')
    BY <2>1, SameNext DEF NextHeight, NextM6id
  <2>3. Belongs(NextM6id, parent, NextM6id)
    BY NextM6idIndices DEF Belongs
  <2>4. cursor' <= upTo'.deposits
    <3>1. /\ cursor \in Nat /\ upTo.deposits \in Nat /\ Len(deposits) \in Nat
          /\ upTo.deposits <= Len(deposits) /\ cursor <= upTo.deposits
      BY DEF PegShape, PegTypeOK, Ranges, Point, M6Inv
    <3> QED BY <2>1, <3>1 DEF Tip
  <2> QED BY <1>1, <2>1, <2>2, <2>3, <2>4 DEF M6Inv, Calling
<1>3. CASE CreditDeposit \/ RejectDeposit
  <2>1. /\ UNCHANGED <<queue, parent, height, phase, beforeCall, todo, broadcast, upTo>>
        /\ cursor' = cursor + 1 /\ cursor < upTo.deposits
    BY <1>3 DEF CreditDeposit, RejectDeposit, AtNextDeposit, vars, chain
  <2>2. UNCHANGED <<NewBundle, NextM6id>>
    BY <2>1, SameNext DEF NextHeight
  <2>3. cursor' <= upTo'.deposits
    BY <2>1 DEF Point
  <2> QED BY <1>1, <2>1, <2>2, <2>3 DEF M6Inv, Calling
<1>4. CASE DepositCallHalts
  <2>1. /\ phase = "deposits" /\ queue' = parent /\ cursor' = upTo.deposits
        /\ UNCHANGED <<parent, height, phase, beforeCall, todo, broadcast, upTo>>
    BY <1>4 DEF DepositCallHalts, DepositsHalt, chain
  <2>2. UNCHANGED <<NewBundle, NextM6id>>
    BY <2>1, SameNext DEF NextHeight
  <2>3. Continues(parent, parent, NextM6id) /\ todo = {}
    BY <2>1 DEF Continues, M6Inv, OneByOne, BundleInv, Calling
  <2>4. cursor' <= upTo'.deposits
    BY <2>1 DEF Point
  <2> QED BY <1>1, <2>1, <2>2, <2>3, <2>4 DEF M6Inv, Calling
<1>5. CASE LifecycleCallHalts
  <2>1. /\ Calling /\ phase' = "txs" /\ queue' = beforeCall /\ todo' = {}
        /\ UNCHANGED <<parent, height, beforeCall, broadcast, upTo, cursor>>
        /\ ~CallBundles
    BY <1>5 DEF LifecycleCallHalts, LifecycleHalts, Calling, chain
  <2>2. UNCHANGED <<NewBundle, NextM6id>>
    BY <2>1, SameNext DEF NextHeight, Calling
  <2>3. NewBundle = {}
    BY <2>1 DEF CallBundles, M6Inv
  <2> QED BY <1>1, <2>1, <2>2, <2>3 DEF M6Inv, Calling
<1>6. CASE LifecycleCallGoesOn
  <2>1. /\ Calling /\ phase' \in {"refunds", "txs"}
        /\ UNCHANGED <<queue, parent, height, beforeCall, todo, broadcast, upTo, cursor>>
    BY <1>6 DEF LifecycleCallGoesOn, CalleeReturns, LifecycleReturns, Calling, chain
  <2>2. UNCHANGED <<NewBundle, NextM6id>>
    BY <2>1, SameNext DEF NextHeight, Calling
  <2> QED BY <1>1, <2>1, <2>2 DEF M6Inv, Calling, InBundle
<1>7. CASE Seal
  <2>1. /\ phase = "txs" /\ phase' = "sealed" /\ parent' = queue
        /\ UNCHANGED <<queue, todo, broadcast, upTo, cursor>>
    BY <1>7 DEF Seal, SealBlock
  <2>2. todo = {}
    BY <2>1 DEF M6Inv, OneByOne, BundleInv, Calling
  <2>3. \A next : Continues(queue, queue, next)
    BY DEF Continues
  <2>4. ASSUME NEW m6id \in broadcast, NEW i \in m6id.indices
        PROVE  /\ i \in Queued(queue) /\ InBundle(queue, i)
               /\ m6id = queue.requests[i].bundleM6id
    <3>1. i \in Queued(parent) /\ i \in Queued(queue)
      BY <2>4 DEF M6Inv, Belongs
    <3>2. CASE InBundle(parent, i)
      BY <2>4, <3>1, <3>2 DEF M6Inv, Belongs, Continues
    <3>3. CASE ~InBundle(parent, i)
      <4>1. m6id = NextM6id /\ i \in NewBundle
        BY <2>4, <3>3, NextM6idIndices DEF M6Inv, Belongs
      <4> QED BY <2>1, <3>1, <3>3, <4>1 DEF M6Inv, Continues
    <3> QED BY <3>2, <3>3
  <2>5. \A next : \A m6id \in broadcast : Belongs(m6id, queue, next)
    BY <2>4 DEF Belongs
  <2> QED BY <1>1, <2>1, <2>2, <2>3, <2>5 DEF M6Inv, Calling
<1>8. CASE Abandon
  <2>1. /\ phase # "sealed" /\ phase' = "sealed" /\ height' = height - 1
        /\ queue' = parent /\ todo' = {}
        /\ UNCHANGED <<parent, beforeCall, broadcast>>
        /\ cursor' = anchor.deposits /\ upTo' = anchor
    BY <1>8 DEF Abandon, AbandonBlock
  <2>2. UNCHANGED <<NewBundle, NextM6id>>
    BY <2>1, SameNext DEF NextHeight
  <2>3. Continues(parent, parent, NextM6id)
    BY DEF Continues
  <2>4. cursor' <= upTo'.deposits
    BY <2>1 DEF Point
  <2> QED BY <1>1, <2>1, <2>2, <2>3, <2>4 DEF M6Inv, Calling
<1> QED BY <1>2, <1>3, <1>4, <1>5, <1>6, <1>7, <1>8 DEF PegControl

LEMMA NextM6 == GasSuffices /\ M6Inv /\ [PegNext]_pegVars => M6Inv'
<1> SUFFICES ASSUME GasSuffices, M6Inv, [PegNext]_pegVars PROVE M6Inv'
  OBVIOUS
<1>1. OneByOne'
  BY NextOneByOne DEF M6Inv
<1>2. CASE PegNext
  BY <1>1, <1>2, PegNextCases, MainchainM6, RequestM6, ReportM6, RefundM6, ControlM6
<1>3. CASE UNCHANGED pegVars
  <2>1. UNCHANGED <<NewBundle, NextM6id>>
    BY <1>3, SameNext DEF pegVars, vars, chain, NextHeight
  <2> QED BY <1>1, <1>3, <2>1 DEF pegVars, vars, chain, mainchain, M6Inv, Calling
<1> QED BY <1>2, <1>3

-----------------------------------------------------------------------------
(***************************************************************************)
(* Invariant, third part: the sums.  Amounts are in satoshis except the   *)
(* users' balance; the treasury has to cover the claims of the state in   *)
(* progress and of the states an undone call or block goes back to.       *)
(***************************************************************************)
OwedOf(q, paid) ==
    {i \in Queued(q) : q.requests[i].status \in {"Pending", "Bundled"} /\ i \notin paid}

OwedSats(q, paid) == SumFunctionOnSet(Sats(q), OwedOf(q, paid))

(* The deposits after the first c.                                        *)
Due(list, c) == SumFunctionOnSet(list, c + 1 .. Len(list))

PaidIn(decisions) == {k \in DOMAIN decisions : decisions[k].status = "Succeeded"}
SatsIn(p, indices) == SumFunctionOnSet(Sats(p), indices)
Payouts(p, decisions) ==
    SumFunctionOnSet([k \in PaidIn(decisions) |-> SatsIn(p, decisions[k].m6id.indices)],
                     PaidIn(decisions))

Covers(treasury, users, owed, due) ==
    users + WeiPerSat * owed + WeiPerSat * due <= WeiPerSat * treasury

SameAmounts(q, p) == \A i \in Queued(p) : Sats(q)[i] = Sats(p)[i]

SolventInv ==
    /\ M6Inv
    /\ SameAmounts(queue, parent)
    /\ Calling => SameAmounts(beforeCall, parent)
    /\ Covers(Treasury, Issued(bank), OwedSats(queue, PaidRequests), Due(deposits, cursor))
    /\ Covers(Treasury, Issued(parentBank), OwedSats(parent, PaidRequests),
              Due(deposits, anchor.deposits))
    /\ Calling => Covers(Treasury, Issued(bankBeforeCall), OwedSats(beforeCall, PaidRequests),
                         Due(deposits, cursor))
    /\ WeiPerSat * Treasury <= Reserve

(* Multiplying by WeiPerSat, for the provers.                             *)
LEMMA InWei ==
    ASSUME NEW a \in Int, NEW b \in Int
    PROVE  /\ WeiPerSat * a \in Int
           /\ WeiPerSat * (a + b) = WeiPerSat * a + WeiPerSat * b
           /\ WeiPerSat * (a - b) = WeiPerSat * a - WeiPerSat * b
           /\ a <= b => WeiPerSat * a <= WeiPerSat * b
           /\ a * WeiPerSat = WeiPerSat * a
  OBVIOUS

LEMMA CoversLess ==
    ASSUME NEW treasury \in Int, NEW users \in Int, NEW owed \in Int, NEW due \in Int,
           NEW less \in Int, NEW sooner \in Int, less <= owed, sooner <= due,
           Covers(treasury, users, owed, due)
    PROVE  Covers(treasury, users, less, sooner)
<1>1. WeiPerSat * less <= WeiPerSat * owed /\ WeiPerSat * sooner <= WeiPerSat * due
  BY InWei
<1>2. /\ WeiPerSat * less \in Int /\ WeiPerSat * owed \in Int
      /\ WeiPerSat * sooner \in Int /\ WeiPerSat * due \in Int /\ WeiPerSat * treasury \in Int
  BY InWei
<1> QED BY <1>1, <1>2 DEF Covers

-----------------------------------------------------------------------------
(* The deposits.                                                          *)

LEMMA DueType ==
    ASSUME NEW list \in Seq(Nat), NEW c \in Nat
    PROVE  /\ IsFiniteSet(c + 1 .. Len(list))
           /\ \A k \in c + 1 .. Len(list) : list[k] \in Nat
           /\ Due(list, c) \in Nat
<1>1. Len(list) \in Nat /\ \A k \in 1 .. Len(list) : list[k] \in Nat
  BY SeqElements
<1>2. IsFiniteSet(c + 1 .. Len(list))
  <2>1. c + 1 \in Int /\ Len(list) \in Int
    BY <1>1
  <2> QED BY <2>1, FS_Interval
<1>3. \A k \in c + 1 .. Len(list) : list[k] \in Nat
  BY <1>1
<1> QED BY <1>2, <1>3, SumNat DEF Due

LEMMA DueLater ==
    ASSUME NEW list \in Seq(Nat), NEW c \in Nat, NEW d \in Nat, c <= d
    PROVE  Due(list, d) <= Due(list, c)
<1>1. Len(list) \in Nat
  OBVIOUS
<1>2. d + 1 .. Len(list) \subseteq c + 1 .. Len(list)
  BY <1>1
<1> QED BY <1>2, DueType, SumSubset DEF Due

LEMMA DueNext ==
    ASSUME NEW list \in Seq(Nat), NEW c \in Nat, c + 1 <= Len(list)
    PROVE  Due(list, c) = list[c + 1] + Due(list, c + 1)
<1> DEFINE rest == c + 1 .. Len(list)
           next == c + 1
<1>1. Len(list) \in Nat
  OBVIOUS
<1>2. next \in rest /\ rest \ {next} = next + 1 .. Len(list)
  BY <1>1
<1>3. IsFiniteSet(rest) /\ \A k \in rest : list[k] \in Nat
  BY DueType
<1> HIDE DEF rest, next
<1>4. SumFunctionOnSet(list, rest) = list[next] + SumFunctionOnSet(list, rest \ {next})
  BY <1>2, <1>3, SumRemove, SMTT(30)
<1> QED BY <1>2, <1>4 DEF Due, rest, next

LEMMA DueAppend ==
    ASSUME NEW list \in Seq(Nat), NEW c \in Nat, c <= Len(list), NEW x \in Nat
    PROVE  Due(Append(list, x), c) = Due(list, c) + x
<1> DEFINE rest == c + 1 .. Len(list)
           last == Len(list) + 1
           longer == Append(list, x)
<1>1. Len(list) \in Nat
  OBVIOUS
<1>2. /\ c + 1 .. Len(longer) = rest \cup {last} /\ last \notin rest
      /\ longer[last] = x /\ longer \in Seq(Nat)
      /\ \A k \in rest : longer[k] = list[k]
  BY <1>1
<1>3. /\ IsFiniteSet(rest) /\ Due(list, c) \in Nat /\ \A k \in rest : list[k] \in Nat
  BY DueType
<1> HIDE DEF rest, last, longer
<1>4. \A k \in rest \cup {last} : longer[k] \in Int
  BY <1>2, <1>3
<1>5. SumFunctionOnSet(longer, rest \cup {last}) = longer[last] + SumFunctionOnSet(longer, rest)
  BY <1>2, <1>3, <1>4, SumAdd
<1>6. SumFunctionOnSet(longer, rest) = SumFunctionOnSet(list, rest)
  BY <1>2, <1>3, SumSame
<1>7. Due(longer, c) = x + Due(list, c)
  BY <1>2, <1>5, <1>6 DEF Due, rest
<1> QED BY <1>3, <1>7 DEF longer

-----------------------------------------------------------------------------
(* The requests.                                                          *)

LEMMA OwedType ==
    ASSUME NEW q \in QueueState, NEW paid
    PROVE  /\ IsFiniteSet(OwedOf(q, paid)) /\ OwedOf(q, paid) \subseteq Queued(q)
           /\ \A i \in OwedOf(q, paid) : Sats(q)[i] \in Nat
           /\ OwedSats(q, paid) \in Nat
<1>1. OwedOf(q, paid) \in SUBSET Queued(q)
  BY DEF OwedOf
<1>2. /\ IsFiniteSet(OwedOf(q, paid))
      /\ \A i \in OwedOf(q, paid) : Sats(q)[i] \in Nat
  BY <1>1, SatsType, FS_Subset
<1> QED BY <1>1, <1>2, SumNat DEF OwedSats

(* A request that is settled is owed no more.                             *)
LEMMA OwedLess ==
    ASSUME NEW q \in QueueState, NEW r \in QueueState, NEW paid,
           OwedOf(r, paid) \subseteq OwedOf(q, paid), Sats(r) = Sats(q)
    PROVE  OwedSats(r, paid) <= OwedSats(q, paid)
<1>1. OwedOf(r, paid) \in SUBSET OwedOf(q, paid)
  OBVIOUS
<1>2. IsFiniteSet(OwedOf(q, paid)) /\ \A i \in OwedOf(q, paid) : Sats(q)[i] \in Nat
  BY OwedType
<1> QED BY <1>1, <1>2, SumSubset DEF OwedSats

(* An M6 that is paid out takes what its requests were owed.              *)
LEMMA OwedAfterPayout ==
    ASSUME NEW q \in QueueState, NEW p \in QueueState, NEW paid, NEW indices,
           indices \subseteq OwedOf(q, paid), \A i \in indices : Sats(q)[i] = Sats(p)[i]
    PROVE  /\ SatsIn(p, indices) \in Nat
           /\ OwedSats(q, paid \cup indices) = OwedSats(q, paid) - SatsIn(p, indices)
<1> DEFINE owed == OwedOf(q, paid)
           rest == owed \ indices
           sats == Sats(q)
<1>1. OwedOf(q, paid \cup indices) = rest
  BY DEF OwedOf
<1>2. IsFiniteSet(owed) /\ indices \in SUBSET owed /\ \A i \in owed : sats[i] \in Nat
  BY OwedType
<1> HIDE DEF owed, sats, rest
<1>3. /\ IsFiniteSet(indices)
      /\ SumFunctionOnSet(sats, owed) = SumFunctionOnSet(sats, indices)
                                          + SumFunctionOnSet(sats, rest)
      /\ SumFunctionOnSet(sats, indices) \in Nat
      /\ SumFunctionOnSet(sats, rest) \in Nat
  <2>1. rest = owed \ indices
    BY DEF rest
  <2>2. IsFiniteSet(owed) /\ indices \in SUBSET owed
    BY <1>2
  <2>3. \A i \in owed : sats[i] \in Nat
    BY <1>2
  <2>4. SumFunctionOnSet(sats, owed) = SumFunctionOnSet(sats, indices)
                                         + SumFunctionOnSet(sats, owed \ indices)
    BY <2>2, <2>3, SumSubset, SMTT(30)
  <2>5. SumFunctionOnSet(sats, indices) \in Nat
    BY <2>2, <2>3, SumSubset
  <2>6. SumFunctionOnSet(sats, owed \ indices) \in Nat
    BY <2>2, <2>3, SumSubset
  <2>7. IsFiniteSet(indices)
    BY <2>2, FS_Subset, Zenon
  <2> QED BY <2>1, <2>4, <2>5, <2>6, <2>7
<1>4. SumFunctionOnSet(sats, indices) = SatsIn(p, indices)
  BY <1>3, SumSame DEF SatsIn, sats
<1>5. /\ OwedSats(q, paid) = SumFunctionOnSet(sats, owed)
      /\ OwedSats(q, paid \cup indices) = SumFunctionOnSet(sats, rest)
  BY <1>1 DEF OwedSats, owed, sats
<1> QED BY <1>3, <1>4, <1>5

-----------------------------------------------------------------------------
(* The treasury.                                                          *)

LEMMA DepositsType ==
    ASSUME PegShape
    PROVE  deposits \in Seq(Nat)
<1>1. deposits \in Seq(DepositSats)
  BY DEF PegShape, PegTypeOK
<1> QED BY <1>1, SeqWidens

LEMMA TreasuryIs ==
    ASSUME PegShape, PegShape'
    PROVE  /\ Treasury = Due(deposits, 0) - Payouts(parent, outcomes)
           /\ Treasury' = Due(deposits', 0) - Payouts(parent', outcomes')
<1>1. DOMAIN deposits = 0 + 1 .. Len(deposits) /\ DOMAIN deposits' = 0 + 1 .. Len(deposits')
  <2>1. deposits \in Seq(DepositSats) /\ deposits' \in Seq(DepositSats)
    BY DEF PegShape, PegTypeOK
  <2> QED BY <2>1
<1>2. /\ SumFunction(deposits) = Due(deposits, 0)
      /\ SumFunction(deposits') = Due(deposits', 0)
  BY <1>1 DEF SumFunction, Due
<1> QED BY <1>2 DEF Treasury, Payouts, PaidOut, PaidIn, M6Sats, SatsIn, SumFunction

(* What an M6 consumes is queued in the parent state.                     *)
LEMMA PaidKnown ==
    ASSUME M6Inv
    PROVE  /\ PaidRequests \subseteq Queued(parent)
           /\ IsFiniteSet(PaidIn(outcomes))
           /\ \A k \in DOMAIN outcomes : /\ outcomes[k].m6id \in broadcast
                                         /\ outcomes[k].m6id.indices \subseteq Queued(parent)
<1>1. PegShape
  BY M6Types
<1>2. /\ DOMAIN outcomes = 1 .. Len(outcomes) /\ Len(outcomes) \in Nat
      /\ \A k \in DOMAIN outcomes : outcomes[k] \in Decision
  BY <1>1, OutcomesType
<1>3. \A k \in DOMAIN outcomes : /\ outcomes[k].m6id \in broadcast
                                 /\ outcomes[k].m6id.indices \subseteq Queued(parent)
  BY <1>2 DEF Decision, M6Inv, Belongs
<1>4. IsFiniteSet(DOMAIN outcomes)
  BY <1>2, FS_Interval
<1>5. PaidIn(outcomes) \in SUBSET DOMAIN outcomes
  BY DEF PaidIn
<1>6. IsFiniteSet(PaidIn(outcomes))
  BY <1>4, <1>5, FS_Subset
<1> QED BY <1>3, <1>6 DEF PaidRequests, PaidOut

LEMMA SatsInType ==
    ASSUME NEW p \in QueueState, NEW indices, indices \subseteq Queued(p)
    PROVE  IsFiniteSet(indices) /\ SatsIn(p, indices) \in Nat
<1>1. /\ IsFiniteSet(Queued(p)) /\ indices \in SUBSET Queued(p)
      /\ \A i \in Queued(p) : Sats(p)[i] \in Nat
  BY SatsType
<1> QED BY <1>1, SumSubset DEF SatsIn

LEMMA PayoutsType ==
    ASSUME M6Inv
    PROVE  Payouts(parent, outcomes) \in Nat /\ Treasury \in Int
<1>1. PegShape /\ parent \in QueueState
  BY M6Types
<1> DEFINE f == [k \in PaidIn(outcomes) |-> SatsIn(parent, outcomes[k].m6id.indices)]
<1>2. \A k \in PaidIn(outcomes) : SatsIn(parent, outcomes[k].m6id.indices) \in Nat
  BY <1>1, PaidKnown, SatsInType DEF PaidIn
<1>3. \A k \in PaidIn(outcomes) : f[k] \in Nat
  BY <1>2
<1> HIDE DEF f
<1>4. SumFunctionOnSet(f, PaidIn(outcomes)) \in Nat
  BY <1>3, PaidKnown, SumNat
<1>5. Payouts(parent, outcomes) \in Nat
  BY <1>4 DEF Payouts, f
<1>6. Due(deposits, 0) \in Nat /\ SumFunction(deposits) = Due(deposits, 0)
  <2>1. deposits \in Seq(Nat) /\ DOMAIN deposits = 0 + 1 .. Len(deposits)
    <3>1. deposits \in Seq(Nat)
      BY <1>1, DepositsType
    <3> QED BY <3>1
  <2> QED BY <2>1, DueType DEF SumFunction, Due
<1>7. Treasury = Due(deposits, 0) - Payouts(parent, outcomes)
  BY <1>6 DEF Treasury, Payouts, PaidOut, PaidIn, M6Sats, SatsIn, SumFunction
<1> QED BY <1>5, <1>6, <1>7

LEMMA TreasuryKept ==
    ASSUME M6Inv, PegShape', UNCHANGED mainchain, SameAmounts(parent', parent)
    PROVE  Treasury' = Treasury /\ PaidRequests' = PaidRequests
<1> DEFINE f == [k \in PaidIn(outcomes) |-> SatsIn(parent, outcomes[k].m6id.indices)]
           g == [k \in PaidIn(outcomes) |-> SatsIn(parent', outcomes[k].m6id.indices)]
<1>1. UNCHANGED <<deposits, outcomes>> /\ parent \in QueueState
  BY M6Types DEF mainchain
<1>2. ASSUME NEW k \in PaidIn(outcomes)
      PROVE  f[k] = g[k]
  <2> DEFINE indices == outcomes[k].m6id.indices
             before == Sats(parent)
             after == Sats(parent')
  <2>1. indices \subseteq Queued(parent)
    BY PaidKnown DEF PaidIn
  <2> HIDE DEF indices
  <2>2. IsFiniteSet(indices) /\ \A i \in indices : before[i] = after[i]
    BY <1>1, <2>1, SatsInType DEF SameAmounts
  <2> HIDE DEF before, after
  <2>3. SumFunctionOnSet(before, indices) = SumFunctionOnSet(after, indices)
    BY <2>2, SumSame
  <2>4. SatsIn(parent, indices) = SatsIn(parent', indices)
    BY <2>3 DEF SatsIn, before, after
  <2> QED BY <2>4 DEF indices
<1> HIDE DEF f, g
<1>3. SumFunctionOnSet(f, PaidIn(outcomes)) = SumFunctionOnSet(g, PaidIn(outcomes))
  BY <1>2, PaidKnown, SumSame
<1>4. Payouts(parent', outcomes') = Payouts(parent, outcomes)
  BY <1>1, <1>3 DEF Payouts, f, g
<1>5. PegShape
  BY M6Types
<1>6. PaidRequests' = PaidRequests
  BY <1>1 DEF PaidRequests, PaidOut
<1> QED BY <1>1, <1>4, <1>5, <1>6, TreasuryIs

LEMMA IssuedType == ASSUME NEW balances \in Balances PROVE Issued(balances) \in Nat
  BY DEF Balances, Issued

LEMMA SolventTypes ==
    ASSUME SolventInv
    PROVE  /\ M6Inv /\ PegShape /\ Shape /\ deposits \in Seq(Nat)
           /\ queue \in QueueState /\ parent \in QueueState /\ beforeCall \in QueueState
           /\ cursor \in Nat /\ upTo.deposits \in Nat /\ anchor.deposits \in Nat
           /\ Len(deposits) \in Nat
           /\ cursor <= upTo.deposits /\ anchor.deposits <= upTo.deposits
           /\ upTo.deposits <= Len(deposits)
           /\ Issued(bank) \in Nat /\ Issued(parentBank) \in Nat /\ Issued(bankBeforeCall) \in Nat
           /\ Treasury \in Int
<1>1. /\ M6Inv /\ PegShape /\ Shape /\ cursor \in Nat /\ anchor \in Point /\ upTo \in Point
      /\ queue \in QueueState /\ parent \in QueueState /\ beforeCall \in QueueState
      /\ cursor <= upTo.deposits
  BY M6Types DEF SolventInv, M6Inv
<1>2. bank \in Balances /\ parentBank \in Balances /\ bankBeforeCall \in Balances
  BY <1>1 DEF PegShape, PegTypeOK
<1>3. deposits \in Seq(Nat)
  BY <1>1, DepositsType
<1>4. Len(deposits) \in Nat
  BY <1>3
<1>5. Issued(bank) \in Nat /\ Issued(parentBank) \in Nat /\ Issued(bankBeforeCall) \in Nat
  BY <1>2, IssuedType
<1>6. Treasury \in Int
  BY PayoutsType DEF SolventInv
<1> QED BY <1>1, <1>3, <1>4, <1>5, <1>6 DEF SolventInv, Point, PegShape, Ranges

LEMMA InitSolvent == PegInit => SolventInv
<1> SUFFICES ASSUME PegInit PROVE SolventInv
  OBVIOUS
<1>1. M6Inv /\ PegShape
  BY InitM6, M6Types
<1>2. /\ Queued(queue) = {} /\ parent = queue /\ phase = "sealed"
      /\ deposits = <<>> /\ outcomes = <<>> /\ cursor = 0 /\ anchor.deposits = 0
      /\ Issued(bank) = 0 /\ Issued(parentBank) = 0
  BY DEF PegInit, Init, Queued, Genesis, Issued
<1>3. OwedOf(queue, PaidRequests) = {}
  BY <1>2 DEF OwedOf
<1>4. 0 + 1 .. Len(deposits) = {} /\ DOMAIN deposits = {} /\ PaidOut = {}
  BY <1>2 DEF PaidOut
<1>5. Due(deposits, 0) = 0 /\ OwedSats(queue, PaidRequests) = 0
  BY <1>3, <1>4, SumEmpty DEF Due, OwedSats
<1>6. Treasury = 0
  <2>1. SumFunction(deposits) = 0
    BY <1>4, SumEmpty DEF SumFunction
  <2>2. SumFunction([k \in PaidOut |-> M6Sats(outcomes[k].m6id)]) = 0
    BY <1>4, SumEmpty DEF SumFunction
  <2> QED BY <2>1, <2>2 DEF Treasury
<1>7. Covers(0, 0, 0, 0) /\ WeiPerSat * 0 <= Reserve
  BY DEF Covers
<1> QED BY <1>1, <1>2, <1>5, <1>6, <1>7 DEF SolventInv, SameAmounts, Calling

LEMMA DepositSolvent ==
    ASSUME SolventInv, M6Inv', NEW sats \in DepositSats, MineDeposit(sats)
    PROVE  SolventInv'
<1>1. /\ UNCHANGED <<vars, outcomes, cursor, anchor, bank, parentBank, bankBeforeCall>>
      /\ deposits' = Append(deposits, sats) /\ sats \in Nat
      /\ (Treasury + sats) * WeiPerSat <= Reserve
  BY DEF MineDeposit
<1>2. PegShape' /\ UNCHANGED <<queue, parent, beforeCall, phase>>
  BY <1>1, M6Types DEF vars, chain, M6Inv, OneByOne, PegInv
<1>3. \A c \in Nat : c <= Len(deposits) => Due(deposits', c) = Due(deposits, c) + sats
  BY <1>1, SolventTypes, DueAppend
<1>4. Treasury' = Treasury + sats
  <2>1. Due(deposits', 0) = Due(deposits, 0) + sats
    BY <1>3, SolventTypes
  <2>2. Payouts(parent', outcomes') = Payouts(parent, outcomes)
    BY <1>1, <1>2
  <2>3. Due(deposits, 0) \in Nat /\ Payouts(parent, outcomes) \in Nat
    BY SolventTypes, PayoutsType, DueType
  <2> QED BY <1>1, <1>2, <2>1, <2>2, <2>3, SolventTypes, TreasuryIs
<1>5. PaidRequests' = PaidRequests
  BY <1>1 DEF PaidRequests, PaidOut
<1>6. ASSUME NEW users \in Int, NEW owed \in Int, NEW c \in Nat, c <= Len(deposits),
             Covers(Treasury, users, owed, Due(deposits, c))
      PROVE  Covers(Treasury', users, owed, Due(deposits', c))
  <2>1. Due(deposits, c) \in Int /\ Treasury \in Int
    BY SolventTypes, DueType
  <2>2. Due(deposits', c) = Due(deposits, c) + sats
    BY <1>3, <1>6
  <2>3. /\ WeiPerSat * (Due(deposits, c) + sats) = WeiPerSat * Due(deposits, c) + WeiPerSat * sats
        /\ WeiPerSat * (Treasury + sats) = WeiPerSat * Treasury + WeiPerSat * sats
        /\ WeiPerSat * owed \in Int /\ WeiPerSat * sats \in Int
        /\ WeiPerSat * Due(deposits, c) \in Int /\ WeiPerSat * Treasury \in Int
    BY <1>1, <2>1, InWei
  <2> QED BY <1>4, <1>6, <2>2, <2>3 DEF Covers
<1>7. /\ OwedSats(queue, PaidRequests) \in Int /\ OwedSats(parent, PaidRequests) \in Int
      /\ OwedSats(beforeCall, PaidRequests) \in Int
      /\ cursor <= Len(deposits) /\ anchor.deposits <= Len(deposits)
  BY SolventTypes, OwedType
<1>8. WeiPerSat * Treasury' <= Reserve
  BY <1>1, <1>4, SolventTypes, InWei
<1>9. /\ Covers(Treasury', Issued(bank), OwedSats(queue, PaidRequests), Due(deposits', cursor))
      /\ Covers(Treasury', Issued(parentBank), OwedSats(parent, PaidRequests),
                Due(deposits', anchor.deposits))
      /\ Calling => Covers(Treasury', Issued(bankBeforeCall), OwedSats(beforeCall, PaidRequests),
                           Due(deposits', cursor))
  <2>1. Covers(Treasury', Issued(bank), OwedSats(queue, PaidRequests), Due(deposits', cursor))
    BY <1>6, <1>7, SolventTypes DEF SolventInv
  <2>2. Covers(Treasury', Issued(parentBank), OwedSats(parent, PaidRequests),
               Due(deposits', anchor.deposits))
    BY <1>6, <1>7, SolventTypes, SMTT(30) DEF SolventInv
  <2>3. Calling => Covers(Treasury', Issued(bankBeforeCall), OwedSats(beforeCall, PaidRequests),
                          Due(deposits', cursor))
    BY <1>6, <1>7, SolventTypes DEF SolventInv
  <2> QED BY <2>1, <2>2, <2>3
<1> QED BY <1>1, <1>2, <1>5, <1>8, <1>9 DEF SolventInv, Calling

LEMMA OutcomeSolvent ==
    ASSUME SolventInv, M6Inv', NEW m6id \in broadcast, NEW status \in {"Succeeded", "Failed"},
           MineOutcome(m6id, status)
    PROVE  SolventInv'
<1> DEFINE last == Len(outcomes) + 1
           took == SatsIn(parent, m6id.indices)
           f == [k \in PaidIn(outcomes) |-> SatsIn(parent, outcomes[k].m6id.indices)]
           g == [k \in PaidIn(outcomes') |-> SatsIn(parent, outcomes'[k].m6id.indices)]
<1>1. /\ UNCHANGED <<vars, deposits, cursor, anchor, bank, parentBank, bankBeforeCall>>
      /\ DOMAIN outcomes' = DOMAIN outcomes \cup {last} /\ last \notin DOMAIN outcomes
      /\ \A k \in DOMAIN outcomes : outcomes'[k] = outcomes[k]
      /\ outcomes'[last] = [m6id |-> m6id, status |-> status]
      /\ \A k \in DOMAIN outcomes : outcomes[k].m6id # m6id
  BY SolventTypes, OutcomesGrow
<1>2. PegShape' /\ UNCHANGED <<queue, parent, beforeCall, phase>>
  BY <1>1, M6Types DEF vars, chain, M6Inv, OneByOne, PegInv
<1>3. outcomes'[last].m6id = m6id /\ outcomes'[last].status = status
  BY <1>1
<1> HIDE DEF last
<1>4. CASE status = "Failed"
  <2>1. PaidIn(outcomes') = PaidIn(outcomes)
    BY <1>1, <1>3, <1>4 DEF PaidIn
  <2>2. g = f
    BY <1>1, <2>1 DEF PaidIn
  <2>3. Payouts(parent', outcomes') = Payouts(parent, outcomes)
    BY <1>2, <2>1, <2>2 DEF Payouts
  <2>4. Treasury' = Treasury
    BY <1>1, <1>2, <2>3, SolventTypes, TreasuryIs
  <2>5. PaidRequests' = PaidRequests
    BY <1>1, <2>1 DEF PaidRequests, PaidOut, PaidIn
  <2> QED BY <1>1, <1>2, <2>4, <2>5 DEF SolventInv, Calling
<1>5. CASE status = "Succeeded"
  <2>1. PaidIn(outcomes') = PaidIn(outcomes) \cup {last} /\ last \notin PaidIn(outcomes)
    BY <1>1, <1>3, <1>5 DEF PaidIn
  <2>2. PaidRequests' = PaidRequests \cup m6id.indices
    <3>1. \A k \in PaidIn(outcomes) : outcomes'[k] = outcomes[k]
      BY <1>1 DEF PaidIn
    <3>2. PaidRequests = UNION {outcomes[k].m6id.indices : k \in PaidIn(outcomes)}
      BY DEF PaidRequests, PaidOut, PaidIn
    <3>3. PaidRequests' = UNION {outcomes'[k].m6id.indices : k \in PaidIn(outcomes')}
      BY DEF PaidRequests, PaidOut, PaidIn
    <3> QED BY <1>3, <2>1, <3>1, <3>2, <3>3
  <2>3. m6id.indices \subseteq Queued(parent) /\ took \in Nat
    <3>1. m6id.indices \subseteq Queued(parent)
      BY SolventTypes DEF M6Inv, Belongs
    <3> QED BY <3>1, SolventTypes, SatsInType
  <2>4. Treasury' = Treasury - took
    <3>1. IsFiniteSet(PaidIn(outcomes)) /\ Payouts(parent, outcomes) \in Nat
      BY SolventTypes, PaidKnown, PayoutsType
    <3>2. \A k \in PaidIn(outcomes) : g[k] = f[k]
      BY <1>1, <2>1 DEF PaidIn
    <3>3. g[last] = took
      BY <1>3, <2>1
    <3>4. \A k \in PaidIn(outcomes) : f[k] \in Nat
      BY SolventTypes, PaidKnown, SatsInType DEF PaidIn
    <3> HIDE DEF f, g, took
    <3>5. \A k \in PaidIn(outcomes) \cup {last} : g[k] \in Int
      BY <2>3, <3>2, <3>3, <3>4
    <3>6. SumFunctionOnSet(g, PaidIn(outcomes) \cup {last})
             = g[last] + SumFunctionOnSet(g, PaidIn(outcomes))
      BY <2>1, <3>1, <3>5, SumAdd
    <3>7. SumFunctionOnSet(g, PaidIn(outcomes)) = SumFunctionOnSet(f, PaidIn(outcomes))
      BY <3>1, <3>2, SumSame
    <3>8. Payouts(parent', outcomes') = took + Payouts(parent, outcomes)
      <4>1. Payouts(parent, outcomes) = SumFunctionOnSet(f, PaidIn(outcomes))
        BY DEF Payouts, f
      <4>2. Payouts(parent', outcomes') = SumFunctionOnSet(g, PaidIn(outcomes'))
        BY <1>2 DEF Payouts, g
      <4> QED BY <2>1, <3>3, <3>6, <3>7, <4>1, <4>2
    <3>9. Due(deposits, 0) \in Nat
      BY SolventTypes, DueType
    <3> QED BY <1>1, <1>2, <2>3, <3>1, <3>8, <3>9, SolventTypes, TreasuryIs
  <2>5. ASSUME NEW q \in QueueState, Queued(parent) \subseteq Queued(q),
               Continues(q, parent, NextM6id), Justified(q, outcomes), SameAmounts(q, parent)
        PROVE  OwedSats(q, PaidRequests') = OwedSats(q, PaidRequests) - took
    <3>1. ASSUME NEW i \in m6id.indices
          PROVE  i \in OwedOf(q, PaidRequests)
      <4>1. i \in Queued(q) /\ i \in Queued(parent)
        BY <2>3, <2>5
      <4>2. InBundle(q, i) => q.requests[i].bundleM6id = m6id
        <5>1. Belongs(m6id, parent, NextM6id)
          BY SolventTypes DEF M6Inv
        <5> QED BY <2>5, <4>1, <5>1, SMTT(30) DEF Belongs, Continues
      <4>3. q.requests[i].status \notin {"Confirmed", "Refunded"}
        BY <1>1, <2>5, <4>1, <4>2 DEF Justified, InBundle, Decided
      <4>4. q.requests[i].status \in Status
        <5>1. i \in Index
          BY <2>5, <4>1, SatsType
        <5> QED BY <5>1 DEF QueueState, Request
      <4>5. i \notin PaidRequests
        <5> SUFFICES ASSUME NEW k \in PaidOut, i \in outcomes[k].m6id.indices PROVE FALSE
          BY DEF PaidRequests
        <5>1. k \in DOMAIN outcomes /\ outcomes[k].m6id \in broadcast
          BY SolventTypes, PaidKnown DEF PaidOut
        <5>2. outcomes[k].m6id = m6id
          BY <5>1, SolventTypes DEF M6Inv, Belongs
        <5> QED BY <1>1, <5>1, <5>2
      <4> QED BY <4>1, <4>3, <4>4, <4>5 DEF OwedOf, Status
    <3>2. \A i \in m6id.indices : Sats(q)[i] = Sats(parent)[i]
      BY <2>3, <2>5 DEF SameAmounts
    <3> QED BY <2>2, <3>1, <3>2, SolventTypes, OwedAfterPayout
  <2>6. ASSUME NEW users \in Int, NEW owed \in Int, NEW due \in Int,
               Covers(Treasury, users, owed, due)
        PROVE  Covers(Treasury', users, owed - took, due)
    <3> HIDE DEF took
    <3>1. Treasury \in Int
      BY SolventTypes
    <3>2. /\ WeiPerSat * (owed - took) = WeiPerSat * owed - WeiPerSat * took
          /\ WeiPerSat * (Treasury - took) = WeiPerSat * Treasury - WeiPerSat * took
          /\ WeiPerSat * owed \in Int /\ WeiPerSat * took \in Int
          /\ WeiPerSat * due \in Int /\ WeiPerSat * Treasury \in Int
      BY <2>3, <3>1, InWei
    <3> QED BY <2>4, <2>6, <3>2 DEF Covers
  <2>7. /\ OwedSats(queue, PaidRequests') = OwedSats(queue, PaidRequests) - took
        /\ OwedSats(parent, PaidRequests') = OwedSats(parent, PaidRequests) - took
        /\ Calling => OwedSats(beforeCall, PaidRequests') = OwedSats(beforeCall, PaidRequests) - took
    <3>1. Continues(parent, parent, NextM6id) /\ SameAmounts(parent, parent)
      BY DEF Continues, SameAmounts
    <3> HIDE DEF took
    <3> QED BY <2>5, <3>1, SolventTypes, M6Types DEF SolventInv, M6Inv
  <2>8. /\ OwedSats(queue, PaidRequests) \in Nat /\ OwedSats(parent, PaidRequests) \in Nat
        /\ OwedSats(beforeCall, PaidRequests) \in Nat
        /\ Due(deposits, cursor) \in Nat /\ Due(deposits, anchor.deposits) \in Nat
    BY SolventTypes, OwedType, DueType
  <2>9. WeiPerSat * Treasury' <= Reserve
    <3> HIDE DEF took
    <3>1. WeiPerSat * (Treasury - took) <= WeiPerSat * Treasury
      BY <2>3, SolventTypes, InWei
    <3>2. WeiPerSat * (Treasury - took) \in Int /\ WeiPerSat * Treasury \in Int
      BY <2>3, SolventTypes, InWei
    <3> QED BY <2>4, <3>1, <3>2 DEF SolventInv
  <2> HIDE DEF took
  <2>10. Covers(Treasury', Issued(bank), OwedSats(queue, PaidRequests'), Due(deposits, cursor))
    BY <2>6, <2>7, <2>8, SolventTypes DEF SolventInv
  <2>11. Covers(Treasury', Issued(parentBank), OwedSats(parent, PaidRequests'),
                Due(deposits, anchor.deposits))
    BY <2>6, <2>7, <2>8, SolventTypes DEF SolventInv
  <2>12. Calling => Covers(Treasury', Issued(bankBeforeCall), OwedSats(beforeCall, PaidRequests'),
                           Due(deposits, cursor))
    BY <2>6, <2>7, <2>8, SolventTypes DEF SolventInv
  <2> QED BY <1>1, <1>2, <2>9, <2>10, <2>11, <2>12 DEF SolventInv, Calling
<1> QED BY <1>4, <1>5

LEMMA RequestSolvent ==
    ASSUME SolventInv, M6Inv', NEW msgValue \in MsgValue, NEW mainFeeSats \in MainFeeSats,
           UserRequests(msgValue, mainFeeSats)
    PROVE  SolventInv'
<1> DEFINE new == queue.requestCount
           sats == Sats(queue')
           owed == OwedOf(queue, PaidRequests)
<1>1. /\ queue'.requestCount = new + 1 /\ new \in Index
      /\ queue'.requests[new].status = "Pending"
      /\ \A i \in Index \ {new} : queue'.requests[i] = queue.requests[i]
      /\ UNCHANGED <<parent, phase, beforeCall>>
  BY SolventTypes, RequestEffect DEF UserRequests
<1>2. /\ \A i \in Index \ {new} : sats[i] = Sats(queue)[i]
      /\ WeiPerSat * sats[new] = msgValue /\ msgValue \in Nat
  BY SolventTypes, RequestAmounts DEF UserRequests
<1>3. /\ UNCHANGED <<mainchain, cursor, anchor, parentBank, bankBeforeCall>>
      /\ Issued(bank') = Issued(bank) - msgValue
  <2>1. bank \in Balances
    BY SolventTypes DEF PegShape, PegTypeOK
  <2> QED BY <1>2, <2>1 DEF UserRequests, Balances, Issued
<1>4. PegShape' /\ queue' \in QueueState
  BY DEF M6Inv, OneByOne, PegInv, PegShape, Shape, TypeOK
<1>5. Treasury' = Treasury /\ PaidRequests' = PaidRequests
  BY <1>1, <1>3, <1>4, SolventTypes, TreasuryKept DEF SameAmounts
<1>6. /\ Queued(queue') = Queued(queue) \cup {new} /\ new \notin Queued(queue)
      /\ Queued(queue) \subseteq Index /\ Queued(parent) \subseteq Queued(queue)
      /\ new \notin PaidRequests
  <2>1. M6Inv
    BY SolventTypes
  <2>2. /\ Queued(queue) \subseteq Index /\ Queued(parent) \subseteq Queued(queue)
        /\ new \in Nat
    BY <2>1, M6Types
  <2>3. Queued(queue') = Queued(queue) \cup {new} /\ new \notin Queued(queue)
    BY <1>1, <2>2 DEF Queued
  <2>4. PaidRequests \subseteq Queued(parent)
    BY <2>1, PaidKnown
  <2> QED BY <2>2, <2>3, <2>4
<1>7. OwedOf(queue', PaidRequests) = owed \cup {new} /\ new \notin owed
  <2> HIDE DEF new
  <2> QED BY <1>1, <1>6 DEF OwedOf
<1>8. SameAmounts(queue', parent)
  BY <1>2, <1>6 DEF SolventInv, SameAmounts
<1>9. /\ IsFiniteSet(owed) /\ \A i \in owed : sats[i] = Sats(queue)[i]
      /\ \A i \in owed : Sats(queue)[i] \in Nat
      /\ OwedSats(queue, PaidRequests) \in Nat
      /\ Due(deposits, cursor) \in Nat
      /\ sats[new] \in Nat
  BY <1>1, <1>2, <1>4, <1>6, SolventTypes, OwedType, DueType, SatsType
<1>10. SumFunctionOnSet(sats, owed) = OwedSats(queue, PaidRequests)
  <2> HIDE DEF sats, owed
  <2>1. SumFunctionOnSet(sats, owed) = SumFunctionOnSet(Sats(queue), owed)
    BY <1>9, SumSame
  <2> QED BY <2>1 DEF OwedSats, owed
<1> HIDE DEF new, sats, owed
<1>11. SumFunctionOnSet(sats, owed \cup {new}) = sats[new] + SumFunctionOnSet(sats, owed)
  <2>1. \A i \in owed \cup {new} : sats[i] \in Int
    BY <1>9
  <2> QED BY <1>7, <1>9, <2>1, SumAdd
<1>12. OwedSats(queue', PaidRequests) = sats[new] + OwedSats(queue, PaidRequests)
  BY <1>7, <1>10, <1>11 DEF OwedSats, sats
<1>13. Covers(Treasury, Issued(bank'), OwedSats(queue', PaidRequests), Due(deposits, cursor))
  <2> DEFINE before == OwedSats(queue, PaidRequests)
             due == Due(deposits, cursor)
  <2>1. /\ WeiPerSat * (sats[new] + before) = WeiPerSat * sats[new] + WeiPerSat * before
        /\ WeiPerSat * before \in Int /\ WeiPerSat * due \in Int
        /\ WeiPerSat * Treasury \in Int
    <3>1. before \in Int /\ due \in Int /\ sats[new] \in Int /\ Treasury \in Int
      BY <1>9, SolventTypes
    <3> HIDE DEF before, due
    <3> QED BY <3>1, InWei
  <2>2. Covers(Treasury, Issued(bank), before, due) /\ Issued(bank) \in Nat
    BY SolventTypes DEF SolventInv
  <2> HIDE DEF before, due
  <2>3. Covers(Treasury, Issued(bank) - msgValue, sats[new] + before, due)
    BY <1>2, <2>1, <2>2 DEF Covers
  <2> QED BY <1>3, <1>12, <2>3 DEF before, due
<1>14. UNCHANGED deposits
  BY <1>3 DEF mainchain
<1> QED BY <1>1, <1>3, <1>5, <1>8, <1>13, <1>14 DEF SolventInv, Calling

LEMMA ReportSolvent ==
    ASSUME SolventInv, M6Inv', ReportRange
    PROVE  SolventInv'
<1>1. /\ UNCHANGED <<mainchain, cursor, anchor, bank, parentBank, parent>>
      /\ bankBeforeCall' = bank /\ Appended(parent, queue) /\ ~Calling
      /\ \/ NewBundle = {} /\ UNCHANGED <<queue, beforeCall, todo>> /\ phase' = "txs"
         \/ Reported(NewBundle, RangeOutcomes)
  BY ReportAccepted DEF SolventInv, M6Inv, Calling
<1>2. PegShape' /\ queue' \in QueueState /\ UNCHANGED deposits
  BY <1>1 DEF M6Inv, OneByOne, PegInv, PegShape, Shape, TypeOK, mainchain
<1>3. Treasury' = Treasury /\ PaidRequests' = PaidRequests
  BY <1>1, <1>2, SolventTypes, TreasuryKept DEF SameAmounts
<1>4. Sats(queue') = Sats(queue)
  BY SolventTypes, ReportAmounts DEF ReportRange
<1>5. CASE UNCHANGED <<queue, beforeCall, todo>> /\ phase' = "txs"
  BY <1>1, <1>2, <1>3, <1>5 DEF SolventInv, Calling
<1>6. CASE Reported(NewBundle, RangeOutcomes)
  <2>1. /\ beforeCall' = queue /\ queue'.requestCount = queue.requestCount
        /\ \A i \in NewBundle : queue.requests[i].status = "Pending"
        /\ \A i \in Index :
              queue'.requests[i].status \in {"Pending", "Bundled"} =>
                 i \in NewBundle \/ queue'.requests[i].status = queue.requests[i].status
    BY <1>6 DEF Reported
  <2>2. OwedOf(queue', PaidRequests) \subseteq OwedOf(queue, PaidRequests)
    <3>1. Queued(queue') = Queued(queue) /\ Queued(queue) \subseteq Index
      BY <2>1, SolventTypes, M6Types DEF Queued
    <3> QED BY <2>1, <3>1 DEF OwedOf
  <2>3. OwedSats(queue', PaidRequests) <= OwedSats(queue, PaidRequests)
    BY <1>2, <1>4, <2>2, SolventTypes, OwedLess
  <2>4. /\ OwedSats(queue', PaidRequests) \in Nat /\ OwedSats(queue, PaidRequests) \in Nat
        /\ Due(deposits, cursor) \in Nat
    BY <1>2, SolventTypes, OwedType, DueType
  <2>5. Covers(Treasury, Issued(bank), OwedSats(queue', PaidRequests), Due(deposits, cursor))
    BY <2>3, <2>4, SolventTypes, CoversLess DEF SolventInv
  <2>6. SameAmounts(queue', parent)
    BY <1>4 DEF SolventInv, SameAmounts
  <2> QED BY <1>1, <1>2, <1>3, <2>1, <2>5, <2>6 DEF SolventInv, Calling
<1> QED BY <1>1, <1>5, <1>6

LEMMA RefundSolvent ==
    ASSUME SolventInv, M6Inv', NEW job \in todo, Refund(job)
    PROVE  SolventInv'
<1> DEFINE i == job[2]
           sats == Sats(queue)
           owed == OwedOf(queue, PaidRequests)
<1>1. /\ i \in Index /\ i \in Queued(queue) /\ Calling
      /\ UNCHANGED <<parent, beforeCall>>
      /\ queue'.requestCount = queue.requestCount
      /\ queue.requests[i].status = "Bundled"
      /\ \A j \in Index : queue'.requests[j].status = IF j = i THEN "Refunded"
                                                      ELSE queue.requests[j].status
  <2>1. /\ i \in Index /\ phase = "refunds" /\ UNCHANGED <<parent, beforeCall>>
        /\ queue'.requestCount = queue.requestCount
        /\ queue.requests[i].status = "Bundled"
        /\ \A j \in Index : queue'.requests[j].status = IF j = i THEN "Refunded"
                                                        ELSE queue.requests[j].status
    BY SolventTypes, RefundEffect DEF Refund
  <2>2. i \in Queued(queue)
    BY SolventTypes, M6Types DEF M6Inv
  <2> QED BY <2>1, <2>2 DEF Calling
<1>2. /\ UNCHANGED <<mainchain, cursor, anchor, parentBank, bankBeforeCall>>
      /\ UNCHANGED deposits
  BY DEF Refund, mainchain
<1>3. PegShape' /\ queue' \in QueueState
  BY DEF M6Inv, OneByOne, PegInv, PegShape, Shape, TypeOK
<1>4. Treasury' = Treasury /\ PaidRequests' = PaidRequests
  BY <1>1, <1>2, <1>3, SolventTypes, TreasuryKept DEF SameAmounts
<1>5. Sats(queue') = sats /\ SameAmounts(queue', parent)
  BY SolventTypes, RefundAmounts DEF Refund, SolventInv, SameAmounts
<1>6. i \in owed
  <2>1. Decided(outcomes, queue.requests[i].bundleM6id, "Failed") /\ InBundle(parent, i)
    BY SolventTypes DEF M6Inv
  <2>2. /\ i \in Queued(parent)
        /\ queue.requests[i].bundleM6id = parent.requests[i].bundleM6id
    BY <1>1, <2>1, SolventTypes, M6Types DEF M6Inv, Continues
  <2>3. PICK k \in DOMAIN outcomes : /\ outcomes[k].m6id = parent.requests[i].bundleM6id
                                     /\ outcomes[k].status = "Failed"
    BY <2>1, <2>2 DEF Decided
  <2>4. i \notin PaidRequests
    <3> SUFFICES ASSUME NEW l \in PaidOut, i \in outcomes[l].m6id.indices PROVE FALSE
      BY DEF PaidRequests
    <3>1. /\ l \in DOMAIN outcomes /\ outcomes[l].status = "Succeeded"
          /\ outcomes[l].m6id \in broadcast
      BY SolventTypes, PaidKnown DEF PaidOut
    <3>2. outcomes[l].m6id = parent.requests[i].bundleM6id
      BY <2>1, <3>1, SolventTypes DEF M6Inv, Belongs
    <3>3. k = l
      BY <2>3, <3>1, <3>2, SolventTypes DEF M6Inv, OneByOne, DecidedOnce
    <3> QED BY <2>3, <3>1, <3>3
  <2> QED BY <1>1, <2>4 DEF OwedOf
<1>7. OwedOf(queue', PaidRequests) = owed \ {i}
  <2>1. Queued(queue') = Queued(queue) /\ Queued(queue) \subseteq Index
    BY <1>1, SolventTypes, M6Types DEF Queued
  <2> HIDE DEF i
  <2> QED BY <1>1, <2>1 DEF OwedOf
<1>8. /\ IsFiniteSet(owed) /\ \A j \in owed : sats[j] \in Nat
      /\ OwedSats(queue, PaidRequests) \in Nat /\ OwedSats(queue', PaidRequests) \in Nat
      /\ Due(deposits, cursor) \in Nat
  BY <1>3, SolventTypes, OwedType, DueType
<1> DEFINE before == OwedSats(queue, PaidRequests)
           after  == OwedSats(queue', PaidRequests)
           due    == Due(deposits, cursor)
<1>9. before = sats[i] + after /\ sats[i] \in Nat
  <2> HIDE DEF owed, i, sats
  <2>1. SumFunctionOnSet(sats, owed) = sats[i] + SumFunctionOnSet(sats, owed \ {i})
    <3>1. \A j \in owed : sats[j] \in Int
      BY <1>8
    <3> QED BY <1>6, <1>8, <3>1, SumRemove
  <2>2. before = SumFunctionOnSet(sats, owed)
    BY DEF OwedSats, owed, sats
  <2>3. after = SumFunctionOnSet(sats, owed \ {i})
    BY <1>5, <1>7 DEF OwedSats
  <2> QED BY <1>6, <1>8, <2>1, <2>2, <2>3
<1>10. Covers(Treasury, Issued(bank), before, due) /\ Issued(bank) \in Nat /\ Treasury \in Int
  BY SolventTypes DEF SolventInv
<1>11. Covers(Treasury, Issued(bank'), after, due)
  <2>1. CASE RefundRejected(job) /\ UNCHANGED bank
    <3>1. after <= before
      <4> HIDE DEF before, after
      <4> QED BY <1>8, <1>9 DEF after
    <3> QED BY <1>8, <1>10, <2>1, <3>1, CoversLess
  <2>2. CASE /\ RefundAccepted(job)
             /\ bank' = [bank EXCEPT !.users = @ + AmountWei(queue.requests[i])]
    <3>1. AmountWei(queue.requests[i]) = WeiPerSat * sats[i]
      BY <1>1, SolventTypes, SatsType
    <3>2. Issued(bank') = Issued(bank) + WeiPerSat * sats[i]
      <4>1. bank \in Balances
        BY SolventTypes DEF PegShape, PegTypeOK
      <4> HIDE DEF sats, i
      <4>2. bank' = [bank EXCEPT !.users = @ + WeiPerSat * sats[i]]
        BY <2>2, <3>1
      <4>3. bank'.users = bank.users + WeiPerSat * sats[i] /\ bank'.burned = bank.burned
        BY <4>1, <4>2 DEF Balances
      <4>4. WeiPerSat * sats[i] \in Int
        BY <1>9, InWei
      <4>5. bank.users \in Int /\ bank.burned \in Int
        BY <4>1 DEF Balances
      <4> QED BY <4>3, <4>4, <4>5 DEF Issued
    <3>3. after \in Int /\ due \in Int
      BY <1>8
    <3> HIDE DEF before, after, due, sats, i
    <3>4. /\ WeiPerSat * before = WeiPerSat * sats[i] + WeiPerSat * after
          /\ WeiPerSat * sats[i] \in Int /\ WeiPerSat * after \in Int
          /\ WeiPerSat * due \in Int /\ WeiPerSat * Treasury \in Int
      BY <1>9, <1>10, <3>3, InWei
    <3> QED BY <1>10, <3>2, <3>4 DEF Covers
  <2> QED BY <2>1, <2>2 DEF Refund
<1>12. Calling'
  BY SolventTypes, RefundEffect DEF Refund, Calling
<1> QED BY <1>1, <1>2, <1>4, <1>5, <1>11 DEF SolventInv

LEMMA ControlSolvent ==
    ASSUME SolventInv, M6Inv', PegControl
    PROVE  SolventInv'
<1> DEFINE covered(users, q, c) ==
              Covers(Treasury, users, OwedSats(q, PaidRequests), Due(deposits, c))
<1>1. UNCHANGED mainchain /\ UNCHANGED deposits
  BY DEF PegControl, BuildBlock, CreditDeposit, RejectDeposit, DepositCallHalts,
     LifecycleCallHalts, LifecycleCallGoesOn, Seal, Abandon, mainchain
<1>2. SameAmounts(parent', parent)
  <2>1. parent' \in {parent, queue}
    BY DEF PegControl, BuildBlock, StartBlock, CreditDeposit, RejectDeposit, DepositCallHalts,
       DepositsHalt, LifecycleCallHalts, LifecycleHalts, LifecycleCallGoesOn, CalleeReturns,
       LifecycleReturns, Seal, SealBlock, Abandon, AbandonBlock, vars, chain
  <2> QED BY <2>1 DEF SolventInv, SameAmounts
<1>3. PegShape'
  BY DEF M6Inv, OneByOne, PegInv
<1>4. Treasury' = Treasury /\ PaidRequests' = PaidRequests
  BY <1>1, <1>2, <1>3, SolventTypes, TreasuryKept
<1>5. /\ covered(Issued(bank), queue, cursor)
      /\ covered(Issued(parentBank), parent, anchor.deposits)
      /\ Calling => covered(Issued(bankBeforeCall), beforeCall, cursor)
      /\ SameAmounts(queue, parent) /\ SameAmounts(parent, parent) /\ SameAmounts(queue, queue)
      /\ Calling => SameAmounts(beforeCall, parent)
      /\ WeiPerSat * Treasury <= Reserve
  BY DEF SolventInv, SameAmounts
<1>6. ASSUME NEW users \in Int, NEW q \in QueueState, NEW c \in Nat, NEW d \in Nat, c <= d,
             covered(users, q, c)
      PROVE  covered(users, q, d)
  <2>1. /\ OwedSats(q, PaidRequests) \in Nat /\ Due(deposits, c) \in Nat /\ Due(deposits, d) \in Nat
        /\ Due(deposits, d) <= Due(deposits, c)
    BY <1>6, SolventTypes, OwedType, DueType, DueLater
  <2> QED BY <1>6, <2>1, SolventTypes, CoversLess
<1>7. CASE CreditDeposit
  <2>1. /\ UNCHANGED <<queue, parent, phase, beforeCall, anchor, parentBank, bankBeforeCall>>
        /\ cursor' = cursor + 1 /\ cursor < upTo.deposits /\ phase = "deposits"
        /\ Issued(bank') = Issued(bank) + deposits[cursor + 1] * WeiPerSat
    <3>1. bank \in Balances
      BY SolventTypes DEF PegShape, PegTypeOK
    <3>2. CreditWei \in Nat
      BY <1>7, SolventTypes, CreditType DEF CreditDeposit
    <3>3. Issued(bank') = Issued(bank) + CreditWei
      <4> HIDE DEF CreditWei
      <4> QED BY <1>7, <3>1, <3>2 DEF CreditDeposit, Balances, Issued
    <3> QED BY <1>7, <3>3 DEF CreditDeposit, AtNextDeposit, CreditWei, vars, chain
  <2> DEFINE sats == deposits[cursor + 1]
             owed == OwedSats(queue, PaidRequests)
             rest == Due(deposits, cursor + 1)
  <2>2. cursor + 1 \in Nat /\ cursor + 1 <= Len(deposits)
    <3>1. /\ cursor \in Nat /\ upTo.deposits \in Nat /\ Len(deposits) \in Nat
          /\ upTo.deposits <= Len(deposits) /\ cursor < upTo.deposits
      BY <2>1, SolventTypes
    <3> QED BY <3>1
  <2>3. Due(deposits, cursor) = sats + rest
    BY <2>2, SolventTypes, DueNext
  <2>4. owed \in Nat /\ rest \in Nat
    BY <2>2, SolventTypes, OwedType, DueType
  <2>5. sats \in Nat
    BY <2>2, SolventTypes, SeqElements
  <2>6. Covers(Treasury, Issued(bank), owed, sats + rest) /\ Issued(bank) \in Nat /\ Treasury \in Int
    BY <1>5, <2>3, SolventTypes
  <2>7. Issued(bank') = Issued(bank) + sats * WeiPerSat
    BY <2>1
  <2> HIDE DEF sats, owed, rest
  <2>8. /\ sats * WeiPerSat = WeiPerSat * sats
        /\ WeiPerSat * (sats + rest) = WeiPerSat * sats + WeiPerSat * rest
        /\ WeiPerSat * sats \in Int /\ WeiPerSat * rest \in Int
        /\ WeiPerSat * owed \in Int /\ WeiPerSat * Treasury \in Int
    BY <2>4, <2>5, <2>6, InWei
  <2>9. Covers(Treasury, Issued(bank'), owed, rest)
    BY <2>6, <2>7, <2>8 DEF Covers
  <2> QED BY <1>1, <1>4, <1>5, <2>1, <2>9 DEF SolventInv, Calling, owed, rest
<1>8. CASE RejectDeposit
  <2>1. /\ UNCHANGED <<queue, parent, phase, beforeCall, anchor, bank, parentBank, bankBeforeCall>>
        /\ cursor' = cursor + 1 /\ phase = "deposits"
    BY <1>8 DEF RejectDeposit, AtNextDeposit, vars, chain
  <2>2. covered(Issued(bank), queue, cursor + 1)
    <3>1. cursor + 1 \in Nat /\ cursor <= cursor + 1
      BY SolventTypes
    <3> QED BY <1>5, <1>6, <3>1, SolventTypes
  <2> QED BY <1>1, <1>4, <1>5, <2>1, <2>2 DEF SolventInv, Calling
<1>9. CASE DepositCallHalts
  <2>1. /\ UNCHANGED <<parent, phase, beforeCall, anchor, parentBank, bankBeforeCall>>
        /\ queue' = parent /\ bank' = parentBank /\ cursor' = upTo.deposits
        /\ phase = "deposits"
    BY <1>9 DEF DepositCallHalts, DepositsHalt, chain
  <2>2. covered(Issued(parentBank), parent, upTo.deposits)
    BY <1>5, <1>6, SolventTypes
  <2> QED BY <1>1, <1>4, <1>5, <2>1, <2>2 DEF SolventInv, Calling
<1>10. CASE LifecycleCallHalts
  <2>1. /\ UNCHANGED <<parent, beforeCall, anchor, cursor, parentBank, bankBeforeCall>>
        /\ Calling /\ phase' = "txs" /\ queue' = beforeCall /\ bank' = bankBeforeCall
    BY <1>10 DEF LifecycleCallHalts, LifecycleHalts, Calling, chain
  <2> QED BY <1>1, <1>4, <1>5, <2>1 DEF SolventInv, Calling
<1>11. CASE BuildBlock \/ LifecycleCallGoesOn
  <2>1. /\ UNCHANGED <<queue, parent, beforeCall, anchor, cursor, bank, parentBank, bankBeforeCall>>
        /\ Calling' => Calling
    BY <1>11 DEF BuildBlock, StartBlock, LifecycleCallGoesOn, CalleeReturns, LifecycleReturns,
       Calling, chain
  <2> QED BY <1>1, <1>4, <1>5, <2>1 DEF SolventInv
<1>12. CASE Seal
  <2>1. /\ UNCHANGED <<queue, cursor>>
        /\ parent' = queue /\ parentBank' = bank' /\ anchor' = upTo /\ ~Calling'
        /\ Issued(bank') = Issued(bank)
    <3>1. bank \in Balances
      BY SolventTypes DEF PegShape, PegTypeOK
    <3> QED BY <1>12, <3>1, SealBurns DEF Seal, SealBlock, Calling
  <2>2. covered(Issued(bank), queue, upTo.deposits)
    BY <1>5, <1>6, SolventTypes
  <2> QED BY <1>1, <1>4, <1>5, <2>1, <2>2 DEF SolventInv
<1>13. CASE Abandon
  <2>1. /\ UNCHANGED <<parent, anchor, parentBank>>
        /\ queue' = parent /\ bank' = parentBank /\ cursor' = anchor.deposits /\ ~Calling'
    BY <1>13 DEF Abandon, AbandonBlock, Calling
  <2> QED BY <1>1, <1>4, <1>5, <2>1 DEF SolventInv
<1> QED BY <1>7, <1>8, <1>9, <1>10, <1>11, <1>12, <1>13 DEF PegControl

LEMMA NextSolvent == GasSuffices /\ SolventInv /\ [PegNext]_pegVars => SolventInv'
<1> SUFFICES ASSUME GasSuffices, SolventInv, [PegNext]_pegVars PROVE SolventInv'
  OBVIOUS
<1>1. M6Inv'
  BY NextM6 DEF SolventInv
<1>2. CASE PegNext
  BY <1>1, <1>2, PegNextCases, DepositSolvent, OutcomeSolvent, RequestSolvent, ReportSolvent,
     RefundSolvent, ControlSolvent
<1>3. CASE UNCHANGED pegVars
  <2>1. UNCHANGED <<queue, parent, phase, beforeCall, mainchain, deposits, outcomes, anchor, cursor,
                    bank, parentBank, bankBeforeCall>>
    BY <1>3 DEF pegVars, vars, chain, mainchain
  <2>2. PegShape' /\ SameAmounts(parent', parent)
    BY <1>1, <2>1 DEF SameAmounts, M6Inv, OneByOne, PegInv
  <2>3. Treasury' = Treasury /\ PaidRequests' = PaidRequests
    BY <2>1, <2>2, SolventTypes, TreasuryKept
  <2> QED BY <1>1, <2>1, <2>3 DEF SolventInv, Calling
<1> QED BY <1>2, <1>3

(* The whole invariant holds at every step, if bundling calls have gas.   *)
THEOREM SolventInvariant == ASSUME GasSuffices PROVE PegSpec => []SolventInv
<1>1. SolventInv /\ [PegNext]_pegVars => SolventInv'
  BY NextSolvent
<1> QED BY <1>1, InitSolvent, PTL DEF PegSpec

LEMMA SolventInWei ==
    ASSUME SolventInv
    PROVE  /\ OwedWei = WeiPerSat * OwedSats(queue, PaidRequests)
           /\ UncreditedWei = WeiPerSat * Due(deposits, cursor)
           /\ Treasury * WeiPerSat = WeiPerSat * Treasury
           /\ OwedWei \in Int /\ UncreditedWei \in Int /\ WeiPerSat * Treasury \in Int
<1>1. Owed = OwedOf(queue, PaidRequests)
  BY DEF Owed, OwedOf
<1>2. OwedWei = WeiPerSat * OwedSats(queue, PaidRequests)
  BY <1>1 DEF OwedWei, OwedSats
<1>3. UncreditedWei = WeiPerSat * Due(deposits, cursor)
  BY DEF UncreditedWei, Due
<1>4. /\ OwedSats(queue, PaidRequests) \in Nat /\ Due(deposits, cursor) \in Nat /\ Treasury \in Int
  BY SolventTypes, OwedType, DueType
<1> QED BY <1>2, <1>3, <1>4, InWei

(***************************************************************************)
(* The treasury covers every coin users hold, have asked back or are      *)
(* about to be credited, through every rejected credit and refund, undone *)
(* call, abandoned block, and outcome that comes early, late or never.    *)
(***************************************************************************)
THEOREM TreasuryCovers == ASSUME GasSuffices PROVE PegSpec => []Solvent
<1>1. SolventInv => Solvent
  BY SolventInWei DEF SolventInv, Covers, Solvent
<1> QED BY <1>1, SolventInvariant, PTL

(***************************************************************************)
(* The vault can pay the deposits to come but for the coins that are      *)
(* stuck in the queue with nobody to claim them.                          *)
(***************************************************************************)
THEOREM VaultIsShortOnlyOfStuckCoins == ASSUME GasSuffices PROVE PegSpec => []VaultCovers
<1>1. SolventInv => VaultCovers
  <2> SUFFICES ASSUME SolventInv PROVE VaultCovers
    OBVIOUS
  <2>1. Issued(bank) + OwedWei + UncreditedWei <= WeiPerSat * Treasury
    BY SolventInWei DEF SolventInv, Covers
  <2>2. WeiPerSat * Treasury <= Reserve
    BY DEF SolventInv
  <2>3. bank.vault + Issued(bank) + queue.balance = Reserve
    <3>1. bank.vault \in Nat /\ bank.users \in Nat /\ bank.burned \in Nat /\ queue.balance \in Nat
      BY SolventTypes DEF PegShape, PegTypeOK, Balances, QueueState
    <3> QED BY <3>1 DEF SolventInv, M6Inv, OneByOne, PegInv, Held, Issued
  <2>4. /\ bank.vault \in Nat /\ Issued(bank) \in Nat /\ queue.balance \in Nat
        /\ OwedWei \in Int /\ UncreditedWei \in Int /\ WeiPerSat * Treasury \in Int
    BY SolventTypes, SolventInWei DEF PegShape, PegTypeOK, Balances, Issued, QueueState
  <2> QED BY <2>1, <2>2, <2>3, <2>4 DEF VaultCovers
<1> QED BY <1>1, SolventInvariant, PTL

=============================================================================
