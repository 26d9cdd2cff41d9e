---------------------------------- MODULE Peg ----------------------------------
(***************************************************************************)
(* The books of the two-way peg: contracts/DepositVault.sol and its       *)
(* caller (src/deposit_vault.rs, the first half of                        *)
(* apply_pre_execution_changes in src/evm.rs), composed with              *)
(* WithdrawalRequestQueue and with the mainchain treasury.                *)
(*                                                                        *)
(* Every coin of the sidechain is in the vault, in the queue contract or  *)
(* with its users, or was burned; genesis.json puts all of them in the    *)
(* vault.  London is active from genesis, so a block's transactions burn  *)
(* their base fees; tips go from user to user.  System calls pay no gas.  *)
(* The treasury is external: a deposit adds to it, an M6 that is paid out *)
(* takes its payouts and its fee.                                         *)
(*                                                                        *)
(* The two lists a block reads of the mainchain are kept apart, because   *)
(* the block reads all deposits of its range before any outcome; a point  *)
(* of the mainchain is how long each of them is.                          *)
(***************************************************************************)
EXTENDS WithdrawalRequestQueue, Sequences

CONSTANTS
    Reserve,        \* the vault's balance at genesis, in wei
    DepositSats,    \* the amounts depositors send (model input)
    MaxDeposits,    \* bound on the deposits ever made (model bound)
    BundleCapacity, \* how many requests fit in an M6
    BaseFees,       \* the wei a block's transactions may burn (model input)
    GasSuffices     \* whether a lifecycle call that bundles has enough gas

ASSUME PegAssumption ==
    /\ Reserve \in Nat
    /\ DepositSats \subseteq Nat
    /\ MaxDeposits \in Nat
    /\ BundleCapacity \in Nat \ {0}
    /\ BaseFees \subseteq Nat
    /\ GasSuffices \in BOOLEAN

VARIABLES
    deposits,       \* the mainchain's deposits: their amounts, in order
    outcomes,       \* the mainchain's decisions on M6s, in order
    broadcast,      \* the M6s the enforcer has been given
    anchor,         \* the point of the mainchain the last block covers
    upTo,           \* the point the block being executed covers
    cursor,         \* how many deposits the state being executed has behind it
    bank,           \* what the vault and the users have, and what is burned, in this block
    parentBank,     \* the same in the state of the last block
    bankBeforeCall  \* the same when the lifecycle call started

mainchain == <<deposits, outcomes>>
pegVars == <<vars, mainchain, broadcast, anchor, upTo, cursor, bank, parentBank, bankBeforeCall>>

Point == [deposits : Nat, outcomes : Nat]
Tip == [deposits |-> Len(deposits), outcomes |-> Len(outcomes)]
Genesis == [deposits |-> 0, outcomes |-> 0]

PegInit ==
    /\ Init
    /\ deposits = <<>> /\ outcomes = <<>>
    /\ broadcast = {}
    /\ anchor = Genesis /\ upTo = Genesis /\ cursor = 0
    /\ bank = [vault |-> Reserve, users |-> 0, burned |-> 0]
    /\ parentBank = bank
    /\ bankBeforeCall = bank

-----------------------------------------------------------------------------
(* The mainchain.                                                         *)

M6Sats(m6id) == SumFunctionOnSet(Sats(parent), m6id.indices)

PaidOut == {k \in DOMAIN outcomes : outcomes[k].status = "Succeeded"}

Treasury ==
    SumFunction(deposits) - SumFunction([k \in PaidOut |-> M6Sats(outcomes[k].m6id)])

(* No deposit of coins that Bitcoin never issued: the reserve is sized    *)
(* after its cap.                                                         *)
MineDeposit(sats) ==
    /\ Len(deposits) < MaxDeposits
    /\ (Treasury + sats) * WeiPerSat <= Reserve
    /\ deposits' = Append(deposits, sats)
    /\ UNCHANGED <<vars, outcomes, broadcast, anchor, upTo, cursor,
                   bank, parentBank, bankBeforeCall>>

(* The vote on an M6 ends, once; a payout spends the treasury.            *)
MineOutcome(m6id, status) ==
    /\ Len(outcomes) < MaxOutcomes
    /\ \A k \in DOMAIN outcomes : outcomes[k].m6id # m6id
    /\ status = "Succeeded" => M6Sats(m6id) <= Treasury
    /\ outcomes' = Append(outcomes, [m6id |-> m6id, status |-> status])
    /\ UNCHANGED <<vars, deposits, broadcast, anchor, upTo, cursor,
                   bank, parentBank, bankBeforeCall>>

-----------------------------------------------------------------------------
NewBundle == Oldest(parent, BundleCapacity)

(* A bug the properties must notice, not the code: a range that includes  *)
(* the block it starts at.                                                *)
BuildBlockInclusive ==
    /\ StartBlock
    /\ upTo' = Tip
    /\ cursor' = IF cursor > 0 THEN cursor - 1 ELSE 0
    /\ UNCHANGED <<mainchain, broadcast, anchor, bank, parentBank, bankBeforeCall>>

(***************************************************************************)
(* A block: the builder stamps the tip it covers the mainchain up to and  *)
(* broadcasts the M6 the block is about to assign.                        *)
(***************************************************************************)
BuildBlock ==
    /\ StartBlock
    /\ upTo' = Tip
    /\ broadcast' = broadcast \cup
         (IF NewBundle = {} THEN {} ELSE {NewM6id(NewBundle, height')})
    /\ UNCHANGED <<mainchain, anchor, cursor, bank, parentBank, bankBeforeCall>>

AtNextDeposit == phase = "deposits" /\ cursor < upTo.deposits

CreditWei == deposits[cursor + 1] * WeiPerSat

(* systemCreditDeposits, the recipient accepts; its code runs next.       *)
CreditDeposit ==
    /\ AtNextDeposit
    /\ CreditWei <= bank.vault
    /\ bank' = [bank EXCEPT !.vault = @ - CreditWei, !.users = @ + CreditWei]
    /\ cursor' = cursor + 1
    /\ UNCHANGED <<vars, mainchain, broadcast, anchor, upTo, parentBank, bankBeforeCall>>

(* The recipient rejects it, or the vault cannot pay: it is not retried.  *)
RejectDeposit ==
    /\ AtNextDeposit
    /\ cursor' = cursor + 1
    /\ UNCHANGED <<vars, mainchain, broadcast, anchor, upTo, bank, parentBank, bankBeforeCall>>

(* The call runs out of gas: no deposit of the range is ever credited.    *)
DepositCallHalts ==
    /\ AtNextDeposit
    /\ DepositsHalt
    /\ cursor' = upTo.deposits
    /\ bank' = parentBank
    /\ UNCHANGED <<mainchain, broadcast, anchor, upTo, parentBank, bankBeforeCall>>

UserRequests(msgValue, mainFeeSats) ==
    /\ RequestWithdrawal(msgValue, mainFeeSats)
    /\ msgValue <= bank.users
    /\ bank' = [bank EXCEPT !.users = @ - msgValue]
    /\ UNCHANGED <<mainchain, broadcast, anchor, upTo, cursor, parentBank, bankBeforeCall>>

(***************************************************************************)
(* The outcomes of the block's range.  One for an M6 that no request of   *)
(* the parent state carries matches nothing, whichever M6 it is.          *)
(***************************************************************************)
Known(outcome) ==
    IF outcome.m6id \in KnownM6ids THEN outcome ELSE [outcome EXCEPT !.m6id = NoBundle]

RangeOutcomes ==
    [k \in 1 .. upTo.outcomes - anchor.outcomes |-> Known(outcomes[anchor.outcomes + k])]

ReportRange ==
    /\ ~AtNextDeposit
    /\ ReportLifecycle(NewBundle, RangeOutcomes)
    /\ bankBeforeCall' = bank
    /\ UNCHANGED <<mainchain, broadcast, anchor, upTo, cursor, bank, parentBank>>

(* The require of loop 3 cannot fail here: an M6 is decided once.          *)
Refund(job) ==
    /\ \/ /\ RefundAccepted(job)
          /\ bank' = [bank EXCEPT !.users = @ + AmountWei(queue.requests[job[2]])]
       \/ /\ RefundRejected(job)
          /\ UNCHANGED bank
    /\ UNCHANGED <<mainchain, broadcast, anchor, upTo, cursor, parentBank, bankBeforeCall>>

CallBundles ==
    \E i \in Queued(queue) : /\ queue.requests[i].status = "Bundled"
                             /\ beforeCall.requests[i].status = "Pending"

(* A call that is undone gives the coins back as well.                    *)
LifecycleCallHalts ==
    /\ GasSuffices => ~CallBundles
    /\ LifecycleHalts
    /\ bank' = bankBeforeCall
    /\ UNCHANGED <<mainchain, broadcast, anchor, upTo, cursor, parentBank, bankBeforeCall>>

LifecycleCallGoesOn ==
    /\ CalleeReturns \/ LifecycleReturns
    /\ UNCHANGED <<mainchain, broadcast, anchor, upTo, cursor, bank, parentBank, bankBeforeCall>>

(* The base fees of the block's transactions are burned.                  *)
Seal ==
    /\ SealBlock
    /\ anchor' = upTo
    /\ \E burnt \in BaseFees :
          /\ burnt <= bank.users
          /\ bank' = [bank EXCEPT !.users = @ - burnt, !.burned = @ + burnt]
    /\ parentBank' = bank'
    /\ UNCHANGED <<mainchain, broadcast, upTo, cursor, bankBeforeCall>>

Abandon ==
    /\ AbandonBlock
    /\ upTo' = anchor
    /\ cursor' = anchor.deposits
    /\ bank' = parentBank
    /\ UNCHANGED <<mainchain, broadcast, anchor, parentBank, bankBeforeCall>>

PegNext ==
    \/ \E sats \in DepositSats : MineDeposit(sats)
    \/ \E m6id \in broadcast, status \in {"Succeeded", "Failed"} : MineOutcome(m6id, status)
    \/ BuildBlock
    \/ CreditDeposit
    \/ RejectDeposit
    \/ DepositCallHalts
    \/ \E msgValue \in MsgValue, mainFeeSats \in MainFeeSats :
          UserRequests(msgValue, mainFeeSats)
    \/ ReportRange
    \/ \E job \in todo : Refund(job)
    \/ LifecycleCallHalts
    \/ LifecycleCallGoesOn
    \/ Seal
    \/ Abandon

PegSpec == PegInit /\ [][PegNext]_pegVars

-----------------------------------------------------------------------------
Balances == [vault : Nat, users : Nat, burned : Nat]

(* Every variable has its type.                                           *)
PegTypeOK ==
    /\ TypeOK
    /\ deposits \in Seq(DepositSats)
    /\ outcomes \in Seq([m6id : broadcast, status : {"Succeeded", "Failed"}])
    /\ broadcast \subseteq M6id
    /\ anchor \in Point /\ upTo \in Point
    /\ cursor \in Nat
    /\ bank \in Balances /\ parentBank \in Balances /\ bankBeforeCall \in Balances

(***************************************************************************)
(* The two system calls only move coins, and a block burns what its users *)
(* pay: vault, queue, users and the burned coins together are the reserve *)
(* at every point of a block, also after a call or a block was undone     *)
(* (which restores the coins and the queue's books from the same point).  *)
(***************************************************************************)
SupplyFixed == bank.vault + bank.users + bank.burned + queue.balance = Reserve

(***************************************************************************)
(* What the mainchain still owes users: the requests in play whose M6 was *)
(* not paid out, and the deposits no block has covered yet.               *)
(***************************************************************************)
PaidRequests == UNION {outcomes[k].m6id.indices : k \in PaidOut}

Owed == {i \in Queued(queue) : /\ queue.requests[i].status \in {"Pending", "Bundled"}
                               /\ i \notin PaidRequests}

OwedWei ==
    WeiPerSat * SumFunctionOnSet(Sats(queue), Owed)

UncreditedWei ==
    WeiPerSat * SumFunctionOnSet(deposits, cursor + 1 .. Len(deposits))

(* The coins that left the vault and were not locked up again: what users *)
(* hold, and what they burned.                                            *)
Issued(balances) == balances.users + balances.burned

(***************************************************************************)
(* The treasury covers all coins users hold or burned, have asked back or *)
(* are about to be credited, whatever fails on the way: a rejected credit,*)
(* a rejected refund, an undone call, an outcome missed or still to come. *)
(* Assumes GasSuffices (README, halted_call).                             *)
(***************************************************************************)
Solvent == Issued(bank) + OwedWei + UncreditedWei <= Treasury * WeiPerSat

(***************************************************************************)
(* The vault is never refilled: coins withdrawn stay in the queue for     *)
(* good.  So it may be short of the deposits to come, but only by coins   *)
(* that are stuck in the queue with nobody to claim them.                 *)
(* (systemCreditDeposits of DepositVault.sol; Confirmed in the queue.)    *)
(***************************************************************************)
VaultCovers == UncreditedWei <= bank.vault + (queue.balance - OwedWei)

(***************************************************************************)
(* Every request the refund loop is still to reach is Bundled: the        *)
(* require of loop 3 never undoes the call, however the decisions on M6s  *)
(* fall into the ranges of blocks.                                        *)
(***************************************************************************)
RefundsGoThrough == \A job \in todo : StillBundled(job[2])
=============================================================================
