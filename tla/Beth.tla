--------------------------------- MODULE Beth ---------------------------------
(***************************************************************************)
(* The whole of one sidechain node: the payload builder (src/payload.rs), *)
(* block execution (src/evm.rs), the consensus check (src/consensus.rs),  *)
(* the enforcer and the mainchain beneath them, and the loop that mines   *)
(* blocks, scripts/bmm-mine.sh.  reth's engine API is modelled from how   *)
(* that loop uses it.                                                     *)
(*                                                                        *)
(* The loop asks for a payload on top of HEAD, bids for it on the         *)
(* mainchain, has a mainchain block mined, submits the payload, advances  *)
(* the head and records it in a file.  Between its steps other miners     *)
(* find blocks, RPCs fail, the enforcer lags behind and the loop is       *)
(* killed and restarted; `Faults' says which of these happen in a run,    *)
(* and MaxFaults how often.                                               *)
(*                                                                        *)
(* Building a payload is one step: everything it reads of the mainchain   *)
(* after the tip lies on the path of that tip, and does not change.       *)
(***************************************************************************)
EXTENDS BlockExecution

CONSTANTS
    Faults,         \* the faults that happen (model input): see Fault
    MaxFaults,      \* bound on the faults of a behaviour (model bound)
    MaxLost         \* bound on the blocks a node loses at once (model bound)

Fault ==
    {"otherMiner", "lag", "lostBroadcast", "rpcFails", "crash", "nodeCrash", "stall"}

ASSUME BethAssumption ==
    Faults \subseteq Fault /\ MaxFaults \in Nat /\ MaxLost \in Nat

VARIABLES
    side,           \* the sidechain blocks built so far
    accepted,       \* those the node found valid, and genesis
    head,           \* the head of the node's canonical chain
    pc,             \* the step the loop is at
    payload,        \* the block it is working on
    HEAD,           \* the block it builds on
    headFile,       \* what .bmm-head holds, 0 when there is no file
    faults          \* how many faults happened

nodeVars == <<side, accepted, head>>
loopVars == <<pc, payload, HEAD, headFile>>
vars == <<enforcerVars, nodeVars, loopVars, faults>>

(* A sidechain block is its position in `side'; its number is the length  *)
(* of its path.  Genesis is 0: no extraData, so no anchor.                *)
Genesis == 0
Block(b) ==
    IF b = Genesis
    THEN [path |-> <<>>, anchor |-> NoBlock, newRequests |-> 0, halted |-> FALSE,
          state |-> GenesisState]
    ELSE side[b]

Number(b) == Len(Block(b).path)
Descends(b, a) == IsPrefix(Block(a).path, Block(b).path)

(* The loop runs for the first time, and has funded the wallet.           *)
Init ==
    /\ EnforcerInit
    /\ side = <<>>
    /\ accepted = {Genesis}
    /\ head = Genesis
    /\ pc = "build"
    /\ payload = Genesis
    /\ HEAD = Genesis
    /\ headFile = 0
    /\ faults = 0

FaultIf(happens, kind) ==
    IF happens
    THEN kind \in Faults /\ faults < MaxFaults /\ faults' = faults + 1
    ELSE UNCHANGED faults

-----------------------------------------------------------------------------
(***************************************************************************)
(* How many of the requests users have sent the payload of a build holds: *)
(* any number.  The loop gives the build job two seconds when it sees      *)
(* something pending in the pool, and none when it sees nothing, or gets  *)
(* no answer; the job may need longer, and getPayload is then answered    *)
(* with the empty payload (RaceEmptyPayload).                             *)
(***************************************************************************)
Included(b) == 0 .. MaxRequests - Block(b).state.requestCount

(***************************************************************************)
(* forkchoiceUpdated with attributes, and getPayload.  A client starts no *)
(* build on a block it does not have, nor on one its canonical chain has  *)
(* already gone past.                                                     *)
(* The builder stamps the tip, broadcasts the bundle its parent's state   *)
(* yields, whatever becomes of the payload and of the broadcast, and      *)
(* executes; when that fails there is no payload and the loop starts over.*)
(***************************************************************************)
BuildsOnHead == HEAD \in accepted /\ (head = HEAD \/ ~Descends(head, HEAD))

(* A bug the properties must notice, not the code: the height counts      *)
(* payloads, or is the parent's.                                          *)
NextBundleByPayload(b) == NewM6id(Select(Block(b).state), Len(side) + 1)
NextBundleOfParent(b) == NewM6id(Select(Block(b).state), Number(b))

NextBundle(b) == NewM6id(Select(Block(b).state), Number(b) + 1)

Broadcast(b, lost) ==
    IF Select(Block(b).state) = {} \/ lost
    THEN UNCHANGED wallet
    ELSE BroadcastWithdrawalBundle(NextBundle(b))

(* Whether the lifecycle call runs out of gas: one more thing execution   *)
(* decides, in the same way for whoever executes the block.               *)
Halts(parent, anchor) ==
    IF MayHalt(Block(parent).state, WithdrawalBundleEvents(Block(parent).anchor, anchor))
    THEN BOOLEAN ELSE {FALSE}

BuildPayload(parent, anchor, newRequests, halted) ==
    [path        |-> Append(Block(parent).path, Len(side) + 1),
     anchor      |-> anchor,
     newRequests |-> newRequests,
     halted      |-> halted,
     state       |-> Execute(Block(parent).state, Number(parent) + 1,
                             Block(parent).anchor, anchor, newRequests, halted)]

Build(lost) ==
    /\ pc = "build" /\ BuildsOnHead
    /\ head' = HEAD
    /\ lost => Select(Block(HEAD).state) # {}
    /\ Broadcast(HEAD, lost)
    /\ FaultIf(lost, "lostBroadcast")
    /\ IF Executable(Block(HEAD).anchor, ChainTip)
         THEN /\ \E newRequests \in Included(HEAD), halted \in Halts(HEAD, ChainTip) :
                    side' = Append(side, BuildPayload(HEAD, ChainTip, newRequests, halted))
              /\ payload' = Len(side) + 1
              /\ pc' = "bid"
         ELSE UNCHANGED <<side, payload, pc>>
    /\ UNCHANGED <<main, best, tip, bids, accepted, HEAD, headFile>>

(* No payloadId: the loop sleeps and asks again.                          *)
Skip == pc = "build" /\ ~BuildsOnHead /\ UNCHANGED vars

-----------------------------------------------------------------------------
(* CreateBmmCriticalDataTransaction, with the payload's extraData.  A bid *)
(* left over from an earlier round is left alone, and mined.              *)
Bid ==
    LET prev == Block(payload).anchor IN
    /\ pc = "bid"
    /\ \/ BidAccepted(prev) /\ PlaceBid(payload, prev) /\ pc' = "mine"
       \/ BidAlreadyExists(prev) /\ UNCHANGED bids /\ pc' = "mine"
       \/ ~BidAccepted(prev) /\ ~BidAlreadyExists(prev) /\ UNCHANGED bids /\ pc' = "build"
    /\ UNCHANGED <<main, best, tip, wallet, nodeVars, payload, HEAD, headFile, faults>>

Mine(lagging) ==
    /\ pc = "mine"
    /\ GenerateToAddress(lagging)
    /\ pc' = "import"
    /\ FaultIf(lagging, "lag")
    /\ UNCHANGED <<nodeVars, payload, HEAD, headFile>>

(***************************************************************************)
(* The enforcer trips over a stale bid, and no block it makes is valid    *)
(* again: every later round of the loop ends here ("mining the confirming *)
(* block failed"), restarted or not.  Those rounds are not modelled.      *)
(***************************************************************************)
EnforcerStalls ==
    /\ pc = "mine" /\ StaleBid
    /\ FaultIf(TRUE, "stall")
    /\ pc' = "stalled"
    /\ UNCHANGED <<enforcerVars, nodeVars, payload, HEAD, headFile>>

Stalled == pc = "stalled" /\ UNCHANGED vars

(***************************************************************************)
(* newPayload: the node must have the parent, the header must be          *)
(* committed (Bip300301Consensus), and executing the block must leave the *)
(* state it declares.                                                     *)
(***************************************************************************)
Parent(b) ==
    LET path == Block(b).path IN IF Len(path) = 1 THEN Genesis ELSE path[Len(path) - 1]

Valid(b) ==
    LET block  == Block(b)
        parent == Block(Parent(b))
    IN  /\ Parent(b) \in accepted
        /\ IsCommitted(b)
        /\ Executable(parent.anchor, block.anchor)
        /\ block.state = Execute(parent.state, Len(parent.path) + 1,
                                 parent.anchor, block.anchor, block.newRequests, block.halted)

(* A bug the properties must notice, not the code: the status newPayload  *)
(* answers is not looked at.                                              *)
NewPayloadUnchecked ==
    /\ pc = "import"
    /\ accepted' = IF Valid(payload) THEN accepted \cup {payload} ELSE accepted
    /\ pc' = "advance"
    /\ UNCHANGED <<enforcerVars, side, head, payload, HEAD, headFile, faults>>

NewPayload ==
    /\ pc = "import"
    /\ IF Valid(payload)
         THEN accepted' = accepted \cup {payload} /\ pc' = "advance"
         ELSE UNCHANGED accepted /\ pc' = "build"
    /\ UNCHANGED <<enforcerVars, side, head, payload, HEAD, headFile, faults>>

(* forkchoiceUpdated; its answer is not looked at.                        *)
Advance ==
    /\ pc = "advance"
    /\ head' = IF payload \in accepted THEN payload ELSE head
    /\ pc' = "save"
    /\ UNCHANGED <<enforcerVars, side, accepted, payload, HEAD, headFile, faults>>

(* A bug the properties must notice, not the code: the new head is only   *)
(* written to the file.                                                   *)
SaveHeadFileOnly ==
    /\ pc = "save"
    /\ headFile' = payload
    /\ pc' = "build"
    /\ UNCHANGED <<enforcerVars, nodeVars, payload, HEAD, faults>>

SaveHead ==
    /\ pc = "save"
    /\ HEAD' = payload
    /\ headFile' = payload
    /\ pc' = "build"
    /\ UNCHANGED <<enforcerVars, nodeVars, payload, faults>>

(***************************************************************************)
(* An RPC fails.  The execution of a build fails after the broadcast; a   *)
(* bid that got no answer reads as an accepted one, one that the wallet   *)
(* cannot pay for is refused; the mainchain block, or the import, may or  *)
(* may not have gone through; and the answer to the last                  *)
(* forkchoiceUpdated is not looked at.                                    *)
(***************************************************************************)
RpcFails ==
    /\ FaultIf(TRUE, "rpcFails")
    /\ \/ /\ pc = "build" /\ BuildsOnHead
          /\ head' = HEAD
          /\ Broadcast(HEAD, FALSE)
          /\ UNCHANGED <<main, best, tip, bids, side, accepted, pc>>
       \/ /\ pc = "bid" /\ pc' \in {"mine", "build"}
          /\ UNCHANGED <<enforcerVars, nodeVars>>
       \/ /\ pc = "mine" /\ pc' = "build"
          /\ UNCHANGED nodeVars
          /\ UNCHANGED enforcerVars \/ GenerateToAddress(FALSE)
       \/ /\ pc = "import" /\ pc' = "build"
          /\ accepted' = accepted \/ (Valid(payload) /\ accepted' = accepted \cup {payload})
          /\ UNCHANGED <<enforcerVars, side, head>>
       \/ /\ pc = "advance" /\ pc' = "save"
          /\ UNCHANGED <<enforcerVars, nodeVars>>
    /\ UNCHANGED <<payload, HEAD, headFile>>

(* The loop is stopped, at any point, to be started again.                *)
Restart ==
    /\ pc # "stalled"
    /\ FaultIf(TRUE, "crash")
    /\ pc' = "start"
    /\ UNCHANGED <<enforcerVars, nodeVars, payload, HEAD, headFile>>

(***************************************************************************)
(* The loop starts: it funds the enforcer's wallet with the rewards of a  *)
(* hundred mainchain blocks (one, here), and validate_head makes the      *)
(* recorded block the head unless the canonical chain holds it; without a *)
(* file, or when the node does not know that block, the node's latest     *)
(* block is taken.                                                        *)
(***************************************************************************)
Start ==
    /\ pc = "start" /\ pc' = "build"
    /\ FundWallet
    /\ HEAD' = IF headFile # 0 /\ headFile \in accepted THEN headFile ELSE head
    /\ head' = IF Descends(head, HEAD') THEN head ELSE HEAD'
    /\ UNCHANGED <<side, accepted, payload, headFile, faults>>

(***************************************************************************)
(* The node is killed and started again without the last blocks, which it *)
(* had only in memory; the loop does not notice.                          *)
(***************************************************************************)
NodeRestarts ==
    /\ FaultIf(TRUE, "nodeCrash")
    /\ \E lost \in 1 .. MaxLost :
          /\ lost <= Number(head)
          /\ head' = (<<Genesis>> \o Block(head).path)[Number(head) + 1 - lost]
    /\ accepted' = {b \in accepted : Descends(head', b)}
    /\ UNCHANGED <<enforcerVars, side, loopVars>>

OtherMiner(lagging) ==
    /\ FaultIf(TRUE, "otherMiner")
    /\ lagging => "lag" \in Faults
    /\ MineElsewhere(lagging)
    /\ UNCHANGED <<nodeVars, loopVars>>

EnforcerSyncs == Sync /\ UNCHANGED <<nodeVars, loopVars, faults>>

-----------------------------------------------------------------------------
(* What the loop does when nothing goes wrong in its own steps.           *)
Loop ==
    \/ Start
    \/ Build(FALSE)
    \/ Bid
    \/ Mine(FALSE)
    \/ NewPayload
    \/ Advance
    \/ SaveHead

Next ==
    \/ Loop
    \/ EnforcerSyncs
    \/ Skip
    \/ Build(TRUE)
    \/ Mine(TRUE)
    \/ EnforcerStalls
    \/ Stalled
    \/ RpcFails
    \/ Restart
    \/ NodeRestarts
    \/ \E lagging \in BOOLEAN : OtherMiner(lagging)

Spec == Init /\ [][Next]_vars

(***************************************************************************)
(* The script loops for ever without waiting on anything, and the         *)
(* enforcer follows bitcoind by itself.                                   *)
(***************************************************************************)
Fairness == WF_vars(Loop) /\ WF_vars(EnforcerSyncs)
FairSpec == Spec /\ Fairness

-----------------------------------------------------------------------------
(* Every variable has its type, and the loop builds on a block the node   *)
(* accepted, unless the node has lost blocks since.                       *)
MainBlock ==
    [path    : Seq(1 .. MaxMain),
     bmm     : 0 .. Len(side),
     deposit : Deposit,
     outcome : {NoOutcome} \cup [m6id : wallet, status : {"Succeeded", "Failed"}]]

SideBlock ==
    [path        : Seq(1 .. Len(side)),
     anchor      : 1 .. Len(main),
     newRequests : 0 .. MaxRequests,
     halted      : BOOLEAN,
     state       : ChainState]

TypeOK ==
    /\ main \in Seq(MainBlock) /\ Len(main) \in 1 .. MaxMain
    /\ best \in 1 .. Len(main) /\ tip \in 1 .. Len(main)
    /\ bids \in [1 .. MaxMain -> 0 .. Len(side)]
    /\ wallet \subseteq M6id
    /\ side \in Seq(SideBlock)
    /\ accepted \subseteq 0 .. Len(side)
    /\ head \in accepted
    /\ {payload, HEAD, headFile} \subseteq 0 .. Len(side)
    /\ "nodeCrash" \in Faults \/ {HEAD, headFile} \subseteq accepted
    /\ pc \in {"start", "build", "bid", "mine", "import", "advance", "save", "stalled"}
    /\ faults \in 0 .. MaxFaults

(***************************************************************************)
(* Every deposit is handed to the vault exactly once, in mainchain order: *)
(* a block's state has all deposits up to its anchor behind it, whichever *)
(* rounds failed, blocks were skipped or mainchain blocks were orphaned   *)
(* on the way.  (The ranges of src/evm.rs:303-310 tile the mainchain.)    *)
(***************************************************************************)
DepositsOnce ==
    \A b \in 1 .. Len(side) :
        side[b].state.handed = Keep(Path(side[b].anchor), WithDeposit)

(***************************************************************************)
(* What the sidechain says of a bundled request is what the mainchain     *)
(* said of its M6 to the blocks after the one that bundled it: Confirmed  *)
(* after a Succeeded, Refunded after a Failed, Bundled until then.  Only  *)
(* a block whose lifecycle call ran out of gas did not listen.            *)
(***************************************************************************)
RangeOf(b) == BlocksAfter(Block(Parent(b)).anchor, Block(b).anchor)

Hears(b, outcome) ==
    ~Block(b).halted /\ \E m \in ToSet(RangeOf(b)) : main[m].outcome = outcome

Reported(b, m6id, status) ==
    \E n \in m6id.height + 1 .. Number(b) :
        Hears(Block(b).path[n], [m6id |-> m6id, status |-> status])

StatusFollowsMainchain ==
    \A b \in accepted \ {Genesis}, i \in Index :
        LET request == Block(b).state.requests[i]
            m6id    == request.bundleM6id
        IN  request.status # "Pending" =>
                request.status = CASE Reported(b, m6id, "Succeeded") -> "Confirmed"
                                   [] Reported(b, m6id, "Failed")    -> "Refunded"
                                   [] OTHER                          -> "Bundled"

(***************************************************************************)
(* No two M6s the enforcer was given consume the same request: whatever   *)
(* payloads were built in vain before, a withdrawal is not paid twice.    *)
(* Assumes a node that keeps its blocks and calls that have the gas to    *)
(* bundle (README, section 5, and the run halted_call).                   *)
(***************************************************************************)
NoDoublePayout ==
    \A a, b \in wallet : a # b => a.indices \cap b.indices = {}

(***************************************************************************)
(* The commitment to an accepted block sits in a child of the mainchain   *)
(* block it is anchored to, although is_committed does not look there.    *)
(***************************************************************************)
CommittedAfterAnchor ==
    \A b \in accepted \ {Genesis} :
        \E m \in 2 .. Len(main) :
            /\ main[m].bmm = b
            /\ main[m].path[Len(main[m].path) - 1] = side[b].anchor

(***************************************************************************)
(* The on-chain lifecycle does not depend on the broadcast being          *)
(* delivered (src/payload.rs:108-110): a request that an accepted block   *)
(* bundled is in an M6 the enforcer knows, so its vote can end.           *)
(***************************************************************************)
BundledIsKnown ==
    \A b \in accepted, i \in Index :
        Block(b).state.requests[i].status = "Bundled" =>
            Block(b).state.requests[i].bundleM6id \in wallet

(***************************************************************************)
(* "On beth's next block" after the enforcer pays a bundle out,           *)
(* systemReportBundleLifecycle marks its requests Confirmed               *)
(* (scripts/test-withdrawal.sh:22-24): a block anchored to a mainchain    *)
(* path with the payout does not leave them Bundled.                      *)
(***************************************************************************)
SettledByNextBlock ==
    \A b \in accepted, i \in Index :
        LET request == Block(b).state.requests[i] IN
        request.status = "Bundled" =>
            \A m \in ToSet(Path(Block(b).anchor)) :
                main[m].outcome # [m6id |-> request.bundleM6id, status |-> "Succeeded"]

(***************************************************************************)
(* On its next block, every node credits the deposits the enforcer        *)
(* reports (README.md:17-20), and a deposit that cannot be credited does  *)
(* not keep others from it (contracts/DepositVault.sol:28-30): as long as *)
(* the mainchain only grows, the head can be built on.                    *)
(***************************************************************************)
NextBlockCredits ==
    IsAncestor(Block(head).anchor, tip) => Executable(Block(head).anchor, tip)

(***************************************************************************)
(* The loop makes progress: lost races, a bid whose block failed to be    *)
(* mined, an empty payload and a lagging enforcer cost rounds, but blocks *)
(* get accepted and become the head, as long as the enforcer does not     *)
(* stall (README, section 5).  Stopping and restarting the loop is safe   *)
(* too (scripts/bmm-mine.sh:9-11).                                        *)
(***************************************************************************)
KeepsProducing == <>(Number(head) >= 3)
=============================================================================
