------------------------------- MODULE Enforcer -------------------------------
(***************************************************************************)
(* The mainchain as the sidechain sees it: bitcoind's block tree, the     *)
(* BIP300/301 enforcer beside it (both outside src/), and the queries     *)
(* src/enforcer.rs makes of the enforcer.                                 *)
(*                                                                        *)
(* A mainchain block is its position in `main', the order in which blocks *)
(* were found.  Block 1 is the one that activated the sidechain; 0 stands *)
(* for no block.  A block knows its path from block 1, the sidechain      *)
(* block it commits to (its BMM commitment), and carries one deposit and  *)
(* one bundle outcome at most.  What the enforcer answers about a path    *)
(* never changes, only which path is the best one.                        *)
(***************************************************************************)
EXTENDS Naturals, Sequences, SequencesExt

CONSTANTS
    Window,         \* BMM_COMMITMENT_SEARCH_ANCESTORS
    DepositKinds,   \* what a block may deposit (model input): see Deposit
    OutcomeStatus,  \* how the vote on a bundle may end (model input)
    MaxMain         \* bound on the mainchain blocks found (model bound)

(* A deposit's destination is any string: it may not be an address.       *)
Deposit == {"none", "good", "malformed"}

ASSUME EnforcerAssumption ==
    /\ Window \in Nat
    /\ DepositKinds \subseteq Deposit
    /\ OutcomeStatus \subseteq {"Succeeded", "Failed"}
    /\ MaxMain \in Nat \ {0}

VARIABLES
    main,           \* the mainchain blocks
    best,           \* bitcoind's best block
    tip,            \* the best block the enforcer has processed so far
    bids,           \* BMM bids: the sidechain block bid for on top of each block, or 0
    wallet          \* the M6s the enforcer's wallet was given

enforcerVars == <<main, best, tip, bids, wallet>>

NoBlock == 0
NoOutcome == [status |-> "none"]

EnforcerInit ==
    /\ main = <<[path |-> <<1>>, bmm |-> 0, deposit |-> "none", outcome |-> NoOutcome]>>
    /\ best = 1
    /\ tip = 1
    /\ bids = [m \in 1 .. MaxMain |-> 0]
    /\ wallet = {}

Path(m) == IF m = NoBlock THEN <<>> ELSE main[m].path
IsAncestor(a, m) == IsPrefix(Path(a), Path(m))

-----------------------------------------------------------------------------
(* The queries of src/enforcer.rs.                                        *)

ChainTip == tip

(* A bug the properties must notice, not the code: any commitment of the  *)
(* sidechain will do.                                                     *)
IsAnythingCommitted(sideBlock) ==
    LET path == Path(tip) IN
    \E n \in DOMAIN path : n + Window >= Len(path) /\ main[path[n]].bmm # 0

(***************************************************************************)
(* is_committed: the BMM commitments of the tip and its last Window        *)
(* ancestors.  Its argument main_block_hash is only logged.               *)
(***************************************************************************)
IsCommitted(sideBlock) ==
    LET path == Path(tip) IN
    \E n \in DOMAIN path : n + Window >= Len(path) /\ main[path[n]].bmm = sideBlock

(* The blocks after `start' up to and including `end', oldest first; from *)
(* the beginning when start is NoBlock.                                   *)
BlocksAfter(start, end) ==
    SubSeq(Path(end), Len(Path(start)) + 1, Len(Path(end)))

(* A bug the properties must notice, not the code: the enforcer answers   *)
(* for blocks it does not relate.                                         *)
RangeAssumed(start, end) == TRUE

(***************************************************************************)
(* Both range queries fail when `start' is not an ancestor of `end';      *)
(* deposits also fails when one destination in the range does not parse.  *)
(***************************************************************************)
RangeKnown(start, end) == IsAncestor(start, end)

DepositsReadable(start, end) ==
    /\ RangeKnown(start, end)
    /\ \A m \in ToSet(BlocksAfter(start, end)) : main[m].deposit # "malformed"

(* The blocks of a list that are in a set, in the order of the list       *)
(* (SelectSeq, as a recursive function, which can be reasoned about).     *)
Keep(blocks, kept) ==
    LET Kept[n \in 0 .. Len(blocks)] ==
            IF n = 0 THEN <<>>
            ELSE IF blocks[n] \in kept THEN Append(Kept[n - 1], blocks[n])
            ELSE Kept[n - 1]
    IN  Kept[Len(blocks)]

WithDeposit == {m \in 1 .. Len(main) : main[m].deposit # "none"}
WithOutcome == {m \in 1 .. Len(main) : main[m].outcome # NoOutcome}

(* A deposit is named by the block that carries it.                       *)
Deposits(start, end) == Keep(BlocksAfter(start, end), WithDeposit)

WithdrawalBundleEvents(start, end) ==
    LET blocks == Keep(BlocksAfter(start, end), WithOutcome)
    IN  [n \in DOMAIN blocks |-> main[blocks[n]].outcome]

(* broadcast_withdrawal_bundle.                                           *)
BroadcastWithdrawalBundle(m6id) == wallet' = wallet \cup {m6id}

-----------------------------------------------------------------------------
(* The enforcer's wallet: bids.                                           *)

(* A bid is for the child of the block it names, so that must be the tip. *)
BidAccepted(prev) == prev = tip /\ bids[prev] = 0
BidAlreadyExists(prev) == prev = tip /\ bids[prev] # 0

PlaceBid(sideBlock, prev) == bids' = [bids EXCEPT ![prev] = sideBlock]

-----------------------------------------------------------------------------
(***************************************************************************)
(* Mining.  A block may carry a deposit, and the end of the vote on one   *)
(* M6 the wallet was given: no M6 ends twice on one path.  The new block  *)
(* becomes the best one if its path is the longest; the enforcer notices  *)
(* at once, or (lagging) only when it next syncs.                         *)
(***************************************************************************)
Undecided(parent) ==
    {m6id \in wallet : \A m \in ToSet(Path(parent)) :
                           main[m].outcome = NoOutcome \/ main[m].outcome.m6id # m6id}

Outcomes(parent) ==
    {NoOutcome} \cup {[m6id |-> m6id, status |-> s] : m6id \in Undecided(parent), s \in OutcomeStatus}

MineBlock(parent, bmm, lagging) ==
    LET new  == Len(main) + 1
        path == Append(Path(parent), new)
    IN  /\ new <= MaxMain
        /\ \E deposit \in DepositKinds, outcome \in Outcomes(parent) :
              main' = Append(main, [path |-> path, bmm |-> bmm,
                                    deposit |-> deposit, outcome |-> outcome])
        /\ best' = IF Len(path) > Len(Path(best)) THEN new ELSE best
        /\ tip' = IF lagging THEN tip ELSE best'
        /\ UNCHANGED <<bids, wallet>>

(* MiningService.GenerateToAddress: the block accepts the bid there is.   *)
GenerateToAddress(lagging) == MineBlock(best, bids[best], lagging)

(* bitcoin-cli generatetoaddress: a block of bitcoind's own.              *)
FundWallet == \E bmm \in {0, bids[best]} : MineBlock(best, bmm, FALSE)

(***************************************************************************)
(* A bid that was superseded, by a block on which nobody bid, and lingers *)
(* in the mempool.  Under sustained load the enforcer may keep putting it *)
(* into its templates, each of which its own validator rejects            *)
(* (scripts/README.md, "The enforcer can stall under sustained load").    *)
(***************************************************************************)
StaleBid ==
    \E m \in DOMAIN bids \ {best} :
        bids[m] # 0 /\ \A c \in ToSet(Path(best)) : main[c].bmm # bids[m]

(* Somebody else finds a block, on the best one or beside it, and may     *)
(* include the bid.                                                       *)
MineElsewhere(lagging) ==
    \E parent \in 1 .. Len(main) :
        /\ Len(Path(parent)) + 1 >= Len(Path(best))
        /\ \E bmm \in {0, bids[parent]} : MineBlock(parent, bmm, lagging)

Sync ==
    /\ tip # best
    /\ tip' = best
    /\ UNCHANGED <<main, best, bids, wallet>>
=============================================================================
