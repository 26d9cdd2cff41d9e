------------------------------- MODULE BethProofs -------------------------------
(***************************************************************************)
(* Theorems about Beth, for every bound, every search window and every    *)
(* set of faults.                                                         *)
(***************************************************************************)
EXTENDS Beth, TLAPS

-----------------------------------------------------------------------------
(* A sequence, whatever it holds.                                         *)
Entries(s) == {s[i] : i \in 1 .. Len(s)}
IsSeq(s) == s \in Seq(Entries(s))

LEMMA AppendIsSeq ==
    ASSUME NEW s, IsSeq(s), NEW e
    PROVE  /\ IsSeq(Append(s, e))
           /\ Len(s) \in Nat
           /\ Len(Append(s, e)) = Len(s) + 1
           /\ \A i \in 1 .. Len(s) : Append(s, e)[i] = s[i]
           /\ Append(s, e)[Len(s) + 1] = e
<1> DEFINE S == Entries(s) \cup {e}
<1>1. s \in Seq(S) /\ e \in S
  BY DEF IsSeq
<1> HIDE DEF S
<1>2. /\ Append(s, e) \in Seq(S) /\ Len(s) \in Nat
      /\ Len(Append(s, e)) = Len(s) + 1
      /\ \A i \in 1 .. Len(s) : Append(s, e)[i] = s[i]
      /\ Append(s, e)[Len(s) + 1] = e
  BY <1>1
<1>3. \A i \in 1 .. Len(Append(s, e)) : Append(s, e)[i] \in Entries(Append(s, e))
  BY DEF Entries
<1>4. Append(s, e) \in Seq(Entries(Append(s, e)))
  BY <1>2, <1>3
<1> QED BY <1>2, <1>4 DEF IsSeq

-----------------------------------------------------------------------------
(***************************************************************************)
(* The invariant: where bids and commitments are.  A bid lies on the      *)
(* mainchain block its sidechain block is anchored to, whoever mines it   *)
(* and however late, so a commitment lies in a child of that block.       *)
(***************************************************************************)
MainPaths ==
    /\ IsSeq(main) /\ Len(main) \in 1 .. MaxMain
    /\ best \in 1 .. Len(main) /\ tip \in 1 .. Len(main)
    /\ \A m \in 1 .. Len(main) :
          /\ main[m].path \in Seq(1 .. Len(main))
          /\ Len(main[m].path) >= 1
          /\ main[m].path[Len(main[m].path)] = m

Anchored ==
    /\ IsSeq(side)
    /\ \A b \in 1 .. Len(side) : side[b].anchor \in 1 .. Len(main)

BidFor(b, p) == b = 0 \/ (b \in 1 .. Len(side) /\ side[b].anchor = p)

BidsAtAnchor ==
    /\ bids \in [1 .. MaxMain -> Nat]
    /\ \A p \in 1 .. MaxMain : BidFor(bids[p], p)

CommitsAfterAnchor ==
    \A m \in 1 .. Len(main) :
        \/ main[m].bmm = 0
        \/ Len(main[m].path) >= 2 /\ m >= 2 /\ BidFor(main[m].bmm, main[m].path[Len(main[m].path) - 1])

Committed(b) == \E m \in 1 .. Len(main) : main[m].bmm = b

CommitInv ==
    /\ MainPaths
    /\ Anchored
    /\ BidsAtAnchor
    /\ CommitsAfterAnchor
    /\ pc \notin {"start", "build"} => payload \in 1 .. Len(side)
    /\ \A b \in accepted : b = 0 \/ (b \in 1 .. Len(side) /\ Committed(b))

LEMMA InitCommit == Init => CommitInv
<1> SUFFICES ASSUME Init PROVE CommitInv
  OBVIOUS
<1>1. MainPaths /\ CommitsAfterAnchor
  <2>1. PICK first : main = <<first>> /\ first.path = <<1>> /\ first.bmm = 0
    <3>1. main = <<[path |-> <<1>>, bmm |-> 0, deposit |-> "none", outcome |-> NoOutcome]>>
      BY DEF Init, EnforcerInit
    <3> QED BY <3>1
  <2>2. Len(main) = 1 /\ main[1] = first /\ 1 .. 1 = {1}
    BY <2>1
  <2>3. IsSeq(main)
    BY <2>1, <2>2 DEF IsSeq, Entries
  <2>4. main[1].path \in Seq(1 .. Len(main)) /\ Len(main[1].path) = 1 /\ main[1].path[1] = 1
    <3>1. <<1>> \in Seq({1}) /\ Len(<<1>>) = 1 /\ <<1>>[1] = 1
      OBVIOUS
    <3>2. 1 .. Len(main) = {1} /\ main[1].path = <<1>>
      BY <2>1, <2>2
    <3> QED BY <3>1, <3>2
  <2>5. best \in 1 .. Len(main) /\ tip \in 1 .. Len(main) /\ Len(main) \in 1 .. MaxMain
    BY <2>2, EnforcerAssumption DEF Init, EnforcerInit
  <2> QED BY <2>1, <2>2, <2>3, <2>4, <2>5 DEF MainPaths, CommitsAfterAnchor
<1>2. Anchored /\ BidsAtAnchor
  BY DEF Init, EnforcerInit, Anchored, BidsAtAnchor, BidFor, IsSeq, Entries
<1> QED BY <1>1, <1>2 DEF Init, CommitInv, Genesis

(***************************************************************************)
(* A new mainchain block, with the bid of its parent or none.             *)
(***************************************************************************)
LEMMA MineCommit ==
    ASSUME CommitInv, NEW parent \in 1 .. Len(main), NEW bmm \in {0, bids[parent]},
           NEW lagging \in BOOLEAN, MineBlock(parent, bmm, lagging),
           UNCHANGED <<side, accepted>>, pc' \notin {"start", "build"} => payload' \in 1 .. Len(side)
    PROVE  CommitInv'
<1> DEFINE new == Len(main) + 1
           path == Append(Path(parent), new)
<1>1. /\ IsSeq(main) /\ Len(main) \in 1 .. MaxMain /\ MaxMain \in Nat
      /\ main[parent].path \in Seq(1 .. Len(main)) /\ Len(main[parent].path) >= 1
      /\ main[parent].path[Len(main[parent].path)] = parent
  BY EnforcerAssumption DEF CommitInv, MainPaths
<1>2. Path(parent) = main[parent].path
  BY <1>1 DEF Path, NoBlock
<1>3. PICK block : main' = Append(main, block) /\ block.path = path /\ block.bmm = bmm
  <2>1. PICK deposit, outcome : main' = Append(main, [path |-> path, bmm |-> bmm,
                                          deposit |-> deposit, outcome |-> outcome])
    BY DEF MineBlock
  <2> QED BY <2>1
<1>4. /\ IsSeq(main') /\ Len(main') = new /\ main'[new] = block
      /\ \A m \in 1 .. Len(main) : main'[m] = main[m]
      /\ 1 .. new = (1 .. Len(main)) \cup {new} /\ new \in Nat
  BY <1>1, <1>3, AppendIsSeq
<1>5. /\ path \in Seq(1 .. new) /\ Len(path) >= 2 /\ path[Len(path)] = new
      /\ path[Len(path) - 1] = parent
  <2> DEFINE p == main[parent].path
  <2> HIDE DEF p
  <2>1. p \in Seq(1 .. new) /\ new \in 1 .. new /\ Len(p) >= 1 /\ p[Len(p)] = parent
    BY <1>1, <1>4 DEF p
  <2>2. Append(p, new) \in Seq(1 .. new) /\ Len(Append(p, new)) = Len(p) + 1
        /\ Append(p, new)[Len(p) + 1] = new /\ Append(p, new)[Len(p)] = p[Len(p)]
    BY <2>1
  <2> QED BY <1>2, <2>1, <2>2 DEF p
<1> HIDE DEF new, path
<1>6. new <= MaxMain /\ UNCHANGED bids /\ best' \in {best, new} /\ tip' \in {tip, best, new}
  BY DEF MineBlock, new, path
<1>7. MainPaths'
  <2>1. \A m \in 1 .. Len(main) : main[m].path \in Seq(1 .. new)
    BY <1>4 DEF CommitInv, MainPaths, new
  <2>2. /\ Len(main') \in 1 .. MaxMain /\ IsSeq(main')
        /\ best' \in 1 .. Len(main') /\ tip' \in 1 .. Len(main')
    <3>1. best \in 1 .. Len(main) /\ tip \in 1 .. Len(main)
      BY DEF CommitInv, MainPaths
    <3>2. best' \in 1 .. new /\ tip' \in 1 .. new
      BY <1>4, <1>6, <3>1
    <3>3. new \in 1 .. MaxMain
      BY <1>1, <1>6 DEF new
    <3> QED BY <1>4, <3>2, <3>3
  <2>3. ASSUME NEW m \in 1 .. new
        PROVE  /\ main'[m].path \in Seq(1 .. new)
               /\ Len(main'[m].path) >= 1
               /\ main'[m].path[Len(main'[m].path)] = m
    <3>1. CASE m = new
      <4>1. main'[m].path = path
        BY <1>3, <1>4, <3>1
      <4>2. Len(path) \in Nat
        BY <1>5
      <4> QED BY <1>5, <3>1, <4>1, <4>2
    <3>2. CASE m \in 1 .. Len(main)
      BY <1>4, <2>1, <3>2 DEF CommitInv, MainPaths
    <3> QED BY <1>4, <3>1, <3>2
  <2> QED BY <1>4, <2>2, <2>3 DEF MainPaths, IsSeq, Entries
<1>8. Anchored'
  BY <1>1, <1>4 DEF CommitInv, Anchored
<1>9. BidsAtAnchor'
  BY <1>6 DEF CommitInv, BidsAtAnchor, BidFor
<1>10. BidFor(bmm, parent)
  BY <1>1 DEF CommitInv, BidsAtAnchor, BidFor
<1>11. CommitsAfterAnchor'
  <2> SUFFICES ASSUME NEW m \in 1 .. new
               PROVE  \/ main'[m].bmm = 0
                      \/ /\ Len(main'[m].path) >= 2 /\ m >= 2
                         /\ BidFor(main'[m].bmm, main'[m].path[Len(main'[m].path) - 1])
    BY <1>4 DEF CommitsAfterAnchor, BidFor
  <2>1. CASE m = new
    <3>1. main'[m].path = path /\ main'[m].bmm = bmm /\ m >= 2
      BY <1>1, <1>3, <1>4, <2>1 DEF new
    <3> QED BY <1>5, <1>10, <3>1
  <2>2. CASE m \in 1 .. Len(main)
    BY <1>4, <2>2 DEF CommitInv, CommitsAfterAnchor
  <2> QED BY <1>4, <2>1, <2>2
<1>12. \A b : Committed(b) => Committed(b)'
  BY <1>1, <1>4 DEF Committed
<1> QED BY <1>7, <1>8, <1>9, <1>11, <1>12 DEF CommitInv

(***************************************************************************)
(* is_committed only says so of a block some mainchain block commits to.  *)
(***************************************************************************)
LEMMA IsCommittedSound ==
    ASSUME CommitInv, NEW b, IsCommitted(b)
    PROVE  Committed(b)
<1>1. tip \in 1 .. Len(main) /\ tip # 0 /\ main[tip].path \in Seq(1 .. Len(main))
  BY DEF CommitInv, MainPaths
<1>2. Path(tip) = main[tip].path
  BY <1>1 DEF Path, NoBlock
<1>3. PICK n \in DOMAIN main[tip].path : main[main[tip].path[n]].bmm = b
  BY <1>2 DEF IsCommitted
<1>4. main[tip].path[n] \in 1 .. Len(main)
  BY <1>1
<1> QED BY <1>3, <1>4 DEF Committed

-----------------------------------------------------------------------------
(***************************************************************************)
(* The steps: most of them leave the mainchain, the payloads and the bids *)
(* alone, and accept nothing that is not committed.                       *)
(***************************************************************************)
LEMMA QuietCommit ==
    ASSUME CommitInv, UNCHANGED <<main, side, bids>>, best' \in {best, tip}, tip' \in {best, tip},
           \A b \in accepted' : b \in accepted \/ (b \in 1 .. Len(side) /\ Committed(b)),
           pc' \notin {"start", "build"} => payload' \in 1 .. Len(side)
    PROVE  CommitInv'
<1>1. MainPaths'
  BY DEF CommitInv, MainPaths, IsSeq, Entries
<1>2. Anchored'
  BY DEF CommitInv, Anchored, IsSeq, Entries
<1>3. BidsAtAnchor' /\ CommitsAfterAnchor'
  BY DEF CommitInv, BidsAtAnchor, CommitsAfterAnchor, BidFor
<1>4. \A b \in accepted' : b = 0 \/ (b \in 1 .. Len(side') /\ Committed(b)')
  BY DEF CommitInv, Committed
<1> QED BY <1>1, <1>2, <1>3, <1>4 DEF CommitInv

LEMMA BuildCommit ==
    ASSUME CommitInv, NEW lost \in BOOLEAN, Build(lost)
    PROVE  CommitInv'
<1>1. UNCHANGED <<main, best, tip, bids, accepted>>
  BY DEF Build
<1>2. CASE UNCHANGED <<side, payload, pc>>
  BY <1>1, <1>2, QuietCommit DEF CommitInv
<1>3. ASSUME NEW newRequests \in Included(HEAD), NEW halted \in Halts(HEAD, ChainTip),
             side' = Append(side, BuildPayload(HEAD, ChainTip, newRequests, halted)),
             payload' = Len(side) + 1
      PROVE  CommitInv'
  <2> DEFINE block == BuildPayload(HEAD, ChainTip, newRequests, halted)
  <2>1. block.anchor = tip
    BY DEF BuildPayload, ChainTip
  <2> HIDE DEF block
  <2>2. IsSeq(side)
    BY DEF CommitInv, Anchored
  <2>3. side' = Append(side, block)
    BY <1>3 DEF block
  <2>4. /\ IsSeq(side') /\ Len(side) \in Nat /\ Len(side') = Len(side) + 1
        /\ \A b \in 1 .. Len(side) : side'[b] = side[b]
        /\ side'[Len(side) + 1] = block
    BY <2>2, <2>3, AppendIsSeq
  <2>5. 1 .. Len(side') = (1 .. Len(side)) \cup {Len(side) + 1}
    BY <2>4
  <2>6. MainPaths'
    BY <1>1 DEF CommitInv, MainPaths, IsSeq, Entries
  <2>7. Anchored'
    BY <1>1, <2>1, <2>4, <2>5 DEF CommitInv, MainPaths, Anchored
  <2>8. \A b, p : BidFor(b, p) => BidFor(b, p)'
    BY <2>4, <2>5 DEF BidFor
  <2>9. BidsAtAnchor' /\ CommitsAfterAnchor'
    BY <1>1, <2>8 DEF CommitInv, BidsAtAnchor, CommitsAfterAnchor
  <2>10. \A b : Committed(b) => Committed(b)'
    BY <1>1 DEF Committed
  <2>11. \A b \in accepted' : b = 0 \/ (b \in 1 .. Len(side') /\ Committed(b)')
    BY <1>1, <2>5, <2>10 DEF CommitInv
  <2>12. payload' \in 1 .. Len(side')
    BY <1>3, <2>5
  <2> QED BY <2>6, <2>7, <2>9, <2>11, <2>12 DEF CommitInv
<1> QED BY <1>2, <1>3 DEF Build

LEMMA BidCommit ==
    ASSUME CommitInv, Bid
    PROVE  CommitInv'
<1>1. /\ UNCHANGED <<main, best, tip, side, accepted, payload>>
      /\ pc = "bid"
  BY DEF Bid, nodeVars
<1>2. payload \in 1 .. Len(side) /\ side[payload].anchor \in 1 .. Len(main)
  BY <1>1 DEF CommitInv, Anchored
<1>3. CASE UNCHANGED bids
  BY <1>1, <1>2, <1>3, QuietCommit
<1>4. CASE PlaceBid(payload, Block(payload).anchor)
  <2> DEFINE prev == side[payload].anchor
  <2>1. Block(payload) = side[payload] /\ payload \in Nat
    BY <1>2 DEF Block, Genesis
  <2>2. bids' = [bids EXCEPT ![prev] = payload] /\ prev \in 1 .. MaxMain
    BY <1>2, <1>4, <2>1, EnforcerAssumption DEF PlaceBid, CommitInv, MainPaths
  <2>3. BidFor(payload, prev)
    BY <1>2 DEF BidFor
  <2> HIDE DEF prev
  <2>4. \A b, p : BidFor(b, p) => BidFor(b, p)'
    BY <1>1 DEF BidFor
  <2>5. BidsAtAnchor'
    BY <2>1, <2>2, <2>3, <2>4 DEF CommitInv, BidsAtAnchor
  <2>6. MainPaths'
    BY <1>1 DEF CommitInv, MainPaths, IsSeq, Entries
  <2>7. Anchored'
    BY <1>1 DEF CommitInv, Anchored, IsSeq, Entries
  <2>8. CommitsAfterAnchor'
    BY <1>1, <2>4 DEF CommitInv, CommitsAfterAnchor
  <2>9. \A b \in accepted' : b = 0 \/ (b \in 1 .. Len(side') /\ Committed(b)')
    BY <1>1 DEF CommitInv, Committed
  <2> QED BY <1>1, <1>2, <2>5, <2>6, <2>7, <2>8, <2>9 DEF CommitInv
<1> QED BY <1>3, <1>4 DEF Bid

LEMMA GenerateCommit ==
    ASSUME CommitInv, NEW lagging \in BOOLEAN, GenerateToAddress(lagging),
           UNCHANGED <<side, accepted>>, pc' \notin {"start", "build"} => payload' \in 1 .. Len(side)
    PROVE  CommitInv'
BY MineCommit DEF GenerateToAddress, CommitInv, MainPaths

LEMMA NewPayloadCommit ==
    ASSUME CommitInv, pc = "import", UNCHANGED <<enforcerVars, side, payload>>,
           \/ UNCHANGED accepted
           \/ Valid(payload) /\ accepted' = accepted \cup {payload}
    PROVE  CommitInv'
<1>1. payload \in 1 .. Len(side) /\ UNCHANGED <<main, best, tip, bids>>
  BY DEF CommitInv, enforcerVars
<1>2. Valid(payload) => Committed(payload)
  BY IsCommittedSound DEF Valid
<1> QED BY <1>1, <1>2, QuietCommit

LEMMA RpcFailsCommit ==
    ASSUME CommitInv, RpcFails
    PROVE  CommitInv'
<1>1. UNCHANGED payload
  BY DEF RpcFails
<1>2. CASE pc = "build" /\ UNCHANGED <<main, best, tip, bids, side, accepted, pc>>
  BY <1>1, <1>2, QuietCommit
<1>3. CASE pc \in {"bid", "advance"} /\ UNCHANGED <<enforcerVars, nodeVars>>
  <2>1. UNCHANGED <<main, best, tip, bids, side, accepted>> /\ payload \in 1 .. Len(side)
    BY <1>3 DEF enforcerVars, nodeVars, CommitInv
  <2> QED BY <1>1, <2>1, QuietCommit
<1>4. CASE /\ pc = "mine" /\ UNCHANGED nodeVars
           /\ UNCHANGED enforcerVars \/ GenerateToAddress(FALSE)
  <2>1. UNCHANGED <<side, accepted>> /\ payload' \in 1 .. Len(side)
    BY <1>1, <1>4 DEF nodeVars, CommitInv
  <2>2. CASE UNCHANGED enforcerVars
    BY <2>1, <2>2, QuietCommit DEF enforcerVars
  <2>3. CASE GenerateToAddress(FALSE)
    BY <2>1, <2>3, GenerateCommit
  <2> QED BY <1>4, <2>2, <2>3
<1>5. CASE /\ pc = "import" /\ UNCHANGED <<enforcerVars, side>>
           /\ accepted' = accepted \/ (Valid(payload) /\ accepted' = accepted \cup {payload})
  BY <1>1, <1>5, NewPayloadCommit
<1> QED BY <1>2, <1>3, <1>4, <1>5 DEF RpcFails

-----------------------------------------------------------------------------
LEMMA NextCommit == CommitInv /\ [Next]_vars => CommitInv'
<1> SUFFICES ASSUME CommitInv, [Next]_vars PROVE CommitInv'
  OBVIOUS
<1>1. ASSUME NEW lost \in BOOLEAN, Build(lost) PROVE CommitInv'
  BY <1>1, BuildCommit
<1>2. CASE Bid
  BY <1>2, BidCommit
<1>3. ASSUME NEW lagging \in BOOLEAN, Mine(lagging) PROVE CommitInv'
  <2>1. UNCHANGED <<side, accepted>> /\ payload' \in 1 .. Len(side)
    BY <1>3 DEF Mine, nodeVars, CommitInv
  <2> QED BY <1>3, <2>1, GenerateCommit DEF Mine
<1>4. CASE NewPayload
  BY <1>4, NewPayloadCommit DEF NewPayload
<1>5. CASE Advance \/ SaveHead
  <2>1. /\ UNCHANGED <<main, best, tip, bids, side, accepted, payload>>
        /\ pc \notin {"start", "build"}
    BY <1>5 DEF Advance, SaveHead, enforcerVars, nodeVars
  <2> QED BY <2>1, QuietCommit DEF CommitInv
<1>6. CASE EnforcerSyncs
  <2>1. /\ UNCHANGED <<main, best, bids, side, accepted, pc, payload>>
        /\ tip' = best
    BY <1>6 DEF EnforcerSyncs, Sync, nodeVars, loopVars
  <2> QED BY <2>1, QuietCommit DEF CommitInv
<1>7. CASE Skip \/ Stalled \/ UNCHANGED vars
  <2>1. UNCHANGED <<main, best, tip, bids, side, accepted, pc, payload>>
    BY <1>7 DEF Skip, Stalled, vars, enforcerVars, nodeVars, loopVars
  <2> QED BY <2>1, QuietCommit DEF CommitInv
<1>8. CASE RpcFails
  BY <1>8, RpcFailsCommit
<1>9. CASE Restart
  <2>1. UNCHANGED <<main, best, tip, bids, side, accepted>> /\ pc' = "start"
    BY <1>9 DEF Restart, enforcerVars, nodeVars
  <2> QED BY <2>1, QuietCommit
<1>10. CASE NodeRestarts
  <2>1. /\ UNCHANGED <<main, best, tip, bids, side, pc, payload>>
        /\ accepted' \subseteq accepted
    BY <1>10 DEF NodeRestarts, enforcerVars, loopVars
  <2> QED BY <2>1, QuietCommit DEF CommitInv
<1>11. ASSUME NEW lagging \in BOOLEAN, OtherMiner(lagging) PROVE CommitInv'
  <2>1. UNCHANGED <<side, accepted, pc, payload>>
    BY <1>11 DEF OtherMiner, nodeVars, loopVars
  <2>2. PICK parent \in 1 .. Len(main) : \E bmm \in {0, bids[parent]} : MineBlock(parent, bmm, lagging)
    BY <1>11 DEF OtherMiner, MineElsewhere
  <2>3. PICK bmm \in {0, bids[parent]} : MineBlock(parent, bmm, lagging)
    BY <2>2
  <2> QED BY <2>1, <2>3, MineCommit DEF CommitInv
<1>12. CASE EnforcerStalls
  <2>1. /\ UNCHANGED <<main, best, tip, bids, side, accepted, payload>>
        /\ payload \in 1 .. Len(side)
    BY <1>12 DEF EnforcerStalls, enforcerVars, nodeVars, CommitInv
  <2> QED BY <2>1, QuietCommit
<1>13. CASE Start
  <2>1. UNCHANGED <<side, accepted>> /\ pc' = "build" /\ best \in 1 .. Len(main)
    BY <1>13 DEF Start, CommitInv, MainPaths
  <2>2. PICK bmm \in {0, bids[best]} : MineBlock(best, bmm, FALSE)
    BY <1>13 DEF Start, FundWallet
  <2> QED BY <2>1, <2>2, MineCommit
<1> QED
  BY <1>1, <1>2, <1>3, <1>4, <1>5, <1>6, <1>7, <1>8, <1>9, <1>10, <1>11, <1>12, <1>13
  DEF Next, Loop

LEMMA CommitIsAfterAnchor == CommitInv => CommittedAfterAnchor
<1> SUFFICES ASSUME CommitInv, NEW b \in accepted \ {Genesis}
             PROVE  \E m \in 2 .. Len(main) :
                       /\ main[m].bmm = b
                       /\ main[m].path[Len(main[m].path) - 1] = side[b].anchor
  BY DEF CommittedAfterAnchor
<1>1. b # 0 /\ Committed(b)
  BY DEF CommitInv, Genesis
<1>2. PICK m \in 1 .. Len(main) : main[m].bmm = b
  BY <1>1 DEF Committed
<1>3. m >= 2 /\ BidFor(b, main[m].path[Len(main[m].path) - 1])
  BY <1>1, <1>2 DEF CommitInv, CommitsAfterAnchor
<1>4. m \in 2 .. Len(main)
  BY <1>3
<1> QED BY <1>1, <1>2, <1>3, <1>4 DEF BidFor

(***************************************************************************)
(* The commitment to an accepted block sits in a child of the mainchain   *)
(* block it is anchored to, whatever faults happen, although is_committed *)
(* (src/enforcer.rs) searches the tip's ancestors and ignores the anchor. *)
(***************************************************************************)
THEOREM AcceptedAreCommitted == Spec => []CommittedAfterAnchor
<1>1. Spec => []CommitInv
  BY InitCommit, NextCommit, PTL DEF Spec
<1> QED BY <1>1, CommitIsAfterAnchor, PTL
=============================================================================
