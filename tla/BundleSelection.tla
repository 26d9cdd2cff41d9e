---------------------------- MODULE BundleSelection ----------------------------
(***************************************************************************)
(* select_withdrawal_bundle of src/withdrawal_bundle.rs: which of the     *)
(* Pending requests go into the next M6, and what that M6 pays.           *)
(*                                                                        *)
(* The requests are aggregated by destination, the destinations are       *)
(* sorted, and a loop takes them until one no longer fits the weight of a *)
(* standard transaction.  The aggregates come out of a HashMap, in an     *)
(* order that differs from node to node and from call to call; it is an   *)
(* argument here.  A destination is a number, ordered as its bytes are;   *)
(* only the length of its script matters besides.  The branches for sizes *)
(* beyond u32 are left out: no script of that length can be stored.       *)
(***************************************************************************)
EXTENDS Naturals, Sequences, FiniteSets, SequencesExt, FiniteSetsExt, Functions

CONSTANTS
    Destination,    \* the scriptPubKeys requests name (model input), a set of naturals
    SpkSize,        \* the length in bytes of each
    ValueSats,      \* the amounts requested (model input)
    MainFeeSats,    \* the fees offered (model input)
    MaxU64,         \* u64::MAX, where sums saturate
    MaxU32,         \* u32::MAX, where the height saturates
    MaxWeight,      \* Transaction::MAX_STANDARD_WEIGHT
    MaxRequests     \* bound on the requests ever queued (model bound)

ASSUME SelectionAssumption ==
    /\ Destination \subseteq Nat
    /\ SpkSize \in [Destination -> Nat]
    /\ ValueSats \subseteq Nat /\ MainFeeSats \subseteq Nat
    /\ MaxU64 \in Nat /\ MaxU32 \in Nat /\ MaxWeight \in Nat /\ MaxRequests \in Nat

(* A bug the properties must notice, not the code: a plain addition, and  *)
(* an assignment where += is meant.                                       *)
PlainAdd(a, b, max) == a + b
LastWins(a, b, max) == b

SaturatingAdd(a, b, max) == IF a + b <= max THEN a + b ELSE max

-----------------------------------------------------------------------------
(* Aggregation and order.                                                 *)

Requested(pending) == {request.dest : request \in ToSet(pending)}

SaturatingSum(amounts) ==
    LET Sum[n \in 0 .. Len(amounts)] ==
            IF n = 0 THEN 0 ELSE SaturatingAdd(Sum[n - 1], amounts[n], MaxU64)
    IN  Sum[Len(amounts)]

(* The requests of other destinations add nothing.                        *)
Aggregate(pending, dest) ==
    LET Own(n, amount) == IF pending[n].dest = dest THEN amount ELSE 0
    IN  [dest        |-> dest,
         valueSats   |-> SaturatingSum([n \in DOMAIN pending |-> Own(n, pending[n].valueSats)]),
         mainFeeSats |-> SaturatingSum([n \in DOMAIN pending |-> Own(n, pending[n].mainFeeSats)]),
         indices     |-> {r.index : r \in {q \in ToSet(pending) : q.dest = dest}}]

(* A bug the properties must notice, not the code: no tie-break by        *)
(* destination; ascending fees.                                           *)
BeforeByAmounts(a, b) ==
    \/ a.mainFeeSats > b.mainFeeSats
    \/ a.mainFeeSats = b.mainFeeSats /\ a.valueSats > b.valueSats

LowestFeeFirst(a, b) ==
    \/ a.mainFeeSats < b.mainFeeSats
    \/ a.mainFeeSats = b.mainFeeSats /\ a.dest > b.dest

(* Highest fee first, then highest value, then highest destination bytes. *)
Before(a, b) ==
    \/ a.mainFeeSats > b.mainFeeSats
    \/ a.mainFeeSats = b.mainFeeSats /\ a.valueSats > b.valueSats
    \/ /\ a.mainFeeSats = b.mainFeeSats /\ a.valueSats = b.valueSats
       /\ a.dest > b.dest

(***************************************************************************)
(* hashOrder is the order in which into_values() happens to list the      *)
(* HashMap; sort_by is stable, so it decides between aggregates neither   *)
(* of which is before the other.                                          *)
(***************************************************************************)
Sorted(pending, hashOrder) ==
    LET aggregates == {Aggregate(pending, dest) : dest \in ToSet(hashOrder)}
        Listed(a)  == CHOOSE n \in DOMAIN hashOrder : hashOrder[n] = a.dest
        Ahead(a, b) == Before(a, b) \/ (~Before(b, a) /\ Listed(a) < Listed(b))
    IN  CHOOSE s \in SetToSeqs(aggregates) :
            \A m, n \in DOMAIN s : m < n => Ahead(s[m], s[n])

(* What the nodes may get, whatever order their HashMaps iterate in.      *)
SortedLists(pending) ==
    {Sorted(pending, hashOrder) : hashOrder \in SetToSeqs(Requested(pending))}

-----------------------------------------------------------------------------
(* Weight.                                                                *)

VarIntSize(n) == IF n < 253 THEN 1 ELSE IF n < 65536 THEN 3 ELSE 5

TxoutSize(spkSize) == 8 + VarIntSize(spkSize) + spkSize

(* A bug the properties must notice, not the code: the weight without the *)
(* two commitment outputs.                                                *)
PredictWeightOfPayouts(nOutputs, sumTxoutSizes) ==
    4 * (4 + VarIntSize(1) + 36 + VarIntSize(0) + 4 + VarIntSize(nOutputs) + sumTxoutSizes + 4)

(***************************************************************************)
(* predict_weight: version, one treasury input with an empty scriptSig,   *)
(* the two commitment outputs (10- and 34-byte scripts), the payouts, the *)
(* lock time; four weight units a byte.                                   *)
(***************************************************************************)
PredictWeight(nOutputs, sumTxoutSizes) ==
    LET txinSize == 36 + VarIntSize(0) + 0 + 4
        voutSize == VarIntSize(nOutputs + 2) + TxoutSize(34) + TxoutSize(10) + sumTxoutSizes
    IN  4 * (4 + VarIntSize(1) + txinSize + voutSize + 4)

-----------------------------------------------------------------------------
(* The greedy loop breaks at the first destination that does not fit.     *)

Fits(sorted, n) ==
    PredictWeight(n, SumFunctionOnSet([k \in 1 .. n |-> TxoutSize(SpkSize[sorted[k].dest])], 1 .. n))
        <= MaxWeight


TakenFrom(sorted) ==
    Max({n \in 0 .. Len(sorted) : \A k \in 1 .. n : Fits(sorted, k)})

Chosen(sorted) == SubSeq(sorted, 1, TakenFrom(sorted))

(***************************************************************************)
(* build_withdrawal_bundle: the fee commitment, the commitment to the     *)
(* sorted indices and the height, the payouts.  This record is also what  *)
(* the m6id is the hash of.                                               *)
(***************************************************************************)
BuildWithdrawalBundle(chosen, height) ==
    [totalMainFeeSats |-> SaturatingSum([n \in DOMAIN chosen |-> chosen[n].mainFeeSats]),
     indices          |-> UNION {a.indices : a \in ToSet(chosen)},
     height           |-> height,
     outputs          |-> [n \in DOMAIN chosen |->
                              [dest |-> chosen[n].dest, valueSats |-> chosen[n].valueSats]]]

NoBundle == [totalMainFeeSats |-> 0, indices |-> {}, height |-> 0, outputs |-> <<>>]

SelectWithdrawalBundle(sorted, height) ==
    LET chosen == Chosen(sorted)
    IN  IF chosen = <<>> THEN NoBundle ELSE BuildWithdrawalBundle(chosen, height)

-----------------------------------------------------------------------------
(***************************************************************************)
(* Rounds of selection: requests arrive, and each block takes the bundle  *)
(* that the requests left over from its parent yield.                     *)
(***************************************************************************)
VARIABLES
    pending,        \* the Pending requests, in the order of their indices
    requestCount,   \* the next index
    height,         \* the height of the last block, as a u32
    bundle          \* the bundle that block took, or NoBundle

vars == <<pending, requestCount, height, bundle>>

Init ==
    /\ pending = <<>>
    /\ requestCount = 0
    /\ height = 0
    /\ bundle = NoBundle

Request(dest, valueSats, mainFeeSats) ==
    /\ requestCount < MaxRequests
    /\ pending' = Append(pending, [index       |-> requestCount,
                                   dest        |-> dest,
                                   valueSats   |-> valueSats,
                                   mainFeeSats |-> mainFeeSats])
    /\ requestCount' = requestCount + 1
    /\ UNCHANGED <<height, bundle>>

Without(requests, indices) ==
    LET Left[n \in 0 .. Len(requests)] ==
            IF n = 0 THEN <<>>
            ELSE IF requests[n].index \in indices THEN Left[n - 1]
            ELSE Append(Left[n - 1], requests[n])
    IN  Left[Len(requests)]

NextBlock(sorted) ==
    LET next == SaturatingAdd(height, 1, MaxU32) IN
    \E selected \in {SelectWithdrawalBundle(sorted, next)} :
        /\ height' = next
        /\ bundle' = selected
        /\ pending' = Without(pending, selected.indices)
        /\ UNCHANGED requestCount

Block == \E sorted \in SortedLists(pending) : NextBlock(sorted)

Next ==
    \/ \E dest \in Destination, valueSats \in ValueSats, mainFeeSats \in MainFeeSats :
          Request(dest, valueSats, mainFeeSats)
    \/ Block

Spec == Init /\ [][Next]_vars

(* Blocks keep being built: scripts/bmm-mine.sh loops forever.            *)
FairSpec == Spec /\ WF_vars(Block)

-----------------------------------------------------------------------------
TypeOK ==
    /\ requestCount \in 0 .. MaxRequests
    /\ height \in 0 .. MaxU32
    /\ \A n \in DOMAIN pending :
          /\ pending[n].index \in 0 .. requestCount - 1
          /\ pending[n].dest \in Destination
          /\ pending[n].valueSats \in ValueSats
          /\ pending[n].mainFeeSats \in MainFeeSats
    /\ \A m, n \in DOMAIN pending : m < n => pending[m].index < pending[n].index
    /\ bundle.indices \subseteq 0 .. requestCount - 1

(* What the nodes may select from these requests.                         *)
Selections == {SelectWithdrawalBundle(sorted, height) : sorted \in SortedLists(pending)}

(***************************************************************************)
(* The bundle, and with it the m6id, depends on the pending requests and  *)
(* the height alone: the payload builder that broadcasts the M6, the      *)
(* executor that records it and every validator find the same one,        *)
(* whatever order their HashMaps iterate in.                              *)
(***************************************************************************)
Canonical == Cardinality(Selections) = 1

(***************************************************************************)
(* The M6, once the enforcer attached its input, is a standard Bitcoin    *)
(* transaction: counted output by output, the two commitments included,   *)
(* it does not exceed the weight the selection was bounded by.            *)
(***************************************************************************)
M6Weight(selected) ==
    LET scripts == <<10, 34>> \o [n \in DOMAIN selected.outputs |->
                                     SpkSize[selected.outputs[n].dest]]
        sizes   == SumFunctionOnSet([n \in DOMAIN scripts |-> TxoutSize(scripts[n])],
                                    DOMAIN scripts)
        input   == 36 + 1 + 4
    IN  4 * (4 + 1 + input + VarIntSize(Len(scripts)) + sizes + 4)

WeightBound ==
    \A selected \in Selections \ {NoBundle} : M6Weight(selected) <= MaxWeight

(***************************************************************************)
(* The M6 pays what was locked and no more: every output is the sum of    *)
(* the requests it settles, all requests of a chosen destination are      *)
(* settled together, and the committed fee is the sum of their fees.      *)
(***************************************************************************)
Values == [n \in DOMAIN pending |-> pending[n].valueSats]
Fees   == [n \in DOMAIN pending |-> pending[n].mainFeeSats]

RequestsFor(dest) == {n \in DOMAIN pending : pending[n].dest = dest}

PaysWhatItConsumes ==
    \A selected \in Selections :
        LET consumed == {n \in DOMAIN pending : pending[n].index \in selected.indices}
            payouts  == DOMAIN selected.outputs
            settled(k) == RequestsFor(selected.outputs[k].dest)
        IN  /\ consumed = UNION {settled(k) : k \in payouts}
            /\ \A k \in payouts :
                  selected.outputs[k].valueSats = SumFunctionOnSet(Values, settled(k))
            /\ \A j, k \in payouts : settled(j) = settled(k) => j = k
            /\ selected.totalMainFeeSats = SumFunctionOnSet(Fees, consumed)

(***************************************************************************)
(* Fees buy priority: no destination is taken while one that offers a     *)
(* higher total fee is left behind.                                       *)
(***************************************************************************)
FeeOf(dest) == SumFunctionOnSet(Fees, RequestsFor(dest))

FeePriority ==
    \A selected \in Selections :
        LET taken == {selected.outputs[n].dest : n \in DOMAIN selected.outputs}
        IN  \A dest \in taken, other \in Requested(pending) \ taken :
                FeeOf(dest) >= FeeOf(other)

(***************************************************************************)
(* With blocks being built, a queued request does not wait for ever if no *)
(* others come: when every destination fits an M6 of its own, it is       *)
(* bundled, or another request arrives.  No more can be promised, since   *)
(* whoever arrives later with a higher fee goes first.                    *)
(***************************************************************************)
Waiting(i) == \E n \in DOMAIN pending : pending[n].index = i

=============================================================================
