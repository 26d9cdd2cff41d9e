------------------------ MODULE BundleSelectionProofs ------------------------
(***************************************************************************)
(* Theorems about BundleSelection: what holds of the M6 that              *)
(* select_withdrawal_bundle of src/withdrawal_bundle.rs builds, for any   *)
(* requests, any scripts, any weight limit and any order the HashMaps     *)
(* iterate in.                                                            *)
(***************************************************************************)
EXTENDS BundleSelection, FoldTheorems, SequenceTheorems

LEMMA UptoFinite ==
    ASSUME NEW n \in Nat
    PROVE  IsFiniteSet(1 .. n) /\ Cardinality(1 .. n) = n
<1>1. 1 \in Int /\ n \in Int
  OBVIOUS
<1>2. IsFiniteSet(1 .. n) /\ Cardinality(1 .. n) = IF 1 > n THEN 0 ELSE n - 1 + 1
  BY <1>1, FS_Interval
<1> QED BY <1>2

LEMMA ListIsSeq ==
    ASSUME NEW S, NEW n \in Nat, NEW f, f = [k \in 1 .. n |-> f[k]], \A k \in 1 .. n : f[k] \in S
    PROVE  f \in Seq(S) /\ Len(f) = n
OBVIOUS

-----------------------------------------------------------------------------
(* Saturating sums.                                                       *)

Sums(f, amounts) ==
    f = [n \in 0 .. Len(amounts) |->
            IF n = 0 THEN 0 ELSE SaturatingAdd(f[n - 1], amounts[n], MaxU64)]

LEMMA SaturatingSumDef ==
    ASSUME NEW amounts
    PROVE  SaturatingSum(amounts) = (CHOOSE f : Sums(f, amounts))[Len(amounts)]
BY DEF SaturatingSum, Sums

LEMMA SumsExists ==
    ASSUME NEW amounts \in Seq(Nat)
    PROVE  Sums(CHOOSE f : Sums(f, amounts), amounts)
<1> DEFINE last == Len(amounts)
           step == [n \in 1 .. last |-> [v \in Nat |-> SaturatingAdd(v, amounts[n], MaxU64)]]
<1>1. last \in Nat /\ \A n \in 1 .. last : amounts[n] \in Nat
  OBVIOUS
<1>2. \A n \in 1 .. last, v \in Nat : /\ SaturatingAdd(v, amounts[n], MaxU64) \in Nat
                                       /\ step[n][v] = SaturatingAdd(v, amounts[n], MaxU64)
  BY <1>1, SelectionAssumption DEF SaturatingAdd
<1> HIDE DEF last, step
<1>3. \A n \in 1 .. last, v \in Nat : step[n][v] \in Nat
  BY <1>2
<1>4. PICK f : Iterates(f, step, 0, last, Nat)
  BY <1>1, <1>3, RecursionExists
<1>5. ASSUME NEW n \in 0 .. last
      PROVE  f[n] = IF n = 0 THEN 0 ELSE SaturatingAdd(f[n - 1], amounts[n], MaxU64)
  <2>1. CASE n = 0
    BY <1>4, <2>1 DEF Iterates
  <2>2. CASE n # 0
    <3>1. n \in 1 .. last /\ n - 1 \in 0 .. last
      BY <1>1, <2>2
    <3>2. f[n - 1] \in Nat /\ f[n] = step[n][f[n - 1]]
      BY <1>4, <3>1 DEF Iterates
    <3> QED BY <1>2, <2>2, <3>1, <3>2
  <2> QED BY <2>1, <2>2
<1> DEFINE g == [n \in 0 .. last |-> IF n = 0 THEN 0 ELSE SaturatingAdd(f[n - 1], amounts[n], MaxU64)]
<1>6. f = [n \in 0 .. last |-> f[n]]
  BY <1>4 DEF Iterates
<1>7. \A n \in 0 .. last : f[n] = g[n]
  BY <1>5
<1>8. f = g
  BY <1>6, <1>7
<1>9. Sums(f, amounts)
  BY <1>8 DEF Sums, last
<1> QED BY <1>9

(* Adding with saturation yields the sum, or the maximum if it exceeds it. *)
LEMMA SaturatingSumIs ==
    ASSUME NEW amounts \in Seq(Nat)
    PROVE  LET sum == SumFunctionOnSet(amounts, 1 .. Len(amounts))
           IN  sum \in Nat /\ SaturatingSum(amounts) = IF sum <= MaxU64 THEN sum ELSE MaxU64
<1> DEFINE last == Len(amounts)
           f == CHOOSE f : Sums(f, amounts)
           Sum(n) == SumFunctionOnSet(amounts, 1 .. n)
           Good == {n \in Nat : n <= last => f[n] = IF Sum(n) <= MaxU64 THEN Sum(n) ELSE MaxU64}
<1>1. /\ last \in Nat /\ \A n \in 1 .. last : amounts[n] \in Nat
      /\ SaturatingSum(amounts) = f[last]
  BY SaturatingSumDef
<1>2. \A n \in 0 .. last : f[n] = IF n = 0 THEN 0 ELSE SaturatingAdd(f[n - 1], amounts[n], MaxU64)
  <2>1. Sums(f, amounts)
    BY SumsExists
  <2> HIDE DEF f
  <2> QED BY <2>1 DEF Sums
<1> HIDE DEF f, last
<1>3. \A n \in 0 .. last : Sum(n) \in Nat
  <2> TAKE n \in 0 .. last
  <2>1. IsFiniteSet(1 .. n) /\ \A k \in 1 .. n : amounts[k] \in Nat
    BY <1>1, UptoFinite
  <2> QED BY <2>1, SumNat
<1>4. 0 \in Good
  <2>1. 1 .. 0 = {}
    OBVIOUS
  <2> QED BY <1>1, <1>2, <2>1, SumEmpty, SelectionAssumption
<1>5. ASSUME NEW n \in Nat, n \in Good
      PROVE  n + 1 \in Good
  <2> SUFFICES ASSUME n + 1 <= last
               PROVE  f[n + 1] = IF Sum(n + 1) <= MaxU64 THEN Sum(n + 1) ELSE MaxU64
    OBVIOUS
  <2>1. Sum(n + 1) = amounts[n + 1] + Sum(n)
    <3>1. 1 .. n + 1 = (1 .. n) \cup {n + 1} /\ n + 1 \notin 1 .. n /\ IsFiniteSet(1 .. n)
      BY UptoFinite
    <3>2. \A k \in (1 .. n) \cup {n + 1} : amounts[k] \in Int
      BY <1>1
    <3> QED BY <3>1, <3>2, SumAdd
  <2>2. /\ f[n] = IF Sum(n) <= MaxU64 THEN Sum(n) ELSE MaxU64
        /\ f[n + 1] = SaturatingAdd(f[n], amounts[n + 1], MaxU64)
    <3>1. n + 1 \in 0 .. last /\ n + 1 # 0 /\ (n + 1) - 1 = n /\ n <= last
      BY <1>1
    <3> QED BY <1>2, <1>5, <3>1
  <2>3. Sum(n) \in Nat /\ amounts[n + 1] \in Nat /\ MaxU64 \in Nat
    BY <1>1, <1>3, SelectionAssumption
  <2> HIDE DEF Sum
  <2> QED BY <2>1, <2>2, <2>3 DEF SaturatingAdd
<1> HIDE DEF Good
<1>6. last \in Good
  <2>1. Nat \subseteq Good
    BY <1>4, <1>5, NaturalInduction
  <2> QED BY <1>1, <2>1
<1>7. last \in Nat /\ Sum(last) \in Nat
  BY <1>1, <1>3
<1> QED BY <1>1, <1>6, <1>7 DEF Good, last

-----------------------------------------------------------------------------
(* The requests a block leaves over.                                      *)

QueuedRequest == [index : Nat, dest : Destination, valueSats : ValueSats, mainFeeSats : MainFeeSats]

Increasing(requests) ==
    \A m, n \in DOMAIN requests : m < n => requests[m].index < requests[n].index

Leaves(f, requests, indices) ==
    f = [n \in 0 .. Len(requests) |->
            IF n = 0 THEN <<>>
            ELSE IF requests[n].index \in indices THEN f[n - 1]
            ELSE Append(f[n - 1], requests[n])]

LEMMA WithoutDef ==
    ASSUME NEW requests, NEW indices
    PROVE  Without(requests, indices) = (CHOOSE f : Leaves(f, requests, indices))[Len(requests)]
BY DEF Without, Leaves

LEMMA LeavesExists ==
    ASSUME NEW requests \in Seq(QueuedRequest), NEW indices
    PROVE  Leaves(CHOOSE f : Leaves(f, requests, indices), requests, indices)
<1> DEFINE last == Len(requests)
           V == Seq(QueuedRequest)
           Kept(n, v) == IF requests[n].index \in indices THEN v ELSE Append(v, requests[n])
           step == [n \in 1 .. last |-> [v \in V |-> Kept(n, v)]]
<1>1. last \in Nat /\ (\A n \in 1 .. last : requests[n] \in QueuedRequest) /\ <<>> \in V
  OBVIOUS
<1>2. \A n \in 1 .. last, v \in V : Kept(n, v) \in V /\ step[n][v] = Kept(n, v)
  <2> TAKE n \in 1 .. last, v \in V
  <2>1. Append(v, requests[n]) \in V
    BY <1>1
  <2> QED BY <2>1
<1> HIDE DEF last, V, step
<1>3. \A n \in 1 .. last, v \in V : step[n][v] \in V
  <2> HIDE DEF Kept
  <2> QED BY <1>2
<1>4. PICK f : Iterates(f, step, <<>>, last, V)
  BY <1>1, <1>3, RecursionExists
<1>5. ASSUME NEW n \in 0 .. last
      PROVE  f[n] = IF n = 0 THEN <<>>
                    ELSE IF requests[n].index \in indices THEN f[n - 1]
                    ELSE Append(f[n - 1], requests[n])
  <2>1. CASE n = 0
    BY <1>4, <2>1 DEF Iterates
  <2>2. CASE n # 0
    <3>1. n \in 1 .. last /\ n - 1 \in 0 .. last
      BY <1>1, <2>2
    <3>2. f[n - 1] \in V /\ f[n] = step[n][f[n - 1]]
      BY <1>4, <3>1 DEF Iterates
    <3>3. f[n] = Kept(n, f[n - 1])
      BY <1>2, <3>1, <3>2
    <3> QED BY <2>2, <3>3
  <2> QED BY <2>1, <2>2
<1> DEFINE g == [n \in 0 .. last |->
                    IF n = 0 THEN <<>>
                    ELSE IF requests[n].index \in indices THEN f[n - 1]
                    ELSE Append(f[n - 1], requests[n])]
<1>6. f = [n \in 0 .. last |-> f[n]]
  BY <1>4 DEF Iterates
<1>7. \A n \in 0 .. last : f[n] = g[n]
  BY <1>5
<1>8. f = g
  BY <1>6, <1>7
<1>9. Leaves(f, requests, indices)
  BY <1>8 DEF Leaves, last
<1> QED BY <1>9

(* What is left is some of the requests, in their order.                  *)
LEMMA WithoutIs ==
    ASSUME NEW requests \in Seq(QueuedRequest), Increasing(requests), NEW indices
    PROVE  LET left == Without(requests, indices)
           IN  /\ left \in Seq(QueuedRequest) /\ Len(left) <= Len(requests)
               /\ Increasing(left)
               /\ \A k \in DOMAIN left : \E m \in DOMAIN requests : left[k] = requests[m]
<1> DEFINE last == Len(requests)
           f == CHOOSE f : Leaves(f, requests, indices)
           IsLeft(left, n) ==
               /\ left \in Seq(QueuedRequest) /\ Len(left) <= n
               /\ Increasing(left)
               /\ \A k \in DOMAIN left : \E m \in 1 .. n : left[k] = requests[m]
           Good == {n \in Nat : n <= last => IsLeft(f[n], n)}
<1>1. /\ last \in Nat /\ \A n \in 1 .. last : requests[n] \in QueuedRequest
      /\ DOMAIN requests = 1 .. last
      /\ Without(requests, indices) = f[last]
  BY WithoutDef
<1>2. \A n \in 0 .. last : f[n] = IF n = 0 THEN <<>>
                                  ELSE IF requests[n].index \in indices THEN f[n - 1]
                                  ELSE Append(f[n - 1], requests[n])
  <2>1. Leaves(f, requests, indices)
    BY LeavesExists
  <2> HIDE DEF f
  <2> QED BY <2>1 DEF Leaves
<1> HIDE DEF f, last
<1>3. 0 \in Good
  <2>1. f[0] = <<>>
    BY <1>1, <1>2
  <2>2. IsLeft(<<>>, 0)
    BY DEF Increasing
  <2> QED BY <2>1, <2>2
<1>4. ASSUME NEW n \in Nat, n \in Good
      PROVE  n + 1 \in Good
  <2> SUFFICES ASSUME n + 1 <= last PROVE IsLeft(f[n + 1], n + 1)
    OBVIOUS
  <2> DEFINE new == requests[n + 1]
  <2>1. /\ IsLeft(f[n], n)
        /\ f[n + 1] = IF new.index \in indices THEN f[n] ELSE Append(f[n], new)
    <3>1. n + 1 \in 0 .. last /\ n + 1 # 0 /\ (n + 1) - 1 = n /\ n <= last
      BY <1>1
    <3> QED BY <1>2, <1>4, <3>1
  <2>2. new \in QueuedRequest
    BY <1>1
  <2>3. \A m \in 1 .. n : requests[m].index < new.index
    <3>1. \A m \in 1 .. n : m \in DOMAIN requests /\ n + 1 \in DOMAIN requests /\ m < n + 1
      BY <1>1
    <3> QED BY <3>1 DEF Increasing
  <2>4. CASE new.index \in indices
    BY <2>1, <2>4
  <2>5. CASE new.index \notin indices
    <3> DEFINE left == f[n]
               longer == Append(left, new)
    <3>1. f[n + 1] = longer /\ IsLeft(left, n)
      BY <2>1, <2>5
    <3> HIDE DEF left, new
    <3>2. /\ longer \in Seq(QueuedRequest) /\ Len(longer) = Len(left) + 1 /\ Len(left) \in Nat
          /\ \A k \in DOMAIN left : longer[k] = left[k] /\ k \in 1 .. Len(left)
          /\ longer[Len(left) + 1] = new
          /\ DOMAIN longer = DOMAIN left \cup {Len(left) + 1}
      BY <2>2, <3>1
    <3> HIDE DEF longer
    <3>3. Increasing(longer)
      <4> SUFFICES ASSUME NEW k \in DOMAIN longer, NEW l \in DOMAIN longer, k < l
                   PROVE  longer[k].index < longer[l].index
        BY DEF Increasing
      <4>1. k \in DOMAIN left
        BY <3>2
      <4>2. CASE l \in DOMAIN left
        BY <3>1, <3>2, <4>1, <4>2 DEF Increasing
      <4>3. CASE l = Len(left) + 1
        BY <2>3, <3>1, <3>2, <4>1, <4>3
      <4> QED BY <3>2, <4>2, <4>3
    <3>4. \A k \in DOMAIN longer : \E m \in 1 .. n + 1 : longer[k] = requests[m]
      <4> SUFFICES ASSUME NEW k \in DOMAIN longer
                   PROVE  \E m \in 1 .. n + 1 : longer[k] = requests[m]
        OBVIOUS
      <4>1. CASE k \in DOMAIN left
        <5>1. PICK m \in 1 .. n : left[k] = requests[m]
          BY <3>1, <4>1
        <5>2. m \in 1 .. n + 1
          OBVIOUS
        <5> QED BY <3>2, <4>1, <5>1, <5>2
      <4>2. CASE k = Len(left) + 1
        <5>1. n + 1 \in 1 .. n + 1
          OBVIOUS
        <5> QED BY <3>2, <4>2, <5>1 DEF new
      <4> QED BY <3>2, <4>1, <4>2
    <3>5. Len(longer) <= n + 1
      BY <3>1, <3>2
    <3> QED BY <3>1, <3>2, <3>3, <3>4, <3>5
  <2> QED BY <2>4, <2>5
<1> HIDE DEF Good
<1>5. last \in Good
  <2>1. Nat \subseteq Good
    BY <1>3, <1>4, NaturalInduction
  <2> QED BY <1>1, <2>1
<1> QED BY <1>1, <1>5 DEF Good, last

-----------------------------------------------------------------------------
(* Aggregates.                                                            *)

Of(requests, dest) == {n \in DOMAIN requests : requests[n].dest = dest}
ValuesIn(requests) == [n \in DOMAIN requests |-> requests[n].valueSats]
FeesIn(requests)   == [n \in DOMAIN requests |-> requests[n].mainFeeSats]

LEMMA RequestsAre ==
    ASSUME NEW requests \in Seq(QueuedRequest)
    PROVE  /\ Len(requests) \in Nat /\ DOMAIN requests = 1 .. Len(requests)
           /\ IsFiniteSet(DOMAIN requests) /\ Cardinality(DOMAIN requests) = Len(requests)
           /\ \A n \in DOMAIN requests :
                 /\ requests[n] \in QueuedRequest /\ requests[n].index \in Nat
                 /\ requests[n].dest \in Destination /\ requests[n].dest \in Nat
                 /\ requests[n].valueSats \in ValueSats /\ requests[n].valueSats \in Nat
                 /\ requests[n].mainFeeSats \in MainFeeSats /\ requests[n].mainFeeSats \in Nat
<1>1. /\ Len(requests) \in Nat /\ DOMAIN requests = 1 .. Len(requests)
      /\ \A n \in DOMAIN requests : requests[n] \in QueuedRequest
  OBVIOUS
<1>2. IsFiniteSet(DOMAIN requests) /\ Cardinality(DOMAIN requests) = Len(requests)
  BY <1>1, UptoFinite
<1> QED BY <1>1, <1>2, SelectionAssumption DEF QueuedRequest

(* The sum of one destination's amounts, the others counting as nothing.  *)
LEMMA SumOfOwn ==
    ASSUME NEW requests \in Seq(QueuedRequest), NEW dest, NEW column,
           \A n \in DOMAIN requests : column[n] \in Nat,
           NEW amounts, amounts = [n \in DOMAIN requests |->
                                      IF requests[n].dest = dest THEN column[n] ELSE 0]
    PROVE  /\ amounts \in Seq(Nat) /\ Len(amounts) = Len(requests)
           /\ SumFunctionOnSet(column, Of(requests, dest)) \in Nat
           /\ SaturatingSum(amounts) =
                 IF SumFunctionOnSet(column, Of(requests, dest)) <= MaxU64
                 THEN SumFunctionOnSet(column, Of(requests, dest)) ELSE MaxU64
<1> DEFINE own == Of(requests, dest)
           others == DOMAIN requests \ own
<1>1. /\ IsFiniteSet(own) /\ IsFiniteSet(others) /\ own \cap others = {}
      /\ own \cup others = DOMAIN requests
  BY RequestsAre, FS_Subset DEF Of
<1>2. amounts \in Seq(Nat) /\ Len(amounts) = Len(requests) /\ 1 .. Len(amounts) = DOMAIN requests
  <2>1. DOMAIN amounts = 1 .. Len(requests) /\ Len(requests) \in Nat
    BY RequestsAre
  <2>2. \A n \in 1 .. Len(requests) : amounts[n] \in Nat
    BY RequestsAre
  <2>3. amounts = [n \in 1 .. Len(requests) |-> amounts[n]]
    BY <2>1
  <2> QED BY <2>1, <2>2, <2>3, RequestsAre
<1>3. /\ \A n \in own : amounts[n] = column[n] /\ column[n] \in Nat
      /\ \A n \in others : amounts[n] = 0
      /\ \A n \in own \cup others : amounts[n] \in Int
  BY DEF Of
<1> HIDE DEF own, others
<1>4. SumFunctionOnSet(amounts, own) = SumFunctionOnSet(column, own)
  BY <1>1, <1>3, SumSame
<1>5. SumFunctionOnSet(column, own) \in Nat
  BY <1>1, <1>3, SumNat
<1>6. SumFunctionOnSet(amounts, others) = 0
  BY <1>1, <1>3, SumZero
<1>7. SumFunctionOnSet(amounts, own \cup others) =
         SumFunctionOnSet(amounts, own) + SumFunctionOnSet(amounts, others)
  BY <1>1, <1>3, SumUnion
<1>8. SumFunctionOnSet(amounts, 1 .. Len(amounts)) = SumFunctionOnSet(column, own)
  BY <1>1, <1>2, <1>4, <1>5, <1>6, <1>7
<1> QED BY <1>2, <1>5, <1>8, SaturatingSumIs DEF own

LEMMA AggregateIs ==
    ASSUME NEW requests \in Seq(QueuedRequest), NEW dest
    PROVE  LET a == Aggregate(requests, dest)
               value == SumFunctionOnSet(ValuesIn(requests), Of(requests, dest))
               fee   == SumFunctionOnSet(FeesIn(requests), Of(requests, dest))
           IN  /\ a.dest = dest
               /\ a.indices = {requests[n].index : n \in Of(requests, dest)}
               /\ value \in Nat /\ a.valueSats = IF value <= MaxU64 THEN value ELSE MaxU64
               /\ fee \in Nat /\ a.mainFeeSats = IF fee <= MaxU64 THEN fee ELSE MaxU64
               /\ a.valueSats \in Nat /\ a.mainFeeSats \in Nat
<1> DEFINE a == Aggregate(requests, dest)
           values == ValuesIn(requests)
           fees == FeesIn(requests)
           ownValues == [n \in DOMAIN requests |-> IF requests[n].dest = dest THEN values[n] ELSE 0]
           ownFees == [n \in DOMAIN requests |-> IF requests[n].dest = dest THEN fees[n] ELSE 0]
<1>1. \A n \in DOMAIN requests : /\ values[n] = requests[n].valueSats /\ values[n] \in Nat
                                 /\ fees[n] = requests[n].mainFeeSats /\ fees[n] \in Nat
  BY RequestsAre DEF ValuesIn, FeesIn
<1>2. /\ a.dest = dest
      /\ a.indices = {r.index : r \in {q \in ToSet(requests) : q.dest = dest}}
      /\ a.valueSats = SaturatingSum([n \in DOMAIN requests |->
                           IF requests[n].dest = dest THEN requests[n].valueSats ELSE 0])
      /\ a.mainFeeSats = SaturatingSum([n \in DOMAIN requests |->
                           IF requests[n].dest = dest THEN requests[n].mainFeeSats ELSE 0])
  BY DEF Aggregate
<1>3. a.valueSats = SaturatingSum(ownValues) /\ a.mainFeeSats = SaturatingSum(ownFees)
  <2>1. /\ ownValues = [n \in DOMAIN requests |->
                           IF requests[n].dest = dest THEN requests[n].valueSats ELSE 0]
        /\ ownFees = [n \in DOMAIN requests |->
                           IF requests[n].dest = dest THEN requests[n].mainFeeSats ELSE 0]
    BY <1>1
  <2> QED BY <1>2, <2>1
<1>4. a.indices = {requests[n].index : n \in Of(requests, dest)}
  BY <1>2 DEF ToSet, Of
<1> HIDE DEF a, values, fees
<1>5. /\ SumFunctionOnSet(values, Of(requests, dest)) \in Nat
      /\ SaturatingSum(ownValues) = IF SumFunctionOnSet(values, Of(requests, dest)) <= MaxU64
                                    THEN SumFunctionOnSet(values, Of(requests, dest)) ELSE MaxU64
  BY <1>1, SumOfOwn
<1>6. /\ SumFunctionOnSet(fees, Of(requests, dest)) \in Nat
      /\ SaturatingSum(ownFees) = IF SumFunctionOnSet(fees, Of(requests, dest)) <= MaxU64
                                  THEN SumFunctionOnSet(fees, Of(requests, dest)) ELSE MaxU64
  BY <1>1, SumOfOwn
<1> HIDE DEF ownValues, ownFees
<1>7. a.valueSats \in Nat /\ a.mainFeeSats \in Nat
  BY <1>3, <1>5, <1>6, SelectionAssumption
<1> QED BY <1>2, <1>3, <1>4, <1>5, <1>6, <1>7 DEF a, values, fees

Aggregates(requests) == {Aggregate(requests, dest) : dest \in Requested(requests)}

LEMMA RequestedAre ==
    ASSUME NEW requests \in Seq(QueuedRequest)
    PROVE  /\ Requested(requests) = {requests[n].dest : n \in DOMAIN requests}
           /\ Requested(requests) \subseteq Destination /\ Requested(requests) \subseteq Nat
           /\ IsFiniteSet(Requested(requests)) /\ IsFiniteSet(Aggregates(requests))
<1>1. Requested(requests) = {requests[n].dest : n \in DOMAIN requests}
  BY DEF Requested, ToSet
<1>2. Requested(requests) \subseteq Destination /\ Requested(requests) \subseteq Nat
  BY <1>1, RequestsAre
<1>3. IsFiniteSet(Requested(requests))
  <2> DEFINE f == [n \in DOMAIN requests |-> requests[n].dest]
  <2>1. f \in Surjection(DOMAIN requests, Requested(requests))
    BY <1>1 DEF Surjection
  <2> QED BY <2>1, RequestsAre, FS_Surjection
<1>4. IsFiniteSet(Aggregates(requests))
  <2> DEFINE f == [d \in Requested(requests) |-> Aggregate(requests, d)]
  <2>1. f \in Surjection(Requested(requests), Aggregates(requests))
    BY DEF Surjection, Aggregates
  <2> QED BY <1>3, <2>1, FS_Surjection
<1> QED BY <1>1, <1>2, <1>3, <1>4

LEMMA AggregatesAre ==
    ASSUME NEW requests \in Seq(QueuedRequest), NEW a \in Aggregates(requests)
    PROVE  /\ a = Aggregate(requests, a.dest) /\ a.dest \in Requested(requests)
           /\ a.dest \in Nat /\ a.valueSats \in Nat /\ a.mainFeeSats \in Nat
<1>1. PICK dest \in Requested(requests) : a = Aggregate(requests, dest)
  BY DEF Aggregates
<1> QED BY <1>1, AggregateIs, RequestedAre

(* Highest fee, value and destination first is a strict total order.      *)
LEMMA BeforeIsOrder ==
    ASSUME NEW requests \in Seq(QueuedRequest)
    PROVE  \A a, b \in Aggregates(requests) :
              /\ ~Before(a, a)
              /\ a # b => (Before(a, b) <=> ~Before(b, a))
              /\ \A c \in Aggregates(requests) : Before(a, b) /\ Before(b, c) => Before(a, c)
<1> SUFFICES ASSUME NEW a \in Aggregates(requests), NEW b \in Aggregates(requests)
             PROVE  /\ ~Before(a, a)
                    /\ a # b => (Before(a, b) <=> ~Before(b, a))
                    /\ \A c \in Aggregates(requests) : Before(a, b) /\ Before(b, c) => Before(a, c)
  OBVIOUS
<1>1. \A c \in Aggregates(requests) : c.dest \in Nat /\ c.valueSats \in Nat /\ c.mainFeeSats \in Nat
  BY AggregatesAre
<1>2. a # b => a.dest # b.dest
  BY AggregatesAre
<1>3. ~Before(a, a) /\ (a # b => (Before(a, b) <=> ~Before(b, a)))
  BY <1>1, <1>2, SMTT(30) DEF Before
<1>4. ASSUME NEW c \in Aggregates(requests), Before(a, b), Before(b, c)
      PROVE  Before(a, c)
  BY <1>1, <1>4, SMTT(30) DEF Before
<1> QED BY <1>3, <1>4

-----------------------------------------------------------------------------
(* The sorted list.                                                       *)

InOrder(s) == \A m, n \in DOMAIN s : m < n => Before(s[m], s[n])

LEMMA SeqsOf ==
    ASSUME NEW S, IsFiniteSet(S), NEW s \in SetToSeqs(S)
    PROVE  /\ Cardinality(S) \in Nat /\ s \in [1 .. Cardinality(S) -> S]
           /\ s \in Seq(S) /\ Len(s) = Cardinality(S) /\ DOMAIN s = 1 .. Cardinality(S)
           /\ \A m, n \in DOMAIN s : s[m] = s[n] => m = n
           /\ ToSet(s) = S
<1>1. /\ Cardinality(S) \in Nat /\ s \in [1 .. Cardinality(S) -> S]
      /\ \A m, n \in 1 .. Cardinality(S) : m # n => s[m] # s[n]
  BY FS_CardinalityType DEF SetToSeqs
<1>2. s \in Injection(1 .. Cardinality(S), S)
  BY <1>1 DEF Injection, IsInjective
<1>3. s \in Surjection(1 .. Cardinality(S), S)
  BY <1>1, <1>2, FS_Injection, UptoFinite
<1>4. ToSet(s) = S
  BY <1>1, <1>3 DEF Surjection, ToSet
<1> QED BY <1>1, <1>4

(* There is an order to find: each aggregate goes where the number of     *)
(* those before it says.                                                  *)
LEMMA OrderExists ==
    ASSUME NEW requests \in Seq(QueuedRequest)
    PROVE  \E s \in SetToSeqs(Aggregates(requests)) : InOrder(s)
<1> DEFINE A == Aggregates(requests)
           size == Cardinality(A)
           Ahead(a) == {b \in A : Before(b, a)}
           place == [a \in A |-> Cardinality(Ahead(a)) + 1]
<1>1. IsFiniteSet(A) /\ size \in Nat
  BY RequestedAre, FS_CardinalityType
<1>2. \A a, b \in A : /\ ~Before(a, a)
                      /\ a # b => (Before(a, b) <=> ~Before(b, a))
                      /\ \A c \in A : Before(a, b) /\ Before(b, c) => Before(a, c)
  BY BeforeIsOrder
<1> HIDE DEF A
<1>3. ASSUME NEW a \in A
      PROVE  IsFiniteSet(Ahead(a)) /\ place[a] = Cardinality(Ahead(a)) + 1 /\ place[a] \in 1 .. size
  <2>1. IsFiniteSet(Ahead(a)) /\ Cardinality(Ahead(a)) <= size /\ Cardinality(Ahead(a)) \in Nat
    BY <1>1, FS_Subset, FS_CardinalityType
  <2>2. Cardinality(Ahead(a)) # size
    <3>1. a \notin Ahead(a) /\ Ahead(a) \in SUBSET A
      BY <1>2
    <3> QED BY <1>1, <3>1, FS_Subset
  <2> HIDE DEF Ahead, size
  <2> QED BY <1>1, <2>1, <2>2
<1>4. ASSUME NEW a \in A, NEW b \in A, Before(a, b)
      PROVE  place[a] < place[b]
  <2>1. Ahead(a) \in SUBSET Ahead(b) /\ a \in Ahead(b) /\ a \notin Ahead(a)
    BY <1>2, <1>4
  <2>2. IsFiniteSet(Ahead(a)) /\ IsFiniteSet(Ahead(b))
    BY <1>3
  <2>3. Cardinality(Ahead(a)) <= Cardinality(Ahead(b)) /\ Cardinality(Ahead(a)) # Cardinality(Ahead(b))
    BY <2>1, <2>2, FS_Subset
  <2>4. Cardinality(Ahead(a)) \in Nat /\ Cardinality(Ahead(b)) \in Nat
    BY <2>2, FS_CardinalityType
  <2>5. place[a] = Cardinality(Ahead(a)) + 1 /\ place[b] = Cardinality(Ahead(b)) + 1
    BY <1>3
  <2> HIDE DEF Ahead, place
  <2> QED BY <2>3, <2>4, <2>5
<1>5. place \in [A -> 1 .. size]
  <2>1. \A a \in A : Cardinality(Ahead(a)) + 1 \in 1 .. size
    BY <1>3
  <2> HIDE DEF Ahead, size
  <2> QED BY <2>1
<1> HIDE DEF Ahead, place, size
<1>6. place \in Surjection(A, 1 .. size)
  <2>1. \A a, b \in A : place[a] = place[b] => a = b
    <3> SUFFICES ASSUME NEW a \in A, NEW b \in A, a # b PROVE place[a] # place[b]
      OBVIOUS
    <3>1. place[a] < place[b] \/ place[b] < place[a]
      BY <1>2, <1>4
    <3> QED BY <1>3, <3>1
  <2>2. place \in Injection(A, 1 .. size)
    BY <1>5, <2>1 DEF Injection, IsInjective
  <2>3. IsFiniteSet(1 .. size) /\ Cardinality(1 .. size) = size
    BY <1>1, UptoFinite
  <2> QED BY <1>1, <2>2, <2>3, FS_Injection DEF size
<1> DEFINE s == [n \in 1 .. size |-> CHOOSE a \in A : place[a] = n]
<1>7. ASSUME NEW n \in 1 .. size
      PROVE  s[n] \in A /\ place[s[n]] = n
  <2>1. \E a \in A : place[a] = n
    BY <1>6 DEF Surjection
  <2> QED BY <2>1
<1>8. s \in [1 .. size -> A]
  BY <1>7
<1> HIDE DEF s
<1>9. s \in SetToSeqs(A)
  <2>1. \A m, n \in 1 .. size : m # n => s[m] # s[n]
    BY <1>7
  <2> QED BY <1>8, <2>1 DEF SetToSeqs, size
<1>10. InOrder(s)
  <2> SUFFICES ASSUME NEW m \in 1 .. size, NEW n \in 1 .. size, m < n
               PROVE  Before(s[m], s[n])
    BY <1>8 DEF InOrder
  <2>1. s[m] \in A /\ s[n] \in A /\ place[s[m]] = m /\ place[s[n]] = n
    BY <1>7
  <2>2. s[m] # s[n] /\ ~Before(s[n], s[m])
    <3>1. Before(s[n], s[m]) => n < m
      BY <1>4, <2>1
    <3> QED BY <2>1, <3>1
  <2> QED BY <1>2, <2>1, <2>2
<1> QED BY <1>9, <1>10 DEF A

TheList(requests) == CHOOSE s \in SetToSeqs(Aggregates(requests)) : InOrder(s)

LEMMA TheListIs ==
    ASSUME NEW requests \in Seq(QueuedRequest)
    PROVE  TheList(requests) \in SetToSeqs(Aggregates(requests)) /\ InOrder(TheList(requests))
BY OrderExists DEF TheList

(* Where the HashMap had listed them decides nothing: no two aggregates   *)
(* are equal in all that is compared.                                     *)
LEMMA SortedIsTheList ==
    ASSUME NEW requests \in Seq(QueuedRequest), NEW hashOrder \in SetToSeqs(Requested(requests))
    PROVE  Sorted(requests, hashOrder) = TheList(requests)
<1> DEFINE A == Aggregates(requests)
           Listed(a) == CHOOSE n \in DOMAIN hashOrder : hashOrder[n] = a.dest
           Ahead(a, b) == Before(a, b) \/ (~Before(b, a) /\ Listed(a) < Listed(b))
           InHashOrder(s) == \A m, n \in DOMAIN s : m < n => Ahead(s[m], s[n])
<1>1. {Aggregate(requests, dest) : dest \in ToSet(hashOrder)} = A
  BY RequestedAre, SeqsOf DEF Aggregates
<1>2. Sorted(requests, hashOrder) = CHOOSE s \in SetToSeqs(A) : InHashOrder(s)
  BY <1>1 DEF Sorted
<1>3. ASSUME NEW s \in SetToSeqs(A)
      PROVE  InHashOrder(s) <=> InOrder(s)
  <2> SUFFICES ASSUME NEW m \in DOMAIN s, NEW n \in DOMAIN s, m < n
               PROVE  Ahead(s[m], s[n]) <=> Before(s[m], s[n])
    BY DEF InOrder
  <2>1. s[m] \in A /\ s[n] \in A /\ s[m] # s[n]
    <3>1. IsFiniteSet(A) /\ m \in Nat /\ n \in Nat
      <4>1. IsFiniteSet(A)
        BY RequestedAre
      <4>2. DOMAIN s = 1 .. Cardinality(A) /\ Cardinality(A) \in Nat
        BY <4>1, SeqsOf
      <4> QED BY <4>1, <4>2
    <3> HIDE DEF A
    <3> QED BY <3>1, SeqsOf
  <2>2. Before(s[m], s[n]) <=> ~Before(s[n], s[m])
    BY <2>1, BeforeIsOrder
  <2> QED BY <2>2
<1> HIDE DEF InHashOrder, A
<1>4. (CHOOSE s \in SetToSeqs(A) : InHashOrder(s)) = CHOOSE s \in SetToSeqs(A) : InOrder(s)
  BY <1>3
<1> QED BY <1>2, <1>4 DEF TheList, A

-----------------------------------------------------------------------------
(* The greedy choice.                                                     *)

LEMMA MaxIs ==
    ASSUME NEW S, NEW top \in Nat, S \subseteq 0 .. top, S # {}
    PROVE  Max(S) \in S /\ \A y \in S : Max(S) >= y
<1> DEFINE T == {top - n : n \in S}
<1>1. T \subseteq Nat /\ T # {}
  <2>1. \A n \in S : top - n \in Nat
    OBVIOUS
  <2> QED BY <2>1
<1> HIDE DEF T
<1>2. PICK l \in T : \A m \in T : l <= m
  BY <1>1, LeastElement
<1>3. PICK x \in S : l = top - x
  BY DEF T
<1>4. \A y \in S : x >= y
  <2> TAKE y \in S
  <2>1. top - y \in T
    BY DEF T
  <2>2. top - x <= top - y
    BY <1>2, <1>3, <2>1
  <2> QED BY <2>2
<1> QED BY <1>4 DEF Max

LEMMA TakenIs ==
    ASSUME NEW s, Len(s) \in Nat
    PROVE  TakenFrom(s) \in 0 .. Len(s) /\ \A k \in 1 .. TakenFrom(s) : Fits(s, k)
<1> DEFINE S == {n \in 0 .. Len(s) : \A k \in 1 .. n : Fits(s, k)}
<1>1. 0 \in S /\ S \subseteq 0 .. Len(s)
  OBVIOUS
<1>2. TakenFrom(s) = Max(S)
  BY DEF TakenFrom
<1> HIDE DEF S
<1>3. Max(S) \in S
  BY <1>1, MaxIs
<1> QED BY <1>2, <1>3 DEF S

(* What the selection yields, whatever the HashMap did: the first taken   *)
(* aggregates of the list, as far as they fit.                            *)
SelectedFrom(selected, list, taken) ==
    /\ taken \in 0 .. Len(list) /\ \A k \in 1 .. taken : Fits(list, k)
    /\ selected.indices = UNION {list[k].indices : k \in 1 .. taken}
    /\ DOMAIN selected.outputs = 1 .. taken
    /\ \A k \in 1 .. taken : /\ selected.outputs[k].dest = list[k].dest
                             /\ selected.outputs[k].valueSats = list[k].valueSats
    /\ selected.totalMainFeeSats = SaturatingSum([k \in 1 .. taken |-> list[k].mainFeeSats])
    /\ taken = 0 => selected = NoBundle

LEMMA SelectedIs ==
    ASSUME NEW requests \in Seq(QueuedRequest), NEW sorted \in SortedLists(requests), NEW h
    PROVE  \E taken : SelectedFrom(SelectWithdrawalBundle(sorted, h), TheList(requests), taken)
<1> DEFINE list == TheList(requests)
           taken == TakenFrom(list)
           chosen == SubSeq(list, 1, taken)
           selected == SelectWithdrawalBundle(sorted, h)
<1>1. sorted = list
  <2>1. PICK hashOrder \in SetToSeqs(Requested(requests)) : sorted = Sorted(requests, hashOrder)
    BY DEF SortedLists
  <2> QED BY <2>1, SortedIsTheList
<1>2. list \in Seq(Aggregates(requests)) /\ Len(list) \in Nat
  BY TheListIs, RequestedAre, SeqsOf
<1>3. selected = IF chosen = <<>> THEN NoBundle ELSE BuildWithdrawalBundle(chosen, h)
  BY <1>1 DEF SelectWithdrawalBundle, Chosen
<1> HIDE DEF selected, list
<1>4. taken \in 0 .. Len(list) /\ \A k \in 1 .. taken : Fits(list, k)
  BY <1>2, TakenIs
<1> HIDE DEF taken
<1>5. /\ Len(chosen) = taken /\ DOMAIN chosen = 1 .. taken
      /\ \A k \in 1 .. taken : chosen[k] = list[k]
  BY <1>2, <1>4
<1>6. chosen = <<>> <=> taken = 0
  BY <1>2, <1>4, <1>5
<1> HIDE DEF chosen
<1>7. CASE taken = 0
  <2>1. selected = NoBundle /\ 1 .. taken = {}
    BY <1>3, <1>6, <1>7
  <2> DEFINE none == [k \in 1 .. taken |-> list[k].mainFeeSats]
  <2>2. none \in Seq(Nat) /\ Len(none) = 0
    <3>1. \A k \in 1 .. taken : list[k].mainFeeSats \in Nat
      BY <2>1
    <3>2. none = [k \in 1 .. taken |-> none[k]] /\ \A k \in 1 .. taken : none[k] \in Nat
      BY <3>1
    <3> HIDE DEF none
    <3>3. 0 \in Nat
      OBVIOUS
    <3> QED BY <1>7, <3>2, <3>3, ListIsSeq
  <2>3. SaturatingSum(none) = 0
    <3> HIDE DEF none
    <3>1. SumFunctionOnSet(none, 1 .. Len(none)) = 0
      <4>1. 1 .. Len(none) = {}
        BY <2>2
      <4> QED BY <4>1, SumEmpty
    <3>2. 0 <= MaxU64
      BY SelectionAssumption
    <3> QED BY <2>2, <3>1, <3>2, SaturatingSumIs
  <2>4. selected.indices = {} /\ DOMAIN selected.outputs = {} /\ selected.totalMainFeeSats = 0
    BY <2>1 DEF NoBundle
  <2>5. UNION {list[k].indices : k \in 1 .. taken} = {}
    BY <2>1
  <2> QED BY <1>4, <1>7, <2>1, <2>3, <2>4, <2>5 DEF SelectedFrom, list, selected
<1>8. CASE taken # 0
  <2>1. selected = BuildWithdrawalBundle(chosen, h)
    BY <1>3, <1>6, <1>8
  <2>2. /\ selected.totalMainFeeSats = SaturatingSum([k \in DOMAIN chosen |-> chosen[k].mainFeeSats])
        /\ selected.indices = UNION {a.indices : a \in ToSet(chosen)}
        /\ selected.outputs = [k \in DOMAIN chosen |->
                                  [dest |-> chosen[k].dest, valueSats |-> chosen[k].valueSats]]
    BY <2>1 DEF BuildWithdrawalBundle
  <2>3. [k \in DOMAIN chosen |-> chosen[k].mainFeeSats] = [k \in 1 .. taken |-> list[k].mainFeeSats]
    BY <1>5
  <2>4. UNION {a.indices : a \in ToSet(chosen)} = UNION {list[k].indices : k \in 1 .. taken}
    <3>1. ToSet(chosen) = {list[k] : k \in 1 .. taken}
      BY <1>5 DEF ToSet
    <3> QED BY <3>1
  <2>5. /\ DOMAIN selected.outputs = 1 .. taken
        /\ \A k \in 1 .. taken : /\ selected.outputs[k].dest = list[k].dest
                                 /\ selected.outputs[k].valueSats = list[k].valueSats
    BY <1>5, <2>2
  <2> QED BY <1>4, <1>8, <2>2, <2>3, <2>4, <2>5 DEF SelectedFrom, list, selected
<1> QED BY <1>7, <1>8

-----------------------------------------------------------------------------
(* The rounds of selection.                                               *)

SelectionInv ==
    /\ pending \in Seq(QueuedRequest) /\ Increasing(pending) /\ Len(pending) <= requestCount
    /\ requestCount \in 0 .. MaxRequests /\ height \in 0 .. MaxU32
    /\ \A n \in DOMAIN pending : pending[n].index \in 0 .. requestCount - 1
    /\ bundle.indices \subseteq 0 .. requestCount - 1

LEMMA InitSelection == Init => SelectionInv
<1> SUFFICES ASSUME Init PROVE SelectionInv
  OBVIOUS
<1>1. pending = <<>> /\ pending \in Seq(QueuedRequest) /\ Len(pending) = 0 /\ DOMAIN pending = {}
  BY DEF Init
<1>2. bundle.indices = {} /\ requestCount = 0 /\ height = 0
  BY DEF Init, NoBundle
<1> QED BY <1>1, <1>2, SelectionAssumption DEF SelectionInv, Increasing

(* What an aggregate of the list is: the requests of one destination.     *)
LEMMA ListedAre ==
    ASSUME SelectionInv
    PROVE  /\ pending \in Seq(QueuedRequest) /\ IsFiniteSet(DOMAIN pending)
           /\ TheList(pending) \in Seq(Aggregates(pending)) /\ Len(TheList(pending)) \in Nat
           /\ \A k \in 1 .. Len(TheList(pending)) :
                 LET a == TheList(pending)[k]
                 IN  /\ a = Aggregate(pending, a.dest) /\ a.dest \in Requested(pending)
                     /\ a.dest \in Destination
                     /\ a.indices = {pending[n].index : n \in RequestsFor(a.dest)}
                     /\ a.mainFeeSats \in Nat
                     /\ RequestsFor(a.dest) # {} /\ RequestsFor(a.dest) \subseteq DOMAIN pending
           /\ \A dest \in Requested(pending) :
                 \E k \in 1 .. Len(TheList(pending)) : TheList(pending)[k].dest = dest
           /\ \A j, k \in 1 .. Len(TheList(pending)) :
                 TheList(pending)[j].dest = TheList(pending)[k].dest => j = k
<1> DEFINE list == TheList(pending)
<1>1. pending \in Seq(QueuedRequest)
  BY DEF SelectionInv
<1>2. list \in SetToSeqs(Aggregates(pending)) /\ IsFiniteSet(Aggregates(pending))
  BY <1>1, TheListIs, RequestedAre
<1> HIDE DEF list
<1>3. /\ list \in Seq(Aggregates(pending)) /\ Len(list) \in Nat /\ DOMAIN list = 1 .. Len(list)
      /\ ToSet(list) = Aggregates(pending)
      /\ \A j, k \in DOMAIN list : list[j] = list[k] => j = k
  BY <1>2, SeqsOf
<1>4. ASSUME NEW k \in 1 .. Len(list)
      PROVE  /\ list[k] \in Aggregates(pending) /\ list[k] = Aggregate(pending, list[k].dest)
             /\ list[k].dest \in Requested(pending) /\ list[k].dest \in Destination
             /\ list[k].indices = {pending[n].index : n \in RequestsFor(list[k].dest)}
             /\ list[k].mainFeeSats \in Nat
             /\ RequestsFor(list[k].dest) # {} /\ RequestsFor(list[k].dest) \subseteq DOMAIN pending
  <2> DEFINE a == list[k]
  <2>1. a \in Aggregates(pending)
    BY <1>3
  <2> HIDE DEF a
  <2>2. a = Aggregate(pending, a.dest) /\ a.dest \in Requested(pending) /\ a.mainFeeSats \in Nat
    BY <1>1, <2>1, AggregatesAre
  <2>3. a.dest \in Destination /\ \E n \in DOMAIN pending : pending[n].dest = a.dest
    BY <1>1, <2>2, RequestedAre
  <2>4. a.indices = {pending[n].index : n \in Of(pending, a.dest)}
    BY <1>1, <2>2, AggregateIs
  <2>5. Of(pending, a.dest) = RequestsFor(a.dest)
    BY DEF Of, RequestsFor
  <2> QED BY <2>1, <2>2, <2>3, <2>4, <2>5 DEF RequestsFor, a
<1>5. ASSUME NEW dest \in Requested(pending)
      PROVE  \E k \in 1 .. Len(list) : list[k].dest = dest
  <2>1. Aggregate(pending, dest) \in ToSet(list) /\ Aggregate(pending, dest).dest = dest
    BY <1>1, <1>3, AggregateIs DEF Aggregates
  <2> QED BY <1>3, <2>1 DEF ToSet
<1>6. ASSUME NEW j \in 1 .. Len(list), NEW k \in 1 .. Len(list), list[j].dest = list[k].dest
      PROVE  j = k
  BY <1>3, <1>4, <1>6
<1>7. IsFiniteSet(DOMAIN pending)
  BY <1>1, RequestsAre
<1> QED BY <1>1, <1>3, <1>4, <1>5, <1>6, <1>7 DEF list

LEMMA SelectsPending ==
    ASSUME SelectionInv, NEW sorted \in SortedLists(pending), NEW h
    PROVE  SelectWithdrawalBundle(sorted, h).indices \subseteq {pending[n].index : n \in DOMAIN pending}
<1> DEFINE list == TheList(pending)
           selected == SelectWithdrawalBundle(sorted, h)
<1>1. PICK taken : SelectedFrom(selected, list, taken)
  BY ListedAre, SelectedIs
<1> HIDE DEF selected
<1> SUFFICES ASSUME NEW i \in selected.indices PROVE i \in {pending[n].index : n \in DOMAIN pending}
  BY DEF selected
<1>2. PICK k \in 1 .. taken : i \in list[k].indices
  BY <1>1 DEF SelectedFrom
<1>3. k \in 1 .. Len(list)
  BY <1>1, ListedAre DEF SelectedFrom
<1>4. list[k].indices = {pending[n].index : n \in RequestsFor(list[k].dest)}
  BY <1>3, ListedAre
<1> QED BY <1>2, <1>4 DEF RequestsFor

LEMMA NextSelection == SelectionInv /\ [Next]_vars => SelectionInv'
<1> SUFFICES ASSUME SelectionInv, [Next]_vars PROVE SelectionInv'
  OBVIOUS
<1>1. ASSUME NEW dest \in Destination, NEW valueSats \in ValueSats, NEW mainFeeSats \in MainFeeSats,
             Request(dest, valueSats, mainFeeSats)
      PROVE  SelectionInv'
  <2> DEFINE new == [index |-> requestCount, dest |-> dest, valueSats |-> valueSats,
                     mainFeeSats |-> mainFeeSats]
  <2>1. /\ pending' = Append(pending, new) /\ requestCount' = requestCount + 1
        /\ height' = height /\ bundle' = bundle /\ requestCount + 1 \in 0 .. MaxRequests
    BY <1>1, SelectionAssumption DEF Request, SelectionInv
  <2>2. requestCount \in Nat /\ new \in QueuedRequest /\ new.index = requestCount
    BY DEF SelectionInv, QueuedRequest
  <2> HIDE DEF new
  <2>3. /\ pending \in Seq(QueuedRequest) /\ pending' \in Seq(QueuedRequest)
        /\ Len(pending) \in Nat /\ Len(pending') = Len(pending) + 1
        /\ DOMAIN pending = 1 .. Len(pending) /\ DOMAIN pending' = 1 .. Len(pending) + 1
        /\ \A n \in 1 .. Len(pending) : pending'[n] = pending[n]
        /\ pending'[Len(pending) + 1] = new
    BY <2>1, <2>2 DEF SelectionInv
  <2>4. \A n \in DOMAIN pending : pending[n].index \in 0 .. requestCount - 1
    BY DEF SelectionInv
  <2>5. \A n \in DOMAIN pending' : pending'[n].index \in 0 .. requestCount' - 1
    BY <2>1, <2>2, <2>3, <2>4
  <2>6. Increasing(pending)'
    <3> SUFFICES ASSUME NEW m \in DOMAIN pending', NEW n \in DOMAIN pending', m < n
                 PROVE  pending'[m].index < pending'[n].index
      BY DEF Increasing
    <3>1. m \in DOMAIN pending
      BY <2>3
    <3>2. CASE n \in DOMAIN pending
      BY <2>3, <3>1, <3>2 DEF SelectionInv, Increasing
    <3>3. CASE n = Len(pending) + 1
      BY <2>2, <2>3, <2>4, <3>1, <3>3
    <3> QED BY <2>3, <3>2, <3>3
  <2>7. Len(pending') <= requestCount' /\ bundle'.indices \subseteq 0 .. requestCount' - 1
    BY <2>1, <2>2, <2>3 DEF SelectionInv
  <2> QED BY <2>1, <2>3, <2>5, <2>6, <2>7 DEF SelectionInv
<1>2. ASSUME NEW sorted \in SortedLists(pending), NextBlock(sorted)
      PROVE  SelectionInv'
  <2> DEFINE next == SaturatingAdd(height, 1, MaxU32)
             selected == SelectWithdrawalBundle(sorted, next)
  <2>1. /\ height' = next /\ bundle' = selected /\ requestCount' = requestCount
        /\ pending' = Without(pending, selected.indices)
    BY <1>2 DEF NextBlock
  <2>2. next \in 0 .. MaxU32
    BY SelectionAssumption DEF SelectionInv, SaturatingAdd
  <2>3. selected.indices \subseteq 0 .. requestCount - 1
    BY SelectsPending DEF SelectionInv
  <2> HIDE DEF next, selected
  <2>4. /\ pending' \in Seq(QueuedRequest) /\ Len(pending') <= Len(pending) /\ Increasing(pending')
        /\ \A k \in DOMAIN pending' : \E m \in DOMAIN pending : pending'[k] = pending[m]
    BY <2>1, WithoutIs DEF SelectionInv
  <2>5. Len(pending') <= requestCount'
    BY <2>1, <2>4 DEF SelectionInv
  <2> QED BY <2>1, <2>2, <2>3, <2>4, <2>5 DEF SelectionInv, Increasing
<1>3. CASE UNCHANGED vars
  BY <1>3 DEF SelectionInv, Increasing, vars
<1> QED BY <1>1, <1>2, <1>3 DEF Next, Block

THEOREM SelectionInvariant == Spec => []SelectionInv
<1>1. Init => SelectionInv
  BY InitSelection
<1>2. SelectionInv /\ [Next]_vars => SelectionInv'
  BY NextSelection
<1> QED BY <1>1, <1>2, PTL DEF Spec

(***************************************************************************)
(* Every variable keeps its type: what is selected was queued, the height *)
(* saturates at u32::MAX (src/payload.rs:111), and the requests left      *)
(* over stay in the order of their indices.                               *)
(***************************************************************************)
THEOREM SelectionTypes == Spec => []TypeOK
<1>1. SelectionInv => TypeOK
  <2> SUFFICES ASSUME SelectionInv PROVE TypeOK
    OBVIOUS
  <2>1. \A n \in DOMAIN pending : /\ pending[n].dest \in Destination
                                  /\ pending[n].valueSats \in ValueSats
                                  /\ pending[n].mainFeeSats \in MainFeeSats
    BY RequestsAre DEF SelectionInv
  <2> QED BY <2>1 DEF SelectionInv, TypeOK, Increasing
<1> QED BY <1>1, SelectionInvariant, PTL

-----------------------------------------------------------------------------
(* The M6.                                                                *)

(***************************************************************************)
(* One M6 for all nodes, whatever order their HashMaps iterate in         *)
(* (src/withdrawal_bundle.rs:258-268): the builder that broadcasts it,    *)
(* the executor that records it and the validators find the same.         *)
(***************************************************************************)
THEOREM SelectionIsCanonical == Spec => []Canonical
<1>1. SelectionInv => Canonical
  <2> SUFFICES ASSUME SelectionInv PROVE Cardinality(Selections) = 1
    BY DEF Canonical
  <2>1. pending \in Seq(QueuedRequest) /\ IsFiniteSet(Requested(pending))
    BY RequestedAre DEF SelectionInv
  <2>2. \E hashOrder : hashOrder \in SetToSeqs(Requested(pending))
    <3> DEFINE size == Cardinality(Requested(pending))
    <3>1. PICK f : f \in Bijection(1 .. size, Requested(pending))
      BY <2>1, FS_CardinalityType DEF ExistsBijection
    <3>2. f \in [1 .. size -> Requested(pending)] /\ \A m, n \in 1 .. size : m # n => f[m] # f[n]
      BY <3>1 DEF Bijection, Injection, IsInjective
    <3> QED BY <3>2 DEF SetToSeqs
  <2>3. SortedLists(pending) = {TheList(pending)}
    BY <2>1, <2>2, SortedIsTheList DEF SortedLists
  <2>4. Selections = {SelectWithdrawalBundle(TheList(pending), height)}
    BY <2>3 DEF Selections
  <2> QED BY <2>4, FS_Singleton
<1> QED BY <1>1, SelectionInvariant, PTL

LEMMA SumUpto ==
    ASSUME NEW f, NEW n \in Nat, \A k \in 1 .. n + 1 : f[k] \in Int
    PROVE  SumFunctionOnSet(f, 1 .. n + 1) = f[n + 1] + SumFunctionOnSet(f, 1 .. n)
<1>1. 1 .. n + 1 = (1 .. n) \cup {n + 1} /\ n + 1 \notin 1 .. n
  OBVIOUS
<1>2. IsFiniteSet(1 .. n)
  BY UptoFinite
<1> QED BY <1>1, <1>2, SumAdd

(* A sum of all but the first two terms.                                  *)
LEMMA SumShifted ==
    ASSUME NEW f, NEW g, NEW size \in Nat, g[1] \in Int, g[2] \in Int,
           \A k \in 1 .. size : f[k] \in Int /\ g[k + 2] = f[k]
    PROVE  SumFunctionOnSet(g, 1 .. size + 2) = g[1] + g[2] + SumFunctionOnSet(f, 1 .. size)
<1> DEFINE F(n) == SumFunctionOnSet(f, 1 .. n)
           G(n) == SumFunctionOnSet(g, 1 .. n)
           Good == {n \in Nat : n <= size => G(n + 2) = g[1] + g[2] + F(n) /\ F(n) \in Int}
<1>1. \A n \in 1 .. size + 2 : g[n] \in Int
  <2> TAKE n \in 1 .. size + 2
  <2>1. CASE n \in {1, 2}
    BY <2>1
  <2>2. CASE n \notin {1, 2}
    <3>1. n - 2 \in 1 .. size /\ (n - 2) + 2 = n
      BY <2>2
    <3> QED BY <3>1
  <2> QED BY <2>1, <2>2
<1>2. 0 \in Good
  <2>1. 1 .. 0 = {}
    OBVIOUS
  <2>2. G(0) = 0 /\ F(0) = 0
    BY <2>1, SumEmpty
  <2>3. G(1) = g[1] + G(0)
    <3>1. 1 .. 0 + 1 = 1 .. 1 /\ 0 \in Nat /\ \A k \in 1 .. 0 + 1 : g[k] \in Int
      BY <1>1
    <3>2. SumFunctionOnSet(g, 1 .. 0 + 1) = g[0 + 1] + SumFunctionOnSet(g, 1 .. 0)
      BY <3>1, SumUpto
    <3> QED BY <3>2
  <2>4. G(2) = g[2] + G(1)
    <3>1. 1 \in Nat /\ \A k \in 1 .. 1 + 1 : g[k] \in Int
      BY <1>1
    <3>2. SumFunctionOnSet(g, 1 .. 1 + 1) = g[1 + 1] + SumFunctionOnSet(g, 1 .. 1)
      BY <3>1, SumUpto
    <3> QED BY <3>2
  <2> HIDE DEF F, G
  <2>5. G(0 + 2) = g[1] + g[2] + F(0) /\ F(0) \in Int
    BY <2>2, <2>3, <2>4
  <2> QED BY <2>5
<1>3. ASSUME NEW n \in Nat, n \in Good
      PROVE  n + 1 \in Good
  <2> SUFFICES ASSUME n + 1 <= size
               PROVE  G((n + 1) + 2) = g[1] + g[2] + F(n + 1) /\ F(n + 1) \in Int
    OBVIOUS
  <2>1. G(n + 2) = g[1] + g[2] + F(n) /\ F(n) \in Int
    BY <1>3
  <2>2. F(n + 1) = f[n + 1] + F(n)
    BY SumUpto
  <2>3. G((n + 2) + 1) = g[(n + 2) + 1] + G(n + 2)
    <3>1. n + 2 \in Nat /\ \A k \in 1 .. (n + 2) + 1 : g[k] \in Int
      BY <1>1
    <3> QED BY <3>1, SumUpto
  <2>4. n + 1 \in 1 .. size /\ (n + 2) + 1 = (n + 1) + 2
    OBVIOUS
  <2> HIDE DEF F, G
  <2> QED BY <2>1, <2>2, <2>3, <2>4
<1> HIDE DEF Good
<1>4. size \in Good
  <2>1. Nat \subseteq Good
    BY <1>2, <1>3, NaturalInduction
  <2> QED BY <2>1
<1> QED BY <1>4 DEF Good

LEMMA TxoutSizeIs ==
    ASSUME NEW size \in Nat
    PROVE  VarIntSize(size) \in Nat /\ TxoutSize(size) \in Nat
BY DEF VarIntSize, TxoutSize

(***************************************************************************)
(* The M6 is a standard transaction: counted output by output, with both  *)
(* commitments, it weighs what predict_weight                             *)
(* (src/withdrawal_bundle.rs:385-477) said, so no more than the limit.    *)
(***************************************************************************)
THEOREM M6IsStandard == Spec => []WeightBound
<1>1. SelectionInv => WeightBound
  <2> SUFFICES ASSUME SelectionInv, NEW selected \in Selections, selected # NoBundle
               PROVE  M6Weight(selected) <= MaxWeight
    BY DEF WeightBound
  <2> DEFINE list == TheList(pending)
  <2>1. PICK taken : SelectedFrom(selected, list, taken)
    BY ListedAre, SelectedIs DEF Selections
  <2>2. /\ taken \in 1 .. Len(list) /\ taken \in Nat /\ Fits(list, taken)
        /\ DOMAIN selected.outputs = 1 .. taken
        /\ \A k \in 1 .. taken : /\ selected.outputs[k].dest = list[k].dest
                                 /\ SpkSize[list[k].dest] \in Nat
    <3>1. /\ taken \in 0 .. Len(list) /\ Len(list) \in Nat /\ taken # 0
          /\ \A k \in 1 .. taken : Fits(list, k)
          /\ DOMAIN selected.outputs = 1 .. taken
          /\ \A k \in 1 .. taken : selected.outputs[k].dest = list[k].dest
      BY <2>1, ListedAre DEF SelectedFrom
    <3>2. \A k \in 1 .. Len(list) : list[k].dest \in Destination
      BY ListedAre
    <3> HIDE DEF list
    <3>3. \A k \in 1 .. taken : SpkSize[list[k].dest] \in Nat
      <4> TAKE k \in 1 .. taken
      <4>1. k \in 1 .. Len(list)
        BY <3>1
      <4> QED BY <3>2, <4>1, SelectionAssumption
    <3> QED BY <3>1, <3>3
  <2> HIDE DEF list
  <2> DEFINE payouts == [n \in DOMAIN selected.outputs |-> SpkSize[selected.outputs[n].dest]]
             scripts == <<10, 34>> \o payouts
             sizes   == [n \in DOMAIN scripts |-> TxoutSize(scripts[n])]
             sized   == [k \in 1 .. taken |-> TxoutSize(SpkSize[list[k].dest])]
  <2>3. payouts \in Seq(Nat) /\ Len(payouts) = taken
    BY <2>2
  <2>4. \A k \in 1 .. taken : payouts[k] = SpkSize[list[k].dest]
    BY <2>2
  <2> HIDE DEF payouts
  <2>5. /\ Len(scripts) = taken + 2 /\ DOMAIN scripts = 1 .. taken + 2
        /\ scripts[1] = 10 /\ scripts[2] = 34
        /\ \A k \in 1 .. taken : scripts[k + 2] = payouts[k]
    BY <2>2, <2>3
  <2> HIDE DEF scripts
  <2>6. /\ sizes[1] = TxoutSize(10) /\ sizes[2] = TxoutSize(34)
        /\ \A k \in 1 .. taken : sized[k] \in Int /\ sizes[k + 2] = sized[k]
    <3>1. 1 \in DOMAIN scripts /\ 2 \in DOMAIN scripts /\ \A k \in 1 .. taken : k + 2 \in DOMAIN scripts
      BY <2>2, <2>5
    <3>2. \A k \in 1 .. taken : TxoutSize(SpkSize[list[k].dest]) \in Int
      <4> TAKE k \in 1 .. taken
      <4>1. SpkSize[list[k].dest] \in Nat
        BY <2>2
      <4>2. TxoutSize(SpkSize[list[k].dest]) \in Nat
        BY <4>1, TxoutSizeIs
      <4> QED BY <4>2
    <3> QED BY <2>4, <2>5, <3>1, <3>2
  <2>7. TxoutSize(10) \in Int /\ TxoutSize(34) \in Int
    BY TxoutSizeIs
  <2> HIDE DEF sizes, sized
  <2>8. SumFunctionOnSet(sizes, 1 .. taken + 2)
           = TxoutSize(10) + TxoutSize(34) + SumFunctionOnSet(sized, 1 .. taken)
    <3>1. sizes[1] \in Int /\ sizes[2] \in Int
      BY <2>6, <2>7
    <3>2. SumFunctionOnSet(sizes, 1 .. taken + 2)
             = sizes[1] + sizes[2] + SumFunctionOnSet(sized, 1 .. taken)
      BY <2>2, <2>6, <3>1, SumShifted
    <3> QED BY <2>6, <3>2
  <2>9. M6Weight(selected)
           = 4 * (4 + 1 + (36 + 1 + 4) + VarIntSize(taken + 2)
                  + SumFunctionOnSet(sizes, 1 .. taken + 2) + 4)
    BY <2>5 DEF M6Weight, scripts, payouts, sizes
  <2>10. PredictWeight(taken, SumFunctionOnSet(sized, 1 .. taken)) <= MaxWeight
    BY <2>2 DEF Fits, sized
  <2>11. SumFunctionOnSet(sized, 1 .. taken) \in Int /\ VarIntSize(taken + 2) \in Nat
    <3>1. IsFiniteSet(1 .. taken) /\ taken + 2 \in Nat
      BY <2>2, UptoFinite
    <3> QED BY <2>6, <3>1, SumInt, TxoutSizeIs
  <2>12. VarIntSize(0) = 1 /\ VarIntSize(1) = 1
    BY DEF VarIntSize
  <2>13. M6Weight(selected) = PredictWeight(taken, SumFunctionOnSet(sized, 1 .. taken))
    BY <2>7, <2>8, <2>9, <2>11, <2>12, SMTT(30) DEF PredictWeight
  <2> QED BY <2>10, <2>13
<1> QED BY <1>1, SelectionInvariant, PTL

-----------------------------------------------------------------------------
(* What it pays.                                                          *)

(***************************************************************************)
(* No sum saturates.  The contract takes the coins of a request when it   *)
(* queues it (contracts/WithdrawalRequestQueue.sol), so the requests      *)
(* together ask for no more than there are coins, and those are           *)
(* 2.1 * 10^15 satoshis (genesis.json:32), less than 2^51.                *)
(***************************************************************************)
AmountsFit ==
    /\ SumFunctionOnSet(Values, DOMAIN pending) <= MaxU64
    /\ SumFunctionOnSet(Fees, DOMAIN pending) <= MaxU64

LEMMA SumsFit ==
    ASSUME AmountsFit, SelectionInv, NEW S \in SUBSET DOMAIN pending
    PROVE  /\ SumFunctionOnSet(Values, S) \in Nat /\ SumFunctionOnSet(Values, S) <= MaxU64
           /\ SumFunctionOnSet(Fees, S) \in Nat /\ SumFunctionOnSet(Fees, S) <= MaxU64
<1>1. /\ IsFiniteSet(DOMAIN pending)
      /\ \A n \in DOMAIN pending : Values[n] \in Nat /\ Fees[n] \in Nat
  BY RequestsAre DEF SelectionInv, Values, Fees
<1> DEFINE all == DOMAIN pending
<1>2. /\ SumFunctionOnSet(Values, S) \in Nat
      /\ SumFunctionOnSet(Values, S) <= SumFunctionOnSet(Values, all)
      /\ SumFunctionOnSet(Values, all) \in Nat
  BY <1>1, SumSubset, SumNat
<1>3. /\ SumFunctionOnSet(Fees, S) \in Nat
      /\ SumFunctionOnSet(Fees, S) <= SumFunctionOnSet(Fees, all)
      /\ SumFunctionOnSet(Fees, all) \in Nat
  BY <1>1, SumSubset, SumNat
<1> QED BY <1>2, <1>3, SelectionAssumption DEF AmountsFit

(* Each aggregate of the list sums up one destination.                    *)
LEMMA ListedSums ==
    ASSUME AmountsFit, SelectionInv
    PROVE  \A k \in 1 .. Len(TheList(pending)) :
              LET a == TheList(pending)[k]
              IN  /\ a.valueSats = SumFunctionOnSet(Values, RequestsFor(a.dest))
                  /\ a.mainFeeSats = FeeOf(a.dest) /\ FeeOf(a.dest) \in Nat
<1> TAKE k \in 1 .. Len(TheList(pending))
<1> DEFINE a == TheList(pending)[k]
<1>1. /\ pending \in Seq(QueuedRequest) /\ a = Aggregate(pending, a.dest)
      /\ RequestsFor(a.dest) \in SUBSET DOMAIN pending
  BY ListedAre
<1> HIDE DEF a
<1>2. /\ Of(pending, a.dest) = RequestsFor(a.dest)
      /\ ValuesIn(pending) = Values /\ FeesIn(pending) = Fees
  BY DEF Of, RequestsFor, ValuesIn, Values, FeesIn, Fees
<1>3. LET value == SumFunctionOnSet(Values, RequestsFor(a.dest))
          fee   == SumFunctionOnSet(Fees, RequestsFor(a.dest))
      IN  /\ a.valueSats = IF value <= MaxU64 THEN value ELSE MaxU64
          /\ a.mainFeeSats = IF fee <= MaxU64 THEN fee ELSE MaxU64
  BY <1>1, <1>2, AggregateIs
<1>4. /\ SumFunctionOnSet(Values, RequestsFor(a.dest)) <= MaxU64
      /\ SumFunctionOnSet(Fees, RequestsFor(a.dest)) <= MaxU64
      /\ SumFunctionOnSet(Fees, RequestsFor(a.dest)) \in Nat
  BY <1>1, SumsFit
<1> QED BY <1>3, <1>4 DEF FeeOf, a

(***************************************************************************)
(* Fees buy priority (src/withdrawal_bundle.rs:262-298): the loop stops   *)
(* at the first destination that does not fit, so what it leaves behind   *)
(* comes later in the order, and offers no more than any it took.         *)
(***************************************************************************)
THEOREM FeesBuyPriority == Spec => [](AmountsFit => FeePriority)
<1>1. SelectionInv /\ AmountsFit => FeePriority
  <2> DEFINE list == TheList(pending)
  <2> SUFFICES ASSUME SelectionInv, AmountsFit, NEW selected \in Selections,
                      NEW j \in DOMAIN selected.outputs, NEW other \in Requested(pending),
                      \A n \in DOMAIN selected.outputs : selected.outputs[n].dest # other
               PROVE  FeeOf(selected.outputs[j].dest) >= FeeOf(other)
    BY DEF FeePriority
  <2>1. PICK taken : SelectedFrom(selected, list, taken)
    BY ListedAre, SelectedIs DEF Selections
  <2>2. /\ taken \in 0 .. Len(list) /\ Len(list) \in Nat /\ j \in 1 .. taken
        /\ \A n \in 1 .. taken : list[n].dest = selected.outputs[n].dest /\ list[n].dest # other
    BY <2>1, ListedAre DEF SelectedFrom
  <2>3. PICK k \in 1 .. Len(list) : list[k].dest = other
    BY ListedAre
  <2>4. list \in Seq(Aggregates(pending)) /\ InOrder(list)
    BY ListedAre, TheListIs
  <2>5. \A n \in 1 .. Len(list) : list[n].mainFeeSats = FeeOf(list[n].dest) /\ FeeOf(list[n].dest) \in Nat
    BY ListedSums
  <2> HIDE DEF list
  <2>6. j \in DOMAIN list /\ k \in DOMAIN list /\ j < k
    BY <2>2, <2>3, <2>4
  <2>7. Before(list[j], list[k])
    BY <2>4, <2>6 DEF InOrder
  <2>8. list[j].mainFeeSats >= list[k].mainFeeSats
    <3>1. list[j].mainFeeSats \in Nat /\ list[k].mainFeeSats \in Nat
      BY <2>2, <2>3, <2>5
    <3> QED BY <2>7, <3>1 DEF Before
  <2>9. j \in 1 .. Len(list)
    BY <2>2
  <2> QED BY <2>2, <2>3, <2>5, <2>8, <2>9
<1> QED BY <1>1, SelectionInvariant, PTL

(* The fees of the first destinations of the list, one after the other,   *)
(* are those of all their requests.                                       *)
LEMMA FeesAddUp ==
    ASSUME SelectionInv, AmountsFit, NEW taken \in 0 .. Len(TheList(pending))
    PROVE  SumFunctionOnSet([k \in 1 .. taken |-> TheList(pending)[k].mainFeeSats], 1 .. taken)
              = SumFunctionOnSet(Fees, UNION {RequestsFor(TheList(pending)[k].dest) : k \in 1 .. taken})
<1> DEFINE list == TheList(pending)
           Settled(k) == RequestsFor(list[k].dest)
           Upto(n) == UNION {Settled(k) : k \in 1 .. n}
           fees == [k \in 1 .. taken |-> list[k].mainFeeSats]
           Good == {n \in Nat : n <= taken =>
                       SumFunctionOnSet(fees, 1 .. n) = SumFunctionOnSet(Fees, Upto(n))}
<1>1. /\ taken \in Nat /\ IsFiniteSet(DOMAIN pending)
      /\ \A k \in 1 .. taken :
            /\ fees[k] = SumFunctionOnSet(Fees, Settled(k)) /\ fees[k] \in Nat
            /\ Settled(k) \subseteq DOMAIN pending
      /\ \A j, k \in 1 .. taken : list[j].dest = list[k].dest => j = k
  <2>1. taken \in Nat /\ \A k \in 1 .. taken : k \in 1 .. Len(list)
    BY ListedAre
  <2>2. \A k \in 1 .. Len(list) : list[k].mainFeeSats = FeeOf(list[k].dest) /\ FeeOf(list[k].dest) \in Nat
    BY ListedSums
  <2>3. /\ IsFiniteSet(DOMAIN pending)
        /\ \A k \in 1 .. Len(list) : Settled(k) \subseteq DOMAIN pending
        /\ \A j, k \in 1 .. Len(list) : list[j].dest = list[k].dest => j = k
    BY ListedAre
  <2> HIDE DEF list
  <2> QED BY <2>1, <2>2, <2>3 DEF FeeOf
<1>2. \A n \in DOMAIN pending : Fees[n] \in Nat
  BY RequestsAre DEF Fees, SelectionInv
<1>3. \A j, k \in 1 .. taken : j # k => Settled(j) \cap Settled(k) = {}
  BY <1>1 DEF RequestsFor
<1> HIDE DEF list, Settled, fees, Fees
<1>4. 0 \in Good
  <2>1. 1 .. 0 = {} /\ Upto(0) = {}
    OBVIOUS
  <2>2. SumFunctionOnSet(fees, 1 .. 0) = 0 /\ SumFunctionOnSet(Fees, Upto(0)) = 0
    BY <2>1, SumEmpty
  <2> QED BY <2>2
<1>5. ASSUME NEW n \in Nat, n \in Good
      PROVE  n + 1 \in Good
  <2> SUFFICES ASSUME n + 1 <= taken
               PROVE  SumFunctionOnSet(fees, 1 .. n + 1) = SumFunctionOnSet(Fees, Upto(n + 1))
    OBVIOUS
  <2>1. /\ n + 1 \in 1 .. taken /\ \A k \in 1 .. n : k \in 1 .. taken /\ k # n + 1
        /\ 1 .. n + 1 = (1 .. n) \cup {n + 1}
    BY <1>1
  <2>2. SumFunctionOnSet(fees, 1 .. n) = SumFunctionOnSet(Fees, Upto(n))
    BY <1>1, <1>5
  <2>3. SumFunctionOnSet(fees, 1 .. n + 1) = fees[n + 1] + SumFunctionOnSet(fees, 1 .. n)
    <3>1. \A k \in 1 .. n + 1 : fees[k] \in Int
      BY <1>1, <2>1
    <3> QED BY <3>1, SumUpto
  <2>4. Upto(n + 1) = Settled(n + 1) \cup Upto(n)
    BY <2>1
  <2>5. Settled(n + 1) \cap Upto(n) = {}
    BY <1>3, <2>1
  <2>6. Settled(n + 1) \subseteq DOMAIN pending /\ Upto(n) \subseteq DOMAIN pending
    BY <1>1, <2>1
  <2>7. fees[n + 1] = SumFunctionOnSet(Fees, Settled(n + 1))
    BY <1>1, <2>1
  <2> HIDE DEF Upto
  <2>8. /\ IsFiniteSet(Settled(n + 1)) /\ IsFiniteSet(Upto(n))
        /\ \A x \in Settled(n + 1) \cup Upto(n) : Fees[x] \in Int
    BY <1>1, <1>2, <2>6, FS_Subset
  <2>9. SumFunctionOnSet(Fees, Settled(n + 1) \cup Upto(n))
           = SumFunctionOnSet(Fees, Settled(n + 1)) + SumFunctionOnSet(Fees, Upto(n))
    BY <2>5, <2>8, SumUnion
  <2> QED BY <2>2, <2>3, <2>4, <2>7, <2>9
<1> HIDE DEF Good
<1>6. taken \in Good
  <2>1. Nat \subseteq Good
    BY <1>4, <1>5, NaturalInduction
  <2> QED BY <1>1, <2>1
<1> QED BY <1>6 DEF Good, Upto, Settled, list, fees

(***************************************************************************)
(* The M6 pays what was locked and no more                                *)
(* (src/withdrawal_bundle.rs:240-256, 270-310): what it consumes is all   *)
(* requests of the destinations it pays, each once, each output is the    *)
(* sum of its requests and the committed fee the sum of their fees.       *)
(***************************************************************************)
THEOREM PaysExactly == Spec => [](AmountsFit => PaysWhatItConsumes)
<1>1. SelectionInv /\ AmountsFit => PaysWhatItConsumes
  <2> SUFFICES ASSUME SelectionInv, AmountsFit, NEW selected \in Selections
               PROVE  LET consumed == {n \in DOMAIN pending : pending[n].index \in selected.indices}
                          settled(k) == RequestsFor(selected.outputs[k].dest)
                      IN  /\ consumed = UNION {settled(k) : k \in DOMAIN selected.outputs}
                          /\ \A k \in DOMAIN selected.outputs :
                                selected.outputs[k].valueSats = SumFunctionOnSet(Values, settled(k))
                          /\ \A j, k \in DOMAIN selected.outputs : settled(j) = settled(k) => j = k
                          /\ selected.totalMainFeeSats = SumFunctionOnSet(Fees, consumed)
    BY DEF PaysWhatItConsumes
  <2> DEFINE list == TheList(pending)
             consumed == {n \in DOMAIN pending : pending[n].index \in selected.indices}
             settled(k) == RequestsFor(selected.outputs[k].dest)
  <2>1. PICK taken : SelectedFrom(selected, list, taken)
    BY ListedAre, SelectedIs DEF Selections
  <2>2. /\ taken \in 0 .. Len(list) /\ Len(list) \in Nat /\ taken \in Nat
        /\ DOMAIN selected.outputs = 1 .. taken
        /\ selected.indices = UNION {list[k].indices : k \in 1 .. taken}
        /\ selected.totalMainFeeSats = SaturatingSum([k \in 1 .. taken |-> list[k].mainFeeSats])
        /\ \A k \in 1 .. taken : /\ k \in 1 .. Len(list)
                                 /\ selected.outputs[k].dest = list[k].dest
                                 /\ selected.outputs[k].valueSats = list[k].valueSats
    BY <2>1, ListedAre DEF SelectedFrom
  <2>3. \A k \in 1 .. Len(list) :
           /\ list[k].indices = {pending[n].index : n \in RequestsFor(list[k].dest)}
           /\ RequestsFor(list[k].dest) # {} /\ RequestsFor(list[k].dest) \subseteq DOMAIN pending
           /\ list[k].mainFeeSats \in Nat
    BY ListedAre
  <2>4. \A j, k \in 1 .. Len(list) : list[j].dest = list[k].dest => j = k
    BY ListedAre
  <2>5. \A k \in 1 .. Len(list) : list[k].valueSats = SumFunctionOnSet(Values, RequestsFor(list[k].dest))
    BY ListedSums
  <2>6. SumFunctionOnSet([k \in 1 .. taken |-> list[k].mainFeeSats], 1 .. taken)
           = SumFunctionOnSet(Fees, UNION {RequestsFor(list[k].dest) : k \in 1 .. taken})
    BY <2>2, FeesAddUp
  <2>7. \A m, n \in DOMAIN pending : pending[m].index = pending[n].index => m = n
    <3>1. pending \in Seq(QueuedRequest) /\ Increasing(pending)
      BY DEF SelectionInv
    <3>2. DOMAIN pending \subseteq Nat /\ \A n \in DOMAIN pending : pending[n].index \in Nat
      BY <3>1, RequestsAre
    <3> QED BY <3>1, <3>2 DEF Increasing
  <2> HIDE DEF list
  <2>8. consumed = UNION {settled(k) : k \in 1 .. taken}
    <3>1. ASSUME NEW n \in consumed PROVE n \in UNION {settled(k) : k \in 1 .. taken}
      <4>1. PICK k \in 1 .. taken : pending[n].index \in list[k].indices
        BY <2>2, <3>1
      <4>2. k \in 1 .. Len(list) /\ selected.outputs[k].dest = list[k].dest
        BY <2>2
      <4>3. PICK m \in RequestsFor(list[k].dest) : pending[n].index = pending[m].index
        BY <2>3, <4>1, <4>2
      <4>4. m = n
        BY <2>3, <2>7, <3>1, <4>2, <4>3
      <4> QED BY <4>2, <4>3, <4>4
    <3>2. ASSUME NEW k \in 1 .. taken, NEW n \in settled(k) PROVE n \in consumed
      <4>1. k \in 1 .. Len(list) /\ n \in RequestsFor(list[k].dest)
        BY <2>2, <3>2
      <4>2. n \in DOMAIN pending /\ pending[n].index \in list[k].indices
        BY <2>3, <4>1
      <4> QED BY <2>2, <3>2, <4>2
    <3> QED BY <3>1, <3>2
  <2>9. \A k \in 1 .. taken : settled(k) = RequestsFor(list[k].dest)
    BY <2>2
  <2>10. \A k \in 1 .. taken : selected.outputs[k].valueSats = SumFunctionOnSet(Values, settled(k))
    BY <2>2, <2>5, <2>9
  <2>11. \A j, k \in 1 .. taken : settled(j) = settled(k) => j = k
    <3> SUFFICES ASSUME NEW j \in 1 .. taken, NEW k \in 1 .. taken, settled(j) = settled(k)
                 PROVE  j = k
      OBVIOUS
    <3>1. j \in 1 .. Len(list) /\ k \in 1 .. Len(list)
      BY <2>2
    <3>2. RequestsFor(list[j].dest) = RequestsFor(list[k].dest) /\ RequestsFor(list[j].dest) # {}
      BY <2>3, <2>9, <3>1
    <3>3. list[j].dest = list[k].dest
      BY <3>2 DEF RequestsFor
    <3> QED BY <2>4, <3>1, <3>3
  <2>12. selected.totalMainFeeSats = SumFunctionOnSet(Fees, consumed)
    <3> DEFINE fees == [k \in 1 .. taken |-> list[k].mainFeeSats]
    <3>1. UNION {RequestsFor(list[k].dest) : k \in 1 .. taken} = consumed
      BY <2>8, <2>9
    <3>2. SumFunctionOnSet(fees, 1 .. taken) = SumFunctionOnSet(Fees, consumed)
      BY <2>6, <3>1
    <3>3. SumFunctionOnSet(Fees, consumed) <= MaxU64
      <4>1. consumed \in SUBSET DOMAIN pending
        OBVIOUS
      <4> HIDE DEF consumed
      <4> QED BY <4>1, SumsFit
    <3>4. fees \in Seq(Nat) /\ Len(fees) = taken
      <4>1. \A k \in 1 .. taken : fees[k] \in Nat
        BY <2>2, <2>3
      <4>2. fees = [k \in 1 .. taken |-> fees[k]]
        OBVIOUS
      <4> HIDE DEF fees
      <4> QED BY <2>2, <4>1, <4>2, ListIsSeq
    <3>5. selected.totalMainFeeSats = SaturatingSum(fees)
      BY <2>2
    <3> HIDE DEF fees, consumed
    <3> QED BY <3>2, <3>3, <3>4, <3>5, SaturatingSumIs
  <2> HIDE DEF consumed, settled
  <2> QED BY <2>2, <2>8, <2>10, <2>11, <2>12 DEF consumed, settled
<1> QED BY <1>1, SelectionInvariant, PTL

=============================================================================
