----------------------------- MODULE StorageReader -----------------------------
(***************************************************************************)
(* How src/withdrawal_bundle.rs reads the queue out of the parent state:  *)
(* from the raw storage slots of the contract, with no contract code in   *)
(* between.  Below, what the Solidity compiler writes into the slots (as  *)
(* contracts/WithdrawalRequestQueue.sol:63-78 lays it out) and what the   *)
(* Rust reader makes of them.                                             *)
(*                                                                        *)
(* A word is WordBytes bytes, big-endian.  A slot is named by where it    *)
(* comes from and an offset, so that two hashes never collide; the word   *)
(* of bundleM6id is opaque.                                               *)
(***************************************************************************)
EXTENDS WithdrawalRequestQueue, Sequences

CONSTANTS
    WordBytes,      \* 32
    Base,           \* 256
    Destinations    \* the btcDestination of each request: all cases (model input)

Byte == 0 .. Base - 1
Word == [1 .. WordBytes -> Byte]

Power[k \in 0 .. WordBytes] == IF k = 0 THEN 1 ELSE Base * Power[k - 1]

(***************************************************************************)
(* A length of up to WordBytes - 1 has to fit the last byte, doubled, and *)
(* any other length a word, with its marker; so does a u64, which has     *)
(* room for every status and for the number of requests.                  *)
(***************************************************************************)
ASSUME ReaderAssumption ==
    /\ WordBytes \in Nat \ {0}
    /\ Base \in Nat /\ Base % 2 = 0 /\ 2 * WordBytes <= Base
    /\ Destinations \subseteq [Index -> Seq(Byte)]
    /\ \A destination \in Destinations, i \in Index :
          2 * Len(destination[i]) + 1 < Power[WordBytes]
    /\ 3 <= MaxSats /\ MaxRequests <= MaxSats /\ MaxSats < Power[WordBytes]

ToBytes(n) == [k \in 1 .. WordBytes |-> (n \div Power[WordBytes - k]) % Base]
ToNumber(word) ==
    SumFunctionOnSet([k \in 1 .. WordBytes |-> word[k] * Power[WordBytes - k]], 1 .. WordBytes)

ByteAt(bytes, k) == IF k \in DOMAIN bytes THEN bytes[k] ELSE 0

(* A slot: <<"contract", 0, k>>, <<"entry", index, field>>, or            *)
(* <<"bytes", index, k>>, k words after keccak256(entry slot 3).          *)
RequestCountSlot == <<"contract", 0, 0>>
EntrySlot(index) == <<"entry", index, 0>>
Keccak(slot) == <<"bytes", slot[2], 0>>

AddSlot(slot, offset) == <<slot[1], slot[2], slot[3] + offset>>

-----------------------------------------------------------------------------
(* What the contract stored.                                              *)

StatusCode == [Pending |-> 0, Bundled |-> 1, Confirmed |-> 2, Refunded |-> 3]

IsLong(bytes) == Len(bytes) >= WordBytes

BytesHead(bytes) ==
    IF IsLong(bytes)
    THEN ToBytes(2 * Len(bytes) + 1)
    ELSE [k \in 1 .. WordBytes |-> IF k = WordBytes THEN 2 * Len(bytes) ELSE ByteAt(bytes, k)]

Field(q, destination, index, field) ==
    LET request == q.requests[index] IN
    CASE field = 1 -> ToBytes(request.valueSats)
      [] field = 2 -> ToBytes(request.mainFeeSats)
      [] field = 3 -> BytesHead(destination[index])
      [] field = 4 -> ToBytes(StatusCode[request.status])
      [] field = 5 -> request.bundleM6id

(* StateProvider::storage; a slot that was never written is zero.         *)
Storage(q, destination, slot) ==
    LET index == slot[2] IN
    CASE slot = RequestCountSlot -> ToBytes(q.requestCount)
      [] slot[1] = "entry" /\ index \in Queued(q) /\ slot[3] \in 1 .. 5 ->
            Field(q, destination, index, slot[3])
      [] slot[1] = "bytes" /\ index \in Queued(q) /\ IsLong(destination[index]) ->
            [k \in 1 .. WordBytes |-> ByteAt(destination[index], slot[3] * WordBytes + k)]
      [] OTHER -> ToBytes(0)

-----------------------------------------------------------------------------
(* The reader.                                                            *)

ReadU64(word) == LET n == ToNumber(word) IN IF n <= MaxSats THEN n ELSE MaxSats

(* A bug the properties must notice, not the code: the marker of the long *)
(* form is taken for the length.                                          *)
DecodeBytesHeadUnshifted(word) ==
    IF word[WordBytes] % 2 = 0
    THEN [inline |-> TRUE, bytes |-> SubSeq(word, 1, word[WordBytes] \div 2)]
    ELSE [inline |-> FALSE, length |-> ToNumber(word)]

DecodeBytesHead(word) ==
    IF word[WordBytes] % 2 = 0
    THEN [inline |-> TRUE, bytes |-> SubSeq(word, 1, word[WordBytes] \div 2)]
    ELSE [inline |-> FALSE, length |-> ToNumber(word) \div 2]

ReadDynamicBytes(q, destination, slot) ==
    LET head     == DecodeBytesHead(Storage(q, destination, slot))
        chunk(k) == Storage(q, destination, AddSlot(Keccak(slot), k))
    IN  IF head.inline THEN head.bytes
        ELSE [k \in 1 .. head.length |->
                 chunk((k - 1) \div WordBytes)[((k - 1) % WordBytes) + 1]]

(* 0, 1 and 2; anything else is terminal.                                 *)
ReadStatus(code) ==
    IF code <= 2 THEN <<"Pending", "Bundled", "Confirmed">>[code + 1] ELSE "Refunded"

ReadEntry(q, destination, index) ==
    LET word(field) == Storage(q, destination, AddSlot(EntrySlot(index), field))
        status      == ReadStatus(ReadU64(word(4)))
    IN  [valueSats      |-> ReadU64(word(1)),
         mainFeeSats    |-> ReadU64(word(2)),
         btcDestination |-> ReadDynamicBytes(q, destination, AddSlot(EntrySlot(index), 3)),
         status         |-> status,
         bundleM6id     |-> IF status = "Pending" THEN NoBundle ELSE word(5)]

ReadAllRequests(q, destination) ==
    LET count == ReadU64(Storage(q, destination, RequestCountSlot))
    IN  [index \in 0 .. count - 1 |-> ReadEntry(q, destination, index)]

-----------------------------------------------------------------------------
(***************************************************************************)
(* What the reader sees of the parent state is what the contract put      *)
(* there, for destinations on both sides of the boundary between the      *)
(* inline and the long form and of the chunk boundaries: builder and      *)
(* executor select from the requests users made.                          *)
(***************************************************************************)
Entry(q, destination, index) ==
    LET request == q.requests[index] IN
    [valueSats      |-> request.valueSats,
     mainFeeSats    |-> request.mainFeeSats,
     btcDestination |-> destination[index],
     status         |-> request.status,
     bundleM6id     |-> request.bundleM6id]

ReaderSeesQueue ==
    phase = "sealed" =>
        \A destination \in Destinations :
            ReadAllRequests(parent, destination) =
                [index \in Queued(parent) |-> Entry(parent, destination, index)]
=============================================================================
