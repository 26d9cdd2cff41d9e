-------------------------- MODULE StorageReaderProofs --------------------------
(***************************************************************************)
(* What src/withdrawal_bundle.rs reads from the raw slots is what the     *)
(* contract stored there, for any size of a word, any requests and any    *)
(* destinations.                                                          *)
(***************************************************************************)
EXTENDS StorageReader, WithdrawalLifecycleProofs, SequenceTheorems

-----------------------------------------------------------------------------
(* Division.                                                              *)

LEMMA Quotient ==
    ASSUME NEW d \in Nat \ {0}, NEW q \in Nat, NEW r \in 0 .. d - 1
    PROVE  /\ q * d + r \in Nat
           /\ (q * d + r) \div d = q /\ (q * d + r) % d = r
OBVIOUS

LEMMA Division ==
    ASSUME NEW n \in Nat, NEW d \in Nat \ {0}
    PROVE  /\ n \div d \in Nat /\ n % d \in 0 .. d - 1
           /\ n = (n \div d) * d + (n % d)
OBVIOUS

(* Division by a product takes off one more digit.                        *)
LEMMA DigitOff ==
    ASSUME NEW n \in Nat, NEW p \in Nat \ {0}, NEW b \in Nat \ {0}
    PROVE  n % (b * p) = ((n \div p) % b) * p + (n % p)
<1> DEFINE q == n \div p
           r == n % p
           s == q \div b
           t == q % b
<1>1. q \in Nat /\ r \in 0 .. p - 1 /\ n = q * p + r
  BY Division
<1>2. s \in Nat /\ t \in 0 .. b - 1 /\ q = s * b + t
  BY <1>1, Division
<1> HIDE DEF q, r, s, t
<1>3. n = s * (b * p) + (t * p + r)
  <2>1. (s * b + t) * p = s * (b * p) + t * p
    BY <1>2
  <2> QED BY <1>1, <1>2, <2>1
<1>4. b * p \in Nat \ {0} /\ t * p + r \in 0 .. b * p - 1
  <2>1. t * p <= (b - 1) * p
    BY <1>2
  <2>2. (b - 1) * p = b * p - p
    OBVIOUS
  <2>3. t * p \in Nat /\ b * p \in Nat /\ b * p # 0
    BY <1>2
  <2> QED BY <1>1, <2>1, <2>2, <2>3
<1>5. n % (b * p) = t * p + r
  <2> DEFINE d == b * p
             rest == t * p + r
  <2>1. d \in Nat \ {0} /\ rest \in 0 .. d - 1 /\ n = s * d + rest
    BY <1>3, <1>4
  <2> HIDE DEF d, rest
  <2>2. n % d = rest
    BY <1>2, <2>1, Quotient
  <2> QED BY <2>2 DEF d, rest
<1> QED BY <1>5 DEF q, r, t

-----------------------------------------------------------------------------
(* Words.                                                                 *)

LEMMA PowerIs ==
    /\ \A k \in 0 .. WordBytes : Power[k] \in Nat \ {0}
    /\ Power[0] = 1
    /\ \A k \in 1 .. WordBytes : Power[k] = Base * Power[k - 1]
<1> DEFINE Powers(f) == f = [k \in 0 .. WordBytes |-> IF k = 0 THEN 1 ELSE Base * f[k - 1]]
           step == [k \in 1 .. WordBytes |-> [v \in Nat \ {0} |-> Base * v]]
<1>1. WordBytes \in Nat /\ Base \in Nat \ {0}
  BY ReaderAssumption
<1>2. \A k \in 1 .. WordBytes, v \in Nat \ {0} : step[k][v] = Base * v /\ step[k][v] \in Nat \ {0}
  <2>1. \A v \in Nat \ {0} : Base * v \in Nat \ {0}
    BY <1>1
  <2>2. \A k \in 1 .. WordBytes, v \in Nat \ {0} : step[k][v] = Base * v
    OBVIOUS
  <2> HIDE DEF step
  <2> QED BY <2>1, <2>2
<1> HIDE DEF step
<1>3. PICK f : Iterates(f, step, 1, WordBytes, Nat \ {0})
  <2> DEFINE V == Nat \ {0}
  <2>1. 1 \in V /\ \A k \in 1 .. WordBytes, v \in V : step[k][v] \in V
    BY <1>2
  <2> HIDE DEF V
  <2>2. \E f : Iterates(f, step, 1, WordBytes, V)
    BY <1>1, <2>1, RecursionExists
  <2> QED BY <2>2 DEF V
<1>4. ASSUME NEW k \in 0 .. WordBytes
      PROVE  f[k] = IF k = 0 THEN 1 ELSE Base * f[k - 1]
  <2>1. CASE k = 0
    BY <1>3, <2>1 DEF Iterates
  <2>2. CASE k # 0
    <3>1. k \in 1 .. WordBytes /\ k - 1 \in 0 .. WordBytes
      BY <1>1, <2>2
    <3>2. f[k - 1] \in Nat \ {0} /\ f[k] = step[k][f[k - 1]]
      BY <1>3, <3>1 DEF Iterates
    <3> QED BY <1>2, <2>2, <3>1, <3>2
  <2> QED BY <2>1, <2>2
<1>5. Powers(f)
  <2> DEFINE g == [k \in 0 .. WordBytes |-> IF k = 0 THEN 1 ELSE Base * f[k - 1]]
  <2>1. f = [k \in 0 .. WordBytes |-> f[k]]
    BY <1>3 DEF Iterates
  <2>2. \A k \in 0 .. WordBytes : f[k] = g[k]
    BY <1>4
  <2>3. f = g
    BY <2>1, <2>2
  <2> QED BY <2>3
<1>6. Powers(Power)
  <2>1. Power = CHOOSE h : Powers(h)
    BY DEF Power
  <2> HIDE DEF Powers
  <2> QED BY <1>5, <2>1
<1>7. \A k \in 0 .. WordBytes : Power[k] = IF k = 0 THEN 1 ELSE Base * Power[k - 1]
  BY <1>6
<1> HIDE DEF Powers
<1>8. Power[0] = 1 /\ \A k \in 1 .. WordBytes : Power[k] = Base * Power[k - 1]
  <2>1. \A k \in 1 .. WordBytes : k \in 0 .. WordBytes /\ k # 0
    BY <1>1
  <2> QED BY <1>1, <1>7, <2>1
<1>9. \A k \in 0 .. WordBytes : Power[k] \in Nat \ {0}
  <2> DEFINE Good == {k \in Nat : k <= WordBytes => Power[k] \in Nat \ {0}}
  <2>1. 0 \in Good
    BY <1>8
  <2>2. \A k \in Nat : k \in Good => k + 1 \in Good
    <3> SUFFICES ASSUME NEW k \in Nat, k \in Good, k + 1 <= WordBytes
                 PROVE  Power[k + 1] \in Nat \ {0}
      OBVIOUS
    <3>1. Power[k] \in Nat \ {0}
      BY <1>1
    <3>2. k + 1 \in 1 .. WordBytes /\ (k + 1) - 1 = k
      BY <1>1
    <3>3. Power[k + 1] = Base * Power[k]
      BY <1>8, <3>2
    <3> QED BY <1>1, <3>1, <3>3
  <2> HIDE DEF Good
  <2>3. Nat \subseteq Good
    BY <2>1, <2>2, NaturalInduction
  <2> QED BY <2>3 DEF Good
<1> QED BY <1>8, <1>9

LEMMA ToBytesIs ==
    ASSUME NEW n \in Nat
    PROVE  ToBytes(n) \in Word /\ ToBytes(n)[WordBytes] = n % Base
<1>1. WordBytes \in Nat \ {0} /\ Base \in Nat \ {0}
  BY ReaderAssumption
<1>2. ASSUME NEW k \in 1 .. WordBytes
      PROVE  (n \div Power[WordBytes - k]) % Base \in 0 .. Base - 1
  <2>1. WordBytes - k \in 0 .. WordBytes
    BY <1>1
  <2>2. n \div Power[WordBytes - k] \in Nat
    BY <2>1, PowerIs, Division
  <2> QED BY <1>1, <2>2, Division
<1>3. ToBytes(n) \in Word
  BY <1>2 DEF ToBytes, Word, Byte
<1>4. ToBytes(n)[WordBytes] = n % Base
  <2>1. WordBytes \in 1 .. WordBytes /\ WordBytes - WordBytes = 0
    BY <1>1
  <2>2. ToBytes(n)[WordBytes] = (n \div Power[0]) % Base
    BY <2>1 DEF ToBytes
  <2>3. n \div 1 = n
    OBVIOUS
  <2> QED BY <2>2, <2>3, PowerIs
<1> QED BY <1>3, <1>4

(* Positional notation: the bytes of a number add up to it.               *)
LEMMA WordIsNumber ==
    ASSUME NEW n \in Nat, n < Power[WordBytes]
    PROVE  ToNumber(ToBytes(n)) = n
<1> DEFINE word == ToBytes(n)
           terms == [k \in 1 .. WordBytes |-> word[k] * Power[WordBytes - k]]
           Low(m) == WordBytes - m + 1 .. WordBytes
           Good == {m \in Nat : m <= WordBytes => SumFunctionOnSet(terms, Low(m)) = n % Power[m]}
<1>1. WordBytes \in Nat \ {0} /\ Base \in Nat \ {0}
  BY ReaderAssumption
<1>2. ASSUME NEW k \in 1 .. WordBytes
      PROVE  /\ terms[k] = ((n \div Power[WordBytes - k]) % Base) * Power[WordBytes - k]
             /\ terms[k] \in Int
  <2>1. word[k] = (n \div Power[WordBytes - k]) % Base /\ word[k] \in Nat
    <3>1. word[k] = (n \div Power[WordBytes - k]) % Base
      BY DEF ToBytes
    <3>2. word[k] \in Byte
      BY ToBytesIs DEF Word
    <3> QED BY <1>1, <3>1, <3>2 DEF Byte
  <2>2. WordBytes - k \in 0 .. WordBytes
    BY <1>1
  <2>3. Power[WordBytes - k] \in Nat
    BY <2>2, PowerIs
  <2> HIDE DEF word
  <2> QED BY <2>1, <2>3
<1> HIDE DEF terms, word
<1>3. 0 \in Good
  <2>1. Low(0) = {}
    BY <1>1
  <2>2. n % 1 = 0
    OBVIOUS
  <2> QED BY <2>1, <2>2, SumEmpty, PowerIs
<1>4. ASSUME NEW m \in Nat, m \in Good
      PROVE  m + 1 \in Good
  <2> SUFFICES ASSUME m + 1 <= WordBytes
               PROVE  SumFunctionOnSet(terms, Low(m + 1)) = n % Power[m + 1]
    OBVIOUS
  <2> DEFINE k == WordBytes - m
  <2>1. SumFunctionOnSet(terms, Low(m)) = n % Power[m]
    BY <1>1, <1>4
  <2>2. /\ Low(m + 1) = Low(m) \cup {k} /\ k \notin Low(m)
        /\ k \in 1 .. WordBytes /\ Low(m) \subseteq 1 .. WordBytes
        /\ WordBytes - k = m
    BY <1>1
  <2>3. IsFiniteSet(Low(m))
    <3>1. IsFiniteSet(1 .. WordBytes)
      <4>1. 1 \in Int /\ WordBytes \in Int
        BY <1>1
      <4> QED BY <4>1, FS_Interval
    <3> HIDE DEF Low
    <3> QED BY <2>2, <3>1, FS_Subset
  <2> HIDE DEF Low, k
  <2>4. SumFunctionOnSet(terms, Low(m + 1)) = terms[k] + SumFunctionOnSet(terms, Low(m))
    <3>1. \A x \in Low(m) \cup {k} : terms[x] \in Int
      BY <1>2, <2>2
    <3> QED BY <2>2, <2>3, <3>1, SumAdd
  <2>5. terms[k] = ((n \div Power[m]) % Base) * Power[m]
    BY <1>2, <2>2
  <2>6. Power[m] \in Nat \ {0} /\ Power[m + 1] = Base * Power[m]
    <3>1. m \in 0 .. WordBytes /\ m + 1 \in 1 .. WordBytes /\ (m + 1) - 1 = m
      BY <1>1
    <3> QED BY <3>1, PowerIs
  <2>7. n % (Base * Power[m]) = ((n \div Power[m]) % Base) * Power[m] + (n % Power[m])
    BY <1>1, <2>6, DigitOff
  <2> QED BY <2>1, <2>4, <2>5, <2>6, <2>7
<1> HIDE DEF Good
<1>5. WordBytes \in Good
  <2>1. Nat \subseteq Good
    BY <1>3, <1>4, NaturalInduction
  <2> QED BY <1>1, <2>1
<1>6. Low(WordBytes) = 1 .. WordBytes
  BY <1>1
<1>7. ToNumber(word) = n % Power[WordBytes]
  <2>1. ToNumber(word) = SumFunctionOnSet(terms, 1 .. WordBytes)
    BY DEF ToNumber, terms
  <2> HIDE DEF Low
  <2> QED BY <1>1, <1>5, <1>6, <2>1 DEF Good
<1>8. n % Power[WordBytes] = n
  <2>1. Power[WordBytes] \in Nat \ {0}
    BY <1>1, PowerIs
  <2> QED BY <2>1
<1> QED BY <1>7, <1>8 DEF word

LEMMA ReadsU64 ==
    ASSUME NEW n \in 0 .. MaxSats
    PROVE  ReadU64(ToBytes(n)) = n
<1>1. n \in Nat /\ n < Power[WordBytes] /\ n <= MaxSats
  <2>1. /\ MaxSats \in Nat /\ WordBytes \in Nat
        /\ Power[WordBytes] \in Nat /\ MaxSats < Power[WordBytes]
    BY ReaderAssumption, QueueAssumption, PowerIs
  <2> QED BY <2>1
<1> QED BY <1>1, WordIsNumber DEF ReadU64

-----------------------------------------------------------------------------
(* The head of a byte string.                                             *)

LEMMA LongHead ==
    ASSUME NEW bytes \in Seq(Byte), 2 * Len(bytes) + 1 < Power[WordBytes], IsLong(bytes)
    PROVE  DecodeBytesHead(BytesHead(bytes)) = [inline |-> FALSE, length |-> Len(bytes)]
<1> DEFINE n == 2 * Len(bytes) + 1
           word == ToBytes(n)
<1>1. Len(bytes) \in Nat /\ n \in Nat
  OBVIOUS
<1>2. ToNumber(word) = n /\ word[WordBytes] = n % Base
  <2> HIDE DEF n
  <2>1. n < Power[WordBytes]
    BY DEF n
  <2> QED BY <1>1, <2>1, WordIsNumber, ToBytesIs
<1>3. (n % Base) % 2 = 1
  <2> DEFINE h == Base \div 2
             q == n \div Base
             r == n % Base
  <2>1. Base \in Nat \ {0} /\ h \in Nat /\ Base = 2 * h
    BY ReaderAssumption
  <2>2. q \in Nat /\ r \in Nat /\ n = q * Base + r
    <3> HIDE DEF n
    <3>1. q \in Nat /\ r \in 0 .. Base - 1 /\ n = q * Base + r
      <4> HIDE DEF h
      <4> QED BY <1>1, <2>1, Division
    <3> HIDE DEF q, r
    <3> QED BY <2>1, <3>1
  <2> HIDE DEF h, q, r
  <2>3. q * (2 * h) = 2 * (q * h) /\ q * h \in Nat
    BY <2>1, <2>2
  <2>4. r = 2 * (Len(bytes) - q * h) + 1
    BY <1>1, <2>1, <2>2, <2>3
  <2> DEFINE m == Len(bytes) - q * h
  <2>5. m \in Int /\ r = 2 * m + 1
    BY <1>1, <2>3, <2>4
  <2> HIDE DEF m
  <2>6. r % 2 = 1
    BY <2>5
  <2> QED BY <2>6 DEF r
<1>4. n \div 2 = Len(bytes)
  BY <1>1
<1>5. BytesHead(bytes) = word
  BY DEF BytesHead
<1> HIDE DEF n, word
<1>6. word[WordBytes] % 2 # 0 /\ ToNumber(word) \div 2 = Len(bytes)
  BY <1>2, <1>3, <1>4
<1> QED BY <1>5, <1>6 DEF DecodeBytesHead

LEMMA ShortHead ==
    ASSUME NEW bytes \in Seq(Byte), ~IsLong(bytes)
    PROVE  DecodeBytesHead(BytesHead(bytes)) = [inline |-> TRUE, bytes |-> bytes]
<1> DEFINE n == Len(bytes)
           word == [k \in 1 .. WordBytes |-> IF k = WordBytes THEN 2 * n ELSE ByteAt(bytes, k)]
<1>1. /\ WordBytes \in Nat \ {0} /\ Base \in Nat /\ 2 * WordBytes <= Base
      /\ n \in Nat /\ n < WordBytes
      /\ DOMAIN bytes = 1 .. n /\ \A k \in 1 .. n : bytes[k] \in Byte
  BY ReaderAssumption DEF IsLong
<1>2. BytesHead(bytes) = word
  BY DEF BytesHead
<1>3. /\ word[WordBytes] = 2 * n
      /\ \A k \in 1 .. n : word[k] = bytes[k]
      /\ \A k \in 1 .. WordBytes : word[k] \in Byte
  <2> HIDE DEF n
  <2> QED BY <1>1 DEF ByteAt, Byte
<1>4. word \in Seq(Byte) /\ Len(word) = WordBytes
  <2>1. DOMAIN word = 1 .. WordBytes
    OBVIOUS
  <2> HIDE DEF word
  <2>2. word \in [1 .. WordBytes -> Byte]
    <3>1. word = [k \in 1 .. WordBytes |-> word[k]]
      BY DEF word
    <3> QED BY <1>3, <3>1
  <2> QED BY <1>1, <2>1, <2>2
<1> HIDE DEF word
<1>5. SubSeq(word, 1, n) = bytes
  <2>1. /\ SubSeq(word, 1, n) \in Seq(Byte) /\ Len(SubSeq(word, 1, n)) = n
        /\ \A k \in 1 .. n : SubSeq(word, 1, n)[k] = word[k]
    BY <1>1, <1>4, SubSeqProperties
  <2> DEFINE sub == SubSeq(word, 1, n)
  <2>2. sub \in Seq(Byte) /\ Len(sub) = Len(bytes) /\ \A k \in 1 .. Len(bytes) : sub[k] = bytes[k]
    BY <1>3, <2>1
  <2> HIDE DEF sub
  <2>3. sub = bytes
    BY <2>2, SeqEqual
  <2> QED BY <2>3 DEF sub
<1> HIDE DEF n
<1>6. word[WordBytes] % 2 = 0 /\ word[WordBytes] \div 2 = n
  BY <1>1, <1>3
<1> QED BY <1>2, <1>5, <1>6 DEF DecodeBytesHead

(* The words after the head hold the bytes in order.                      *)
LEMMA ChunkIs ==
    ASSUME NEW bytes \in Seq(Byte), NEW k \in 1 .. Len(bytes)
    PROVE  LET n == (k - 1) \div WordBytes
               m == ((k - 1) % WordBytes) + 1
           IN  n \in Nat /\ m \in 1 .. WordBytes /\ ByteAt(bytes, n * WordBytes + m) = bytes[k]
<1> DEFINE n == (k - 1) \div WordBytes
           m == ((k - 1) % WordBytes) + 1
<1>1. WordBytes \in Nat \ {0} /\ k - 1 \in Nat
  BY ReaderAssumption
<1>2. /\ n \in Nat /\ (k - 1) % WordBytes \in 0 .. WordBytes - 1
      /\ k - 1 = n * WordBytes + ((k - 1) % WordBytes)
  BY <1>1, Division
<1>3. n \in Nat /\ m \in 1 .. WordBytes /\ n * WordBytes + m = k
  <2> DEFINE rest == (k - 1) % WordBytes
  <2> HIDE DEF n
  <2>1. n \in Nat /\ rest \in 0 .. WordBytes - 1 /\ k - 1 = n * WordBytes + rest
    BY <1>2
  <2> HIDE DEF rest
  <2>2. n * WordBytes \in Nat
    BY <1>1, <2>1
  <2>3. rest + 1 \in 1 .. WordBytes /\ n * WordBytes + (rest + 1) = k
    BY <1>1, <2>1, <2>2
  <2> QED BY <2>1, <2>3 DEF rest
<1> HIDE DEF n, m
<1>4. ByteAt(bytes, k) = bytes[k]
  BY DEF ByteAt
<1> QED BY <1>3, <1>4 DEF n, m

-----------------------------------------------------------------------------
(* The slots.                                                             *)

LEMMA CountSlot ==
    ASSUME NEW q, NEW destination
    PROVE  Storage(q, destination, RequestCountSlot) = ToBytes(q.requestCount)
BY DEF Storage, RequestCountSlot

LEMMA FieldSlot ==
    ASSUME NEW q, NEW destination, NEW index \in Queued(q), NEW field \in 1 .. 5
    PROVE  Storage(q, destination, AddSlot(EntrySlot(index), field))
              = Field(q, destination, index, field)
<1>1. AddSlot(EntrySlot(index), field) = <<"entry", index, field>>
  BY DEF AddSlot, EntrySlot
<1> QED BY <1>1 DEF Storage, RequestCountSlot

LEMMA BytesSlot ==
    ASSUME NEW q, NEW destination, NEW index \in Queued(q), NEW n \in Nat,
           IsLong(destination[index])
    PROVE  Storage(q, destination, AddSlot(Keccak(AddSlot(EntrySlot(index), 3)), n))
              = [k \in 1 .. WordBytes |-> ByteAt(destination[index], n * WordBytes + k)]
<1> DEFINE slot == AddSlot(Keccak(AddSlot(EntrySlot(index), 3)), n)
<1>1. slot = <<"bytes", index, n>>
  BY DEF AddSlot, EntrySlot, Keccak
<1>2. slot[1] = "bytes" /\ slot[2] = index /\ slot[3] = n /\ slot # RequestCountSlot
  BY <1>1 DEF RequestCountSlot
<1> HIDE DEF slot
<1>3. Storage(q, destination, slot)
         = [k \in 1 .. WordBytes |-> ByteAt(destination[index], slot[3] * WordBytes + k)]
  BY <1>2 DEF Storage
<1> QED BY <1>2, <1>3 DEF slot

LEMMA StatusIsRead ==
    ASSUME NEW status \in Status
    PROVE  StatusCode[status] \in 0 .. 3 /\ ReadStatus(StatusCode[status]) = status
BY DEF Status, StatusCode, ReadStatus

LEMMA DestinationIsRead ==
    ASSUME NEW q, NEW destination \in Destinations, NEW index \in Queued(q), index \in Index
    PROVE  ReadDynamicBytes(q, destination, AddSlot(EntrySlot(index), 3)) = destination[index]
<1> DEFINE bytes == destination[index]
           slot == AddSlot(EntrySlot(index), 3)
           chunk(n) == Storage(q, destination, AddSlot(Keccak(slot), n))
<1>1. bytes \in Seq(Byte) /\ 2 * Len(bytes) + 1 < Power[WordBytes]
  BY ReaderAssumption
<1>2. Storage(q, destination, slot) = BytesHead(bytes)
  BY FieldSlot DEF Field
<1>3. CASE ~IsLong(bytes)
  <2> HIDE DEF slot, bytes
  <2>1. DecodeBytesHead(BytesHead(bytes)) = [inline |-> TRUE, bytes |-> bytes]
    BY <1>1, <1>3, ShortHead
  <2> QED BY <1>2, <2>1 DEF ReadDynamicBytes, bytes, slot
<1>4. CASE IsLong(bytes)
  <2>1. DecodeBytesHead(BytesHead(bytes)) = [inline |-> FALSE, length |-> Len(bytes)]
    <3> HIDE DEF bytes
    <3> QED BY <1>1, <1>4, LongHead
  <2>2. ASSUME NEW k \in 1 .. Len(bytes)
        PROVE  chunk((k - 1) \div WordBytes)[((k - 1) % WordBytes) + 1] = bytes[k]
    <3> DEFINE n == (k - 1) \div WordBytes
               m == ((k - 1) % WordBytes) + 1
    <3>1. n \in Nat /\ m \in 1 .. WordBytes /\ ByteAt(bytes, n * WordBytes + m) = bytes[k]
      BY <1>1, ChunkIs
    <3> HIDE DEF n, m
    <3>2. chunk(n) = [j \in 1 .. WordBytes |-> ByteAt(bytes, n * WordBytes + j)]
      BY <1>4, <3>1, BytesSlot
    <3> HIDE DEF chunk
    <3>3. chunk(n)[m] = bytes[k]
      BY <3>1, <3>2
    <3> QED BY <3>3 DEF n, m
  <2>3. ReadDynamicBytes(q, destination, slot)
           = [k \in 1 .. Len(bytes) |-> chunk((k - 1) \div WordBytes)[((k - 1) % WordBytes) + 1]]
    <3> HIDE DEF bytes
    <3> QED BY <1>2, <2>1 DEF ReadDynamicBytes, slot
  <2> HIDE DEF chunk, slot, bytes
  <2>4. ReadDynamicBytes(q, destination, slot) = [k \in 1 .. Len(bytes) |-> bytes[k]]
    BY <2>2, <2>3
  <2>5. bytes = [k \in 1 .. Len(bytes) |-> bytes[k]]
    BY <1>1
  <2> QED BY <2>4, <2>5 DEF bytes, slot
<1> QED BY <1>3, <1>4

(***************************************************************************)
(* A queue whose amounts fit a u64 is read back as it is.                 *)
(***************************************************************************)
U64(q) == \A i \in Index : Sats(q)[i] <= MaxSats

LEMMA EntryIsRead ==
    ASSUME NEW q \in QueueState, U64(q), Unassigned(q),
           NEW destination \in Destinations, NEW index \in Queued(q)
    PROVE  ReadEntry(q, destination, index) = Entry(q, destination, index)
<1> DEFINE request == q.requests[index]
           word(field) == Storage(q, destination, AddSlot(EntrySlot(index), field))
<1>1. index \in Index
  BY SatsType
<1>2. /\ request.valueSats \in 0 .. MaxSats /\ request.mainFeeSats \in 0 .. MaxSats
      /\ request.status \in Status
      /\ request.status = "Pending" => request.bundleM6id = NoBundle
  <2>1. /\ request.valueSats \in Nat /\ request.mainFeeSats \in Nat /\ request.status \in Status
    BY <1>1 DEF QueueState, Request
  <2>2. request.valueSats + request.mainFeeSats <= MaxSats
    BY <1>1 DEF U64, Sats
  <2>3. request.status = "Pending" => request.bundleM6id = NoBundle
    BY <1>1 DEF Unassigned
  <2> HIDE DEF request
  <2> QED BY <2>1, <2>2, <2>3, QueueAssumption
<1>3. /\ word(1) = ToBytes(request.valueSats) /\ word(2) = ToBytes(request.mainFeeSats)
      /\ word(4) = ToBytes(StatusCode[request.status]) /\ word(5) = request.bundleM6id
  BY FieldSlot DEF Field
<1>4. ReadDynamicBytes(q, destination, AddSlot(EntrySlot(index), 3)) = destination[index]
  BY <1>1, DestinationIsRead
<1> HIDE DEF request, word
<1>5. ReadU64(word(1)) = request.valueSats /\ ReadU64(word(2)) = request.mainFeeSats
  BY <1>2, <1>3, ReadsU64
<1>6. ReadStatus(ReadU64(word(4))) = request.status
  <2>1. StatusCode[request.status] \in 0 .. MaxSats
    BY <1>2, StatusIsRead, QueueAssumption, ReaderAssumption
  <2> QED BY <1>2, <1>3, <2>1, ReadsU64, StatusIsRead
<1>7. (IF request.status = "Pending" THEN NoBundle ELSE word(5)) = request.bundleM6id
  BY <1>2, <1>3
<1>8. ReadEntry(q, destination, index) =
         [valueSats      |-> ReadU64(word(1)),
          mainFeeSats    |-> ReadU64(word(2)),
          btcDestination |-> ReadDynamicBytes(q, destination, AddSlot(EntrySlot(index), 3)),
          status         |-> ReadStatus(ReadU64(word(4))),
          bundleM6id     |-> IF ReadStatus(ReadU64(word(4))) = "Pending" THEN NoBundle ELSE word(5)]
  BY DEF ReadEntry, word
<1>9. Entry(q, destination, index) =
         [valueSats      |-> request.valueSats,
          mainFeeSats    |-> request.mainFeeSats,
          btcDestination |-> destination[index],
          status         |-> request.status,
          bundleM6id     |-> request.bundleM6id]
  BY DEF Entry, request
<1> QED BY <1>4, <1>5, <1>6, <1>7, <1>8, <1>9

LEMMA QueueIsRead ==
    ASSUME NEW q \in QueueState, U64(q), Unassigned(q), NEW destination \in Destinations
    PROVE  ReadAllRequests(q, destination) = [index \in Queued(q) |-> Entry(q, destination, index)]
<1>1. q.requestCount \in 0 .. MaxSats
  <2>1. q.requestCount \in 0 .. MaxRequests
    BY DEF QueueState
  <2> QED BY <2>1, UpdateAssumption, QueueAssumption, ReaderAssumption
<1>2. ReadU64(Storage(q, destination, RequestCountSlot)) = q.requestCount
  BY <1>1, CountSlot, ReadsU64
<1>3. ReadAllRequests(q, destination) = [index \in Queued(q) |-> ReadEntry(q, destination, index)]
  BY <1>2 DEF ReadAllRequests, Queued
<1> QED BY <1>3, EntryIsRead

-----------------------------------------------------------------------------
(***************************************************************************)
(* Invariant: every amount fits a u64, in the state in progress and in    *)
(* those it may go back to; requestWithdrawal checks the sum.             *)
(***************************************************************************)
AmountsInv ==
    /\ Shape
    /\ U64(queue) /\ U64(parent)
    /\ Calling => U64(beforeCall)

LEMMA RequestU64 ==
    ASSUME AmountsInv, NEW msgValue \in MsgValue, NEW mainFeeSats \in MainFeeSats,
           RequestWithdrawal(msgValue, mainFeeSats)
    PROVE  AmountsInv'
<1>1. Shape /\ Shape'
  BY RequestShape DEF AmountsInv
<1>2. queue' \in QueueState /\ queue.requestCount \in Index
  BY <1>1, RequestEffect DEF Shape, TypeOK
<1>3. Sats(queue')[queue.requestCount] = msgValue \div WeiPerSat
  <2> DEFINE sats == Sats(queue')[queue.requestCount]
  <2>1. WeiPerSat * sats = msgValue /\ sats \in Nat /\ WeiPerSat \in Nat \ {0}
    BY <1>1, <1>2, RequestAmounts, SatsType, QueueAssumption
  <2> HIDE DEF sats
  <2>2. 0 \in 0 .. WeiPerSat - 1 /\ sats * WeiPerSat + 0 = msgValue
    BY <2>1
  <2>3. (sats * WeiPerSat + 0) \div WeiPerSat = sats
    BY <2>1, <2>2, Quotient
  <2> QED BY <2>2, <2>3 DEF sats
<1>4. msgValue \div WeiPerSat <= MaxSats
  BY DEF RequestWithdrawal
<1>5. \A i \in Index \ {queue.requestCount} : Sats(queue')[i] = Sats(queue)[i]
  BY <1>1, RequestAmounts
<1>6. U64(queue')
  BY <1>3, <1>4, <1>5 DEF U64, AmountsInv
<1>7. UNCHANGED <<parent, phase, beforeCall>>
  BY DEF RequestWithdrawal, chain
<1> QED BY <1>1, <1>6, <1>7 DEF AmountsInv, U64, Calling

LEMMA ReportU64 ==
    ASSUME AmountsInv, NEW bundled \in SUBSET Index, NEW n \in Nat,
           NEW outcomes \in [1 .. n -> Outcome], ReportLifecycle(bundled, outcomes)
    PROVE  AmountsInv'
<1>1. Shape /\ Shape'
  BY ReportShape DEF AmountsInv
<1>2. Sats(queue') = Sats(queue)
  BY <1>1, ReportAmounts
<1>3. parent' = parent /\ (Calling' => beforeCall' = queue)
  BY DEF ReportLifecycle, chain, Calling
<1> QED BY <1>1, <1>2, <1>3 DEF AmountsInv, U64

LEMMA RefundU64 ==
    ASSUME AmountsInv, NEW job \in todo, RefundAccepted(job) \/ RefundRejected(job)
    PROVE  AmountsInv'
<1>1. Shape /\ Shape'
  BY RefundShape DEF AmountsInv
<1>2. Sats(queue') = Sats(queue)
  BY <1>1, RefundAmounts
<1>3. UNCHANGED <<parent, beforeCall>> /\ Calling
  BY DEF RefundAccepted, RefundRejected, chain, Calling
<1> QED BY <1>1, <1>2, <1>3 DEF AmountsInv, U64

LEMMA ControlU64 == AmountsInv /\ Control => AmountsInv'
<1> SUFFICES ASSUME AmountsInv, Control PROVE AmountsInv'
  OBVIOUS
<1>1. Shape /\ Shape'
  BY ControlShape DEF AmountsInv
<1> USE DEF AmountsInv, Calling, chain, U64
<1>2. CASE \E job \in todo : RefundReverts(job)
  BY <1>1, <1>2 DEF RefundReverts
<1>3. CASE CalleeReturns
  BY <1>1, <1>3 DEF CalleeReturns
<1>4. CASE LifecycleHalts
  BY <1>1, <1>4 DEF LifecycleHalts
<1>5. CASE LifecycleReturns
  BY <1>1, <1>5 DEF LifecycleReturns
<1>6. CASE StartBlock
  BY <1>1, <1>6 DEF StartBlock
<1>7. CASE SealBlock
  BY <1>1, <1>7 DEF SealBlock
<1>8. CASE AbandonBlock
  BY <1>1, <1>8 DEF AbandonBlock
<1>9. CASE DepositsHalt
  BY <1>1, <1>9 DEF DepositsHalt
<1> QED BY <1>2, <1>3, <1>4, <1>5, <1>6, <1>7, <1>8, <1>9 DEF Control

LEMMA InitU64 == Init => AmountsInv
<1> SUFFICES ASSUME Init PROVE AmountsInv
  OBVIOUS
<1>1. \A i \in Index : Sats(queue)[i] = 0
  BY DEF Init, Sats, EmptyRequest
<1>2. parent = queue /\ ~Calling
  BY DEF Init, Calling
<1> QED BY <1>1, <1>2, InitShape, QueueAssumption DEF AmountsInv, U64

LEMMA NextU64 == AmountsInv /\ [Next]_vars => AmountsInv'
<1> SUFFICES ASSUME AmountsInv, [Next]_vars PROVE AmountsInv'
  OBVIOUS
<1>1. CASE Next
  BY <1>1, NextCases, RequestU64, ReportU64, RefundU64, ControlU64
<1>2. CASE UNCHANGED vars
  BY <1>2, NextShape DEF vars, AmountsInv, Calling, U64
<1> QED BY <1>1, <1>2

(* Every amount fits a u64 at every step.                                 *)
THEOREM AmountsInvariant == Spec => []AmountsInv
  BY InitU64, NextU64, PTL DEF Spec

(***************************************************************************)
(* What builder and executor read from the raw slots of the parent state  *)
(* is what the contract stored there: every count, amount, status, bundle *)
(* and destination, inline or long, for every size of a word.             *)
(***************************************************************************)
THEOREM ReaderIsFaithful == Spec => []ReaderSeesQueue
<1>1. AmountsInv /\ LifecycleInv => ReaderSeesQueue
  <2> SUFFICES ASSUME AmountsInv, LifecycleInv, NEW destination \in Destinations
               PROVE  ReadAllRequests(parent, destination) =
                         [index \in Queued(parent) |-> Entry(parent, destination, index)]
    BY DEF ReaderSeesQueue
  <2>1. parent \in QueueState /\ U64(parent) /\ Unassigned(parent)
    BY DEF AmountsInv, Shape, TypeOK, LifecycleInv
  <2> QED BY <2>1, QueueIsRead
<1> QED BY <1>1, AmountsInvariant, LifecycleInvariant, PTL

=============================================================================
