---------------------------- MODULE BethChainProofs ----------------------------
(***************************************************************************)
(* Theorems about the chain a node builds in Beth: its type invariant,    *)
(* the deposits handed over, the M6s it proposes and what becomes of      *)
(* them, for every bound, every search window and every set of faults     *)
(* (but for those that a theorem's hypotheses exclude).                   *)
(***************************************************************************)
EXTENDS BethProofs, FoldTheorems

-----------------------------------------------------------------------------
(***************************************************************************)
(* Sequences.                                                             *)
(***************************************************************************)
LEMMA LastAppended ==
    ASSUME NEW S, NEW s \in Seq(S), NEW n \in Nat, Len(s) = n + 1
    PROVE  /\ SubSeq(s, 1, n) \in Seq(S) /\ Len(SubSeq(s, 1, n)) = n
           /\ s[n + 1] \in S
           /\ s = Append(SubSeq(s, 1, n), s[n + 1])
<1> DEFINE front == SubSeq(s, 1, n)
<1>1. front \in Seq(S) /\ Len(front) = n /\ s[n + 1] \in S
      /\ \A i \in 1 .. n : front[i] = s[i]
  OBVIOUS
<1> HIDE DEF front
<1>2. /\ Append(front, s[n + 1]) \in Seq(S) /\ Len(Append(front, s[n + 1])) = n + 1
      /\ \A i \in 1 .. n + 1 : Append(front, s[n + 1])[i] = s[i]
  BY <1>1
<1>3. s = Append(front, s[n + 1])
  BY <1>2
<1> QED BY <1>1, <1>3 DEF front

(* What holds of the empty sequence and of an extension when it holds of  *)
(* a sequence holds of all sequences.                                     *)
LEMMA SequenceInduction ==
    ASSUME NEW S, NEW Good, <<>> \in Good,
           \A s \in Seq(S), e \in S : s \in Good => Append(s, e) \in Good
    PROVE  Seq(S) \subseteq Good
<1> DEFINE Lengths == {n \in Nat : \A s \in Seq(S) : Len(s) = n => s \in Good}
<1>1. 0 \in Lengths
  OBVIOUS
<1>2. ASSUME NEW n \in Nat, n \in Lengths
      PROVE  n + 1 \in Lengths
  <2> SUFFICES ASSUME NEW s \in Seq(S), Len(s) = n + 1 PROVE s \in Good
    OBVIOUS
  <2> DEFINE front == SubSeq(s, 1, n)
  <2>1. front \in Seq(S) /\ Len(front) = n /\ s[n + 1] \in S /\ s = Append(front, s[n + 1])
    BY LastAppended
  <2> HIDE DEF front
  <2>2. front \in Good
    BY <1>2, <2>1
  <2>3. Append(front, s[n + 1]) \in Good
    BY <2>1, <2>2
  <2> QED BY <2>1, <2>3
<1> HIDE DEF Lengths
<1>3. Nat \subseteq Lengths
  BY <1>1, <1>2, NaturalInduction
<1> QED
  <2> SUFFICES ASSUME NEW s \in Seq(S) PROVE s \in Good
    OBVIOUS
  <2>1. Len(s) \in Lengths
    BY <1>3
  <2> QED BY <2>1 DEF Lengths

-----------------------------------------------------------------------------
(***************************************************************************)
(* Keep filters a list.                                                   *)
(***************************************************************************)
Keeps(f, blocks, kept) ==
    f = [n \in 0 .. Len(blocks) |->
            IF n = 0 THEN <<>>
            ELSE IF blocks[n] \in kept THEN Append(f[n - 1], blocks[n])
            ELSE f[n - 1]]

LEMMA KeepDef ==
    ASSUME NEW blocks, NEW kept
    PROVE  Keep(blocks, kept) = (CHOOSE f : Keeps(f, blocks, kept))[Len(blocks)]
BY DEF Keep, Keeps

LEMMA KeepsUnique ==
    ASSUME NEW S, NEW s \in Seq(S), NEW t \in Seq(S), NEW kept, NEW f, NEW g, Keeps(f, s, kept), Keeps(g, t, kept),
           Len(s) <= Len(t), \A i \in 1 .. Len(s) : s[i] = t[i]
    PROVE  \A n \in 0 .. Len(s) : f[n] = g[n]
<1> DEFINE Good == {n \in Nat : n <= Len(s) => f[n] = g[n]}
<1>1. 0 \in Good
  BY DEF Keeps
<1>2. ASSUME NEW n \in Nat, n \in Good
      PROVE  n + 1 \in Good
  <2> SUFFICES ASSUME n + 1 <= Len(s) PROVE f[n + 1] = g[n + 1]
    OBVIOUS
  <2>1. f[n] = g[n] /\ s[n + 1] = t[n + 1] /\ n + 1 \in 0 .. Len(s) /\ n + 1 \in 0 .. Len(t)
        /\ n + 1 # 0 /\ (n + 1) - 1 = n
    BY <1>2
  <2>2. f[n + 1] = IF s[n + 1] \in kept THEN Append(f[n], s[n + 1]) ELSE f[n]
    BY <2>1 DEF Keeps
  <2>3. g[n + 1] = IF t[n + 1] \in kept THEN Append(g[n], t[n + 1]) ELSE g[n]
    BY <2>1 DEF Keeps
  <2> QED BY <2>1, <2>2, <2>3
<1> HIDE DEF Good
<1>3. Nat \subseteq Good
  BY <1>1, <1>2, NaturalInduction
<1> QED
  <2> SUFFICES ASSUME NEW n \in 0 .. Len(s) PROVE f[n] = g[n]
    OBVIOUS
  <2>1. n \in Good /\ n <= Len(s)
    BY <1>3
  <2> QED BY <2>1 DEF Good

LEMMA KeepsExtended ==
    ASSUME NEW S, NEW s \in Seq(S), NEW e \in S, NEW kept, NEW f, Keeps(f, s, kept)
    PROVE  \E g : /\ Keeps(g, Append(s, e), kept)
                  /\ g[Len(s) + 1] = IF e \in kept THEN Append(f[Len(s)], e) ELSE f[Len(s)]
<1> DEFINE t == Append(s, e)
           last == Len(s) + 1
           g == [n \in 0 .. last |->
                    IF n = last THEN IF e \in kept THEN Append(f[Len(s)], e) ELSE f[Len(s)]
                    ELSE f[n]]
<1>1. /\ Len(s) \in Nat /\ Len(t) = last /\ t[last] = e
      /\ \A i \in 1 .. Len(s) : t[i] = s[i]
  OBVIOUS
<1> HIDE DEF t
<1>2. ASSUME NEW n \in 0 .. last
      PROVE  g[n] = IF n = 0 THEN <<>>
                    ELSE IF t[n] \in kept THEN Append(g[n - 1], t[n]) ELSE g[n - 1]
  <2>1. CASE n = 0
    BY <1>1, <2>1 DEF Keeps
  <2>2. CASE n = last
    <3>1. g[n - 1] = f[Len(s)] /\ n # 0
      BY <1>1, <2>2
    <3> QED BY <1>1, <2>2, <3>1
  <2>3. CASE n \in 1 .. Len(s)
    <3>1. g[n] = f[n] /\ g[n - 1] = f[n - 1] /\ t[n] = s[n]
      BY <1>1, <2>3
    <3>2. f[n] = IF s[n] \in kept THEN Append(f[n - 1], s[n]) ELSE f[n - 1]
      <4>1. n \in 0 .. Len(s) /\ n # 0
        BY <1>1, <2>3
      <4> HIDE DEF g
      <4> QED BY <4>1 DEF Keeps
    <3> QED BY <2>3, <3>1, <3>2
  <2> QED BY <1>1, <2>1, <2>2, <2>3
<1>3. Keeps(g, t, kept)
  <2> DEFINE h == [n \in 0 .. Len(t) |->
                    IF n = 0 THEN <<>>
                    ELSE IF t[n] \in kept THEN Append(g[n - 1], t[n]) ELSE g[n - 1]]
  <2>1. DOMAIN g = 0 .. Len(t) /\ g = [n \in 0 .. Len(t) |-> g[n]]
    BY <1>1
  <2>2. \A n \in 0 .. Len(t) : g[n] = h[n]
    BY <1>1, <1>2
  <2> HIDE DEF g
  <2>3. g = h
    BY <2>1, <2>2
  <2> QED BY <2>3 DEF Keeps
<1>4. g[last] = IF e \in kept THEN Append(f[Len(s)], e) ELSE f[Len(s)]
  BY <1>1
<1> QED BY <1>3, <1>4 DEF t

LEMMA KeepsExists ==
    ASSUME NEW S, NEW s \in Seq(S), NEW kept
    PROVE  Keeps(CHOOSE f : Keeps(f, s, kept), s, kept)
<1> DEFINE Good == {r \in Seq(S) : \E f : Keeps(f, r, kept)}
<1>1. <<>> \in Good
  <2> DEFINE f == [n \in {0} |-> <<>>]
  <2>1. Len(<<>>) = 0 /\ 0 .. 0 = {0} /\ <<>> \in Seq(S)
    OBVIOUS
  <2>2. Keeps(f, <<>>, kept)
    BY <2>1 DEF Keeps
  <2> QED BY <2>1, <2>2
<1>2. ASSUME NEW r \in Seq(S), NEW e \in S, r \in Good
      PROVE  Append(r, e) \in Good
  <2>1. PICK f : Keeps(f, r, kept)
    BY <1>2
  <2>2. Append(r, e) \in Seq(S)
    OBVIOUS
  <2> QED BY <2>1, <2>2, KeepsExtended
<1> HIDE DEF Good
<1>3. s \in Good
  BY <1>1, <1>2, SequenceInduction
<1> QED BY <1>3 DEF Good

LEMMA KeepEmpty ==
    ASSUME NEW kept PROVE Keep(<<>>, kept) = <<>>
<1>1. <<>> \in Seq({}) /\ Len(<<>>) = 0
  OBVIOUS
<1>2. Keeps(CHOOSE f : Keeps(f, <<>>, kept), <<>>, kept)
  BY <1>1, KeepsExists
<1>3. (CHOOSE f : Keeps(f, <<>>, kept))[0] = <<>>
  BY <1>1, <1>2 DEF Keeps
<1> QED BY <1>1, <1>3, KeepDef

LEMMA KeepAppend ==
    ASSUME NEW S, NEW s \in Seq(S), NEW e \in S, NEW kept
    PROVE  Keep(Append(s, e), kept) =
              IF e \in kept THEN Append(Keep(s, kept), e) ELSE Keep(s, kept)
<1> DEFINE f == CHOOSE f : Keeps(f, s, kept)
           t == Append(s, e)
           h == CHOOSE h : Keeps(h, t, kept)
<1>1. t \in Seq(S) /\ Len(t) = Len(s) + 1 /\ Len(s) \in Nat
  OBVIOUS
<1>2. Keeps(f, s, kept) /\ Keeps(h, t, kept)
  <2> HIDE DEF t
  <2> QED BY <1>1, KeepsExists
<1>3. Keep(s, kept) = f[Len(s)] /\ Keep(t, kept) = h[Len(s) + 1]
  <2>1. Keep(t, kept) = h[Len(t)]
    BY KeepDef
  <2> QED BY <1>1, <2>1, KeepDef
<1> HIDE DEF f, h
<1>4. PICK g : /\ Keeps(g, t, kept)
               /\ g[Len(s) + 1] = IF e \in kept THEN Append(f[Len(s)], e) ELSE f[Len(s)]
  BY <1>2, KeepsExtended
<1> HIDE DEF t
<1>5. Len(t) <= Len(t) /\ Len(t) \in 0 .. Len(t)
  BY <1>1
<1>6. g[Len(t)] = h[Len(t)]
  BY <1>1, <1>2, <1>4, <1>5, KeepsUnique
<1> QED BY <1>1, <1>3, <1>4, <1>6 DEF t

LEMMA KeepType ==
    ASSUME NEW S, NEW kept, NEW s \in Seq(S)
    PROVE  Keep(s, kept) \in Seq(S)
<1> DEFINE Good == {r \in Seq(S) : Keep(r, kept) \in Seq(S)}
<1>1. <<>> \in Good
  <2>1. Keep(<<>>, kept) \in Seq(S) /\ <<>> \in Seq(S)
    <3>1. <<>> \in Seq(S)
      OBVIOUS
    <3> QED BY <3>1, KeepEmpty
  <2> QED BY <2>1
<1>2. ASSUME NEW r \in Seq(S), NEW e \in S, r \in Good
      PROVE  Append(r, e) \in Good
  <2>1. Append(r, e) \in Seq(S) /\ Keep(r, kept) \in Seq(S)
    BY <1>2
  <2>2. Append(Keep(r, kept), e) \in Seq(S)
    BY <2>1
  <2>3. Keep(Append(r, e), kept) \in Seq(S)
    BY <2>1, <2>2, KeepAppend
  <2> QED BY <2>1, <2>3
<1> HIDE DEF Good
<1>3. s \in Good
  BY <1>1, <1>2, SequenceInduction
<1> QED BY <1>3 DEF Good

(* A list that follows another one is filtered after it.                  *)
LEMMA KeepConcat ==
    ASSUME NEW S, NEW kept, NEW s \in Seq(S), NEW t \in Seq(S)
    PROVE  Keep(s \o t, kept) = Keep(s, kept) \o Keep(t, kept)
<1> DEFINE Good == {r \in Seq(S) : Keep(s \o r, kept) = Keep(s, kept) \o Keep(r, kept)}
<1>1. <<>> \in Good
  <2>1. s \o <<>> = s /\ Keep(s, kept) \in Seq(S) /\ <<>> \in Seq(S)
    BY KeepType
  <2>2. Keep(s, kept) \o <<>> = Keep(s, kept)
    BY <2>1
  <2> QED BY <2>1, <2>2, KeepEmpty
<1>2. ASSUME NEW r \in Seq(S), NEW e \in S, r \in Good
      PROVE  Append(r, e) \in Good
  <2>1. Append(r, e) \in Seq(S) /\ s \o r \in Seq(S) /\ s \o Append(r, e) = Append(s \o r, e)
    OBVIOUS
  <2>2. Keep(s, kept) \in Seq(S) /\ Keep(r, kept) \in Seq(S)
    BY KeepType
  <2>3. Keep(s, kept) \o Append(Keep(r, kept), e) = Append(Keep(s, kept) \o Keep(r, kept), e)
    BY <2>2
  <2>4. Keep(s \o r, kept) = Keep(s, kept) \o Keep(r, kept)
    BY <1>2
  <2>5. Keep(Append(s \o r, e), kept) =
            IF e \in kept THEN Append(Keep(s \o r, kept), e) ELSE Keep(s \o r, kept)
    BY <2>1, KeepAppend
  <2>6. Keep(Append(r, e), kept) = IF e \in kept THEN Append(Keep(r, kept), e) ELSE Keep(r, kept)
    BY KeepAppend
  <2> QED BY <2>1, <2>3, <2>4, <2>5, <2>6
<1> HIDE DEF Good
<1>3. t \in Good
  BY <1>1, <1>2, SequenceInduction
<1> QED BY <1>3 DEF Good

(* Only the elements of the list matter of the set.                       *)
LEMMA KeepSame ==
    ASSUME NEW S, NEW s \in Seq(S), NEW kept, NEW same, S \cap kept = S \cap same
    PROVE  Keep(s, kept) = Keep(s, same)
<1> DEFINE Good == {r \in Seq(S) : Keep(r, kept) = Keep(r, same)}
<1>1. <<>> \in Good
  BY KeepEmpty
<1>2. ASSUME NEW r \in Seq(S), NEW e \in S, r \in Good
      PROVE  Append(r, e) \in Good
  <2>1. Append(r, e) \in Seq(S) /\ (e \in kept <=> e \in same) /\ Keep(r, kept) = Keep(r, same)
    BY <1>2
  <2>2. /\ Keep(Append(r, e), kept) = IF e \in kept THEN Append(Keep(r, kept), e) ELSE Keep(r, kept)
        /\ Keep(Append(r, e), same) = IF e \in same THEN Append(Keep(r, same), e) ELSE Keep(r, same)
    BY KeepAppend
  <2>3. Keep(Append(r, e), kept) = Keep(Append(r, e), same)
    BY <2>1, <2>2
  <2> QED BY <2>1, <2>3
<1> HIDE DEF Good
<1>3. s \in Good
  BY <1>1, <1>2, SequenceInduction
<1> QED BY <1>3 DEF Good

(* What is kept is the elements that are in the set, and none twice when  *)
(* the list has none twice.                                               *)
Distinct(s) == \A i, j \in 1 .. Len(s) : s[i] = s[j] => i = j

LEMMA ElementsAppend ==
    ASSUME NEW S, NEW s \in Seq(S), NEW e \in S
    PROVE  /\ ToSet(s) \subseteq S
           /\ ToSet(Append(s, e)) = ToSet(s) \cup {e}
           /\ Distinct(Append(s, e)) <=> Distinct(s) /\ e \notin ToSet(s)
<1> DEFINE t == Append(s, e)
           last == Len(s) + 1
<1>1. /\ Len(s) \in Nat /\ DOMAIN s = 1 .. Len(s) /\ Len(t) = last /\ DOMAIN t = 1 .. last
      /\ \A i \in 1 .. Len(s) : t[i] = s[i] /\ s[i] \in S
      /\ t[last] = e /\ 1 .. last = (1 .. Len(s)) \cup {last} /\ last \notin 1 .. Len(s)
  OBVIOUS
<1> HIDE DEF t, last
<1>2. ToSet(s) \subseteq S /\ ToSet(t) = ToSet(s) \cup {e}
  BY <1>1 DEF ToSet
<1>3. Distinct(t) => Distinct(s) /\ e \notin ToSet(s)
  BY <1>1 DEF Distinct, ToSet
<1>4. Distinct(s) /\ e \notin ToSet(s) => Distinct(t)
  BY <1>1 DEF Distinct, ToSet
<1> QED BY <1>2, <1>3, <1>4 DEF t

LEMMA KeepElements ==
    ASSUME NEW S, NEW s \in Seq(S), NEW kept
    PROVE  /\ ToSet(Keep(s, kept)) = ToSet(s) \cap kept
           /\ Distinct(s) => Distinct(Keep(s, kept))
<1> DEFINE Good == {r \in Seq(S) : /\ ToSet(Keep(r, kept)) = ToSet(r) \cap kept
                                   /\ Distinct(r) => Distinct(Keep(r, kept))}
<1>1. <<>> \in Good
  <2>1. ToSet(<<>>) = {} /\ Distinct(<<>>)
    BY DEF ToSet, Distinct
  <2> QED BY <2>1, KeepEmpty
<1>2. ASSUME NEW r \in Seq(S), NEW e \in S, r \in Good
      PROVE  Append(r, e) \in Good
  <2>1. /\ Append(r, e) \in Seq(S) /\ Keep(r, kept) \in Seq(S)
        /\ ToSet(Keep(r, kept)) = ToSet(r) \cap kept
        /\ Distinct(r) => Distinct(Keep(r, kept))
    BY <1>2, KeepType
  <2>2. /\ ToSet(Append(r, e)) = ToSet(r) \cup {e}
        /\ Distinct(Append(r, e)) <=> Distinct(r) /\ e \notin ToSet(r)
        /\ ToSet(Append(Keep(r, kept), e)) = ToSet(Keep(r, kept)) \cup {e}
        /\ Distinct(Append(Keep(r, kept), e)) <=> Distinct(Keep(r, kept)) /\ e \notin ToSet(Keep(r, kept))
    BY <2>1, ElementsAppend
  <2>3. CASE e \in kept
    <3>1. Keep(Append(r, e), kept) = Append(Keep(r, kept), e)
      BY <2>3, KeepAppend
    <3> QED BY <2>1, <2>2, <2>3, <3>1
  <2>4. CASE e \notin kept
    <3>1. Keep(Append(r, e), kept) = Keep(r, kept)
      BY <2>4, KeepAppend
    <3> QED BY <2>1, <2>2, <2>4, <3>1
  <2> QED BY <2>3, <2>4
<1> HIDE DEF Good
<1>3. s \in Good
  BY <1>1, <1>2, SequenceInduction
<1> QED BY <1>3 DEF Good

-----------------------------------------------------------------------------
LEMMA SeqWidens ==
    ASSUME NEW S, NEW T, S \subseteq T, NEW s \in Seq(S)
    PROVE  s \in Seq(T)
<1>1. \A i \in 1 .. Len(s) : s[i] \in T
  OBVIOUS
<1> QED BY <1>1

LEMMA SuffixType ==
    ASSUME NEW S, NEW s \in Seq(S), NEW n \in Nat
    PROVE  SubSeq(s, n + 1, Len(s)) \in Seq(S)
OBVIOUS

(* Lists that begin alike.                                                *)
LEMMA PrefixIs ==
    ASSUME NEW S, NEW s \in Seq(S), NEW t \in Seq(S)
    PROVE  /\ IsPrefix(s, t) <=> Len(s) <= Len(t) /\ \A i \in 1 .. Len(s) : s[i] = t[i]
           /\ IsPrefix(s, t) <=> Len(s) <= Len(t) /\ s = SubSeq(t, 1, Len(s))
BY DEF IsPrefix

LEMMA PrefixTransitive ==
    ASSUME NEW S, NEW r \in Seq(S), NEW s \in Seq(S), NEW t \in Seq(S),
           IsPrefix(r, s), IsPrefix(s, t)
    PROVE  IsPrefix(r, t)
<1>1. /\ Len(r) <= Len(s) /\ \A i \in 1 .. Len(r) : r[i] = s[i]
      /\ Len(s) <= Len(t) /\ \A i \in 1 .. Len(s) : s[i] = t[i]
  BY PrefixIs
<1>2. Len(r) <= Len(t) /\ \A i \in 1 .. Len(r) : r[i] = t[i]
  BY <1>1
<1> QED BY <1>2, PrefixIs

LEMMA PrefixReflexive ==
    ASSUME NEW S, NEW s \in Seq(S)
    PROVE  IsPrefix(s, s) /\ IsPrefix(<<>>, s) /\ SubSeq(s, 1, Len(s)) = s
<1>1. <<>> \in Seq(S) /\ Len(<<>>) = 0 /\ SubSeq(<<>>, 1, 0) = <<>> /\ SubSeq(s, 1, 0) = <<>>
      /\ Len(s) \in Nat
  OBVIOUS
<1>2. IsPrefix(<<>>, s)
  BY <1>1 DEF IsPrefix
<1> QED BY <1>2, PrefixIs

LEMMA AppendedPaths ==
    ASSUME NEW S, NEW s \in Seq(S), NEW e \in S
    PROVE  /\ Append(s, e) \in Seq(S) /\ Len(Append(s, e)) = Len(s) + 1 /\ Len(s) \in Nat
           /\ \A n \in 1 .. Len(s) : /\ Append(s, e)[n] = s[n]
                                      /\ SubSeq(Append(s, e), 1, n) = SubSeq(s, 1, n)
           /\ Append(s, e)[Len(s) + 1] = e
           /\ SubSeq(Append(s, e), 1, Len(s) + 1) = Append(s, e)
           /\ IsPrefix(s, Append(s, e))
<1>1. /\ Append(s, e) \in Seq(S) /\ Len(Append(s, e)) = Len(s) + 1 /\ Len(s) \in Nat
      /\ \A n \in 1 .. Len(s) : Append(s, e)[n] = s[n]
      /\ Append(s, e)[Len(s) + 1] = e
  OBVIOUS
<1> DEFINE t == Append(s, e)
<1> HIDE DEF t
<1>2. \A n \in 1 .. Len(s) : SubSeq(t, 1, n) = SubSeq(s, 1, n)
  BY <1>1 DEF t
<1>3. SubSeq(t, 1, Len(s) + 1) = t
  BY <1>1 DEF t
<1>4. IsPrefix(s, t)
  <2>1. t \in Seq(S) /\ Len(s) <= Len(t) /\ \A i \in 1 .. Len(s) : s[i] = t[i]
    BY <1>1 DEF t
  <2> QED BY <2>1, PrefixIs
<1> QED BY <1>1, <1>2, <1>3, <1>4 DEF t

-----------------------------------------------------------------------------
(***************************************************************************)
(* Invariant, first part: the two chains are trees, and what a block      *)
(* says of others is there.                                               *)
(***************************************************************************)

(* The mainchain: a block's path holds the paths of its blocks, and no M6 *)
(* ends twice on it.                                                      *)
DecidedOnceOn(path) ==
    \A k, n \in 1 .. Len(path) :
        /\ main[path[k]].outcome # NoOutcome
        /\ main[path[n]].outcome # NoOutcome
        /\ main[path[k]].outcome.m6id = main[path[n]].outcome.m6id
        => k = n

MainTree ==
    /\ \A m \in 1 .. Len(main) :
          /\ Len(Path(m)) <= m
          /\ \A n \in 1 .. Len(Path(m)) : Path(Path(m)[n]) = SubSeq(Path(m), 1, n)
          /\ DecidedOnceOn(Path(m))
    /\ Len(Path(tip)) <= Len(Path(best))

Ended(w, status) == [m6id |-> w, status |-> status]

MainContents ==
    \A m \in 1 .. Len(main) :
        /\ main[m] = [path    |-> main[m].path,    bmm     |-> main[m].bmm,
                      deposit |-> main[m].deposit, outcome |-> main[m].outcome]
        /\ main[m].deposit \in Deposit
        /\ \/ main[m].outcome = NoOutcome
           \/ \E w \in wallet, status \in {"Succeeded", "Failed"} : main[m].outcome = Ended(w, status)

(* The sidechain: every block built is the execution of its parent, on    *)
(* anchors that agree.                                                    *)
Executed(b, p) ==
    Execute(Block(p).state, Number(p) + 1, Block(p).anchor, side[b].anchor,
            side[b].newRequests, side[b].halted)

Child(b, p) ==
    /\ side[b] = [path        |-> Append(Block(p).path, b),
                  anchor      |-> side[b].anchor,
                  newRequests |-> side[b].newRequests,
                  halted      |-> side[b].halted,
                  state       |-> Executed(b, p)]
    /\ Executable(Block(p).anchor, side[b].anchor)
    /\ side[b].newRequests \in 0 .. MaxRequests /\ side[b].halted \in BOOLEAN

Placed(b) ==
    /\ Parent(b) \in 0 .. b - 1
    /\ Child(b, Parent(b))
    /\ Block(b).path \in Seq(1 .. b)
    /\ \A n \in 1 .. Number(b) : Block(Block(b).path[n]).path = SubSeq(Block(b).path, 1, n)
    /\ Block(b).state.requestCount \in 0 .. MaxRequests

SideTree == \A b \in 1 .. Len(side) : Placed(b)

(* The wallet: an M6 is the bundle some block's state yields.             *)
Proposes(b, w) == Select(Block(b).state) # {} /\ w = NextBundle(b)

WalletKnown == \A w \in wallet : \E b \in 0 .. Len(side) : Proposes(b, w)

(* The loop and the node.                                                 *)
NodeKeeps == "nodeCrash" \notin Faults

Control ==
    /\ accepted \subseteq 0 .. Len(side) /\ 0 \in accepted /\ head \in accepted
    /\ \A b \in accepted : \A n \in 1 .. Number(b) : Block(b).path[n] \in accepted
    /\ payload \in 0 .. Len(side) /\ HEAD \in 0 .. Len(side) /\ headFile \in 0 .. Len(side)
    /\ pc \in {"start", "build", "bid", "mine", "import", "advance", "save", "stalled"}
    /\ faults \in 0 .. MaxFaults
    /\ NodeKeeps =>
          /\ HEAD \in accepted /\ headFile \in accepted
          /\ pc \in {"advance", "save"} => payload \in accepted

ChainInv ==
    /\ CommitInv
    /\ MainTree
    /\ MainContents
    /\ SideTree
    /\ WalletKnown
    /\ Control

-----------------------------------------------------------------------------
(***************************************************************************)
(* The mainchain.                                                         *)
(***************************************************************************)
LEMMA MainIs ==
    ASSUME CommitInv
    PROVE  /\ IsSeq(main) /\ Len(main) \in Nat /\ Len(main) \in 1 .. MaxMain /\ MaxMain \in Nat
           /\ Path(0) = <<>>
           /\ \A m \in 0 .. Len(main) : Path(m) \in Seq(1 .. Len(main)) /\ Len(Path(m)) \in Nat
           /\ \A m \in 1 .. Len(main) : /\ Path(m) = main[m].path
                                        /\ Len(Path(m)) >= 1
                                        /\ Path(m)[Len(Path(m))] = m
           /\ best \in 1 .. Len(main) /\ tip \in 1 .. Len(main)
<1>1. /\ IsSeq(main) /\ Len(main) \in 1 .. MaxMain /\ MaxMain \in Nat
      /\ best \in 1 .. Len(main) /\ tip \in 1 .. Len(main)
  BY EnforcerAssumption DEF CommitInv, MainPaths
<1>2. Path(0) = <<>>
  BY DEF Path, NoBlock
<1>3. ASSUME NEW m \in 1 .. Len(main)
      PROVE  /\ Path(m) = main[m].path /\ Path(m) \in Seq(1 .. Len(main))
             /\ Len(Path(m)) >= 1 /\ Path(m)[Len(Path(m))] = m
  BY DEF Path, NoBlock, CommitInv, MainPaths
<1>4. <<>> \in Seq(1 .. Len(main))
  OBVIOUS
<1>5. ASSUME NEW m \in 0 .. Len(main)
      PROVE  Path(m) \in Seq(1 .. Len(main)) /\ Len(Path(m)) \in Nat
  <2>1. m = 0 \/ m \in 1 .. Len(main)
    BY <1>1
  <2>2. Path(m) \in Seq(1 .. Len(main))
    BY <1>2, <1>3, <1>4, <2>1
  <2> QED BY <2>2
<1>6. Len(main) \in Nat
  BY <1>1
<1> QED BY <1>1, <1>2, <1>3, <1>5, <1>6

LEMMA RangeType ==
    ASSUME CommitInv, NEW a \in 0 .. Len(main), NEW c \in 0 .. Len(main)
    PROVE  BlocksAfter(a, c) \in Seq(1 .. Len(main))
<1>1. Path(c) \in Seq(1 .. Len(main)) /\ Len(Path(a)) \in Nat
  BY MainIs
<1>2. SubSeq(Path(c), Len(Path(a)) + 1, Len(Path(c))) \in Seq(1 .. Len(main))
  BY <1>1, SuffixType
<1> QED BY <1>2 DEF BlocksAfter

MainGrows ==
    /\ Len(main) <= Len(main')
    /\ \A m \in 1 .. Len(main) : main'[m] = main[m]

(* What the enforcer answers about known blocks does not change.          *)
LEMMA AnswersKept ==
    ASSUME CommitInv, CommitInv', MainGrows, NEW a \in 0 .. Len(main), NEW c \in 0 .. Len(main)
    PROVE  /\ Path(a)' = Path(a)
           /\ BlocksAfter(a, c)' = BlocksAfter(a, c)
           /\ DepositsReadable(a, c)' = DepositsReadable(a, c)
           /\ Deposits(a, c)' = Deposits(a, c)
           /\ Keep(Path(a), WithDeposit)' = Keep(Path(a), WithDeposit)
           /\ WithdrawalBundleEvents(a, c)' = WithdrawalBundleEvents(a, c)
<1>1. Path(a)' = Path(a) /\ Path(c)' = Path(c)
  BY DEF MainGrows, Path, NoBlock
<1>2. BlocksAfter(a, c)' = BlocksAfter(a, c)
  BY <1>1 DEF BlocksAfter
<1>3. /\ BlocksAfter(a, c) \in Seq(1 .. Len(main)) /\ Path(a) \in Seq(1 .. Len(main))
      /\ Len(main) \in Nat /\ Len(main') \in Nat
  <2>1. IsSeq(main') /\ Len(main') \in Nat
    BY MainIs, CommitInv' DEF CommitInv, MainPaths
  <2> QED BY <2>1, RangeType, MainIs
<1>4. /\ (1 .. Len(main)) \cap WithDeposit' = (1 .. Len(main)) \cap WithDeposit
      /\ (1 .. Len(main)) \cap WithOutcome' = (1 .. Len(main)) \cap WithOutcome
  BY <1>3 DEF MainGrows, WithDeposit, WithOutcome
<1>5. DepositsReadable(a, c)' = DepositsReadable(a, c)
  <2>1. RangeKnown(a, c)' = RangeKnown(a, c)
    BY <1>1 DEF RangeKnown, IsAncestor
  <2>2. \A m \in ToSet(BlocksAfter(a, c)) : main'[m] = main[m]
    BY <1>3, SMTT(30) DEF MainGrows, ToSet
  <2> QED BY <1>2, <2>1, <2>2 DEF DepositsReadable
<1>6. /\ Deposits(a, c)' = Deposits(a, c)
      /\ Keep(Path(a), WithDeposit)' = Keep(Path(a), WithDeposit)
  <2> DEFINE blocks == BlocksAfter(a, c)
  <2>1. /\ Keep(blocks, WithDeposit') = Keep(blocks, WithDeposit)
        /\ Keep(Path(a), WithDeposit') = Keep(Path(a), WithDeposit)
    <3>1. PICK known : known = 1 .. Len(main)
      OBVIOUS
    <3>2. /\ blocks \in Seq(known) /\ Path(a) \in Seq(known)
          /\ known \cap WithDeposit' = known \cap WithDeposit
      BY <1>3, <1>4, <3>1
    <3> QED BY <3>2, KeepSame
  <2>2. Deposits(a, c)' = Keep(BlocksAfter(a, c)', WithDeposit')
    BY DEF Deposits, Keep
  <2>3. Keep(Path(a), WithDeposit)' = Keep(Path(a)', WithDeposit')
    BY DEF Keep
  <2> QED BY <1>1, <1>2, <2>1, <2>2, <2>3 DEF Deposits
<1>7. WithdrawalBundleEvents(a, c)' = WithdrawalBundleEvents(a, c)
  <2> DEFINE blocks == Keep(BlocksAfter(a, c), WithOutcome)
  <2>1. Keep(BlocksAfter(a, c), WithOutcome') = blocks
    <3>1. PICK known : known = 1 .. Len(main)
      OBVIOUS
    <3>2. /\ BlocksAfter(a, c) \in Seq(known)
          /\ known \cap WithOutcome' = known \cap WithOutcome
      BY <1>3, <1>4, <3>1
    <3> QED BY <3>2, KeepSame
  <2>2. Keep(BlocksAfter(a, c), WithOutcome)' = Keep(BlocksAfter(a, c)', WithOutcome')
    BY DEF Keep
  <2>3. blocks' = blocks
    BY <1>2, <2>1, <2>2
  <2>4. blocks \in Seq(1 .. Len(main))
    BY <1>3, KeepType
  <2> HIDE DEF blocks
  <2>5. \A n \in DOMAIN blocks : main'[blocks[n]] = main[blocks[n]]
    BY <2>4 DEF MainGrows
  <2>6. /\ WithdrawalBundleEvents(a, c) = [n \in DOMAIN blocks |-> main[blocks[n]].outcome]
        /\ WithdrawalBundleEvents(a, c)' = [n \in DOMAIN blocks' |-> main'[blocks'[n]].outcome]
    BY DEF WithdrawalBundleEvents, blocks
  <2> QED BY <2>3, <2>5, <2>6
<1> QED BY <1>1, <1>2, <1>5, <1>6, <1>7

(* A new mainchain block.                                                 *)
MinedAs(new, path, bmm, parent) ==
    \E deposit \in DepositKinds, outcome \in Outcomes(parent) :
        main'[new] = [path |-> path, bmm |-> bmm, deposit |-> deposit, outcome |-> outcome]

LEMMA MinedBlock ==
    ASSUME CommitInv, NEW parent \in 1 .. Len(main), NEW bmm, NEW lagging \in BOOLEAN,
           MineBlock(parent, bmm, lagging),
           NEW new, new = Len(main) + 1, NEW path, path = Append(Path(parent), new)
    PROVE  /\ Len(main') = new /\ \A m \in 1 .. Len(main) : main'[m] = main[m]
           /\ MinedAs(new, path, bmm, parent)
<1>1. PICK deposit \in DepositKinds, outcome \in Outcomes(parent) :
         main' = Append(main, [path |-> path, bmm |-> bmm, deposit |-> deposit, outcome |-> outcome])
  BY DEF MineBlock
<1> DEFINE block == [path |-> path, bmm |-> bmm, deposit |-> deposit, outcome |-> outcome]
<1>2. IsSeq(main) /\ main' = Append(main, block)
  BY <1>1, MainIs
<1> HIDE DEF block
<1>3. /\ Len(main') = new /\ main'[new] = block
      /\ \A m \in 1 .. Len(main) : main'[m] = main[m]
  BY <1>2, AppendIsSeq
<1> QED BY <1>3 DEF block, MinedAs

LEMMA Mined ==
    ASSUME CommitInv, NEW parent \in 1 .. Len(main), NEW bmm, NEW lagging \in BOOLEAN,
           MineBlock(parent, bmm, lagging),
           NEW new, new = Len(main) + 1, NEW path, path = Append(Path(parent), new)
    PROVE  /\ UNCHANGED <<bids, wallet>> /\ new \in Nat /\ new # 0
           /\ Len(main') = new
           /\ MainGrows
           /\ \A m \in 0 .. Len(main) : Path(m)' = Path(m)
           /\ Path(new)' = path
           /\ Len(path) > Len(Path(best)) => best' = new
           /\ Len(path) <= Len(Path(best)) => best' = best
           /\ tip' \in {tip, best'}
<1>1. Len(main) \in Nat
  BY MainIs
<1>2. /\ Len(path) = Len(Path(parent)) + 1 /\ Len(Path(parent)) \in Nat /\ Len(Path(best)) \in Nat
  BY MainIs
<1>3. /\ UNCHANGED <<bids, wallet>> /\ tip' \in {tip, best'}
      /\ best' = IF Len(path) > Len(Path(best)) THEN new ELSE best
  BY DEF MineBlock
<1>4. /\ Len(main') = new /\ new \in Nat /\ new # 0
      /\ \A m \in 1 .. Len(main) : main'[m] = main[m]
  BY <1>1, MinedBlock
<1>5. main'[new].path = path
  <2>1. MinedAs(new, path, bmm, parent)
    BY MinedBlock
  <2>2. PICK deposit \in DepositKinds, outcome \in Outcomes(parent) :
           main'[new] = [path |-> path, bmm |-> bmm, deposit |-> deposit, outcome |-> outcome]
    BY <2>1 DEF MinedAs
  <2> QED BY <2>2
<1>6. MainGrows
  BY <1>1, <1>4 DEF MainGrows
<1>7. \A m \in 0 .. Len(main) : Path(m)' = Path(m)
  <2>1. ASSUME NEW m \in 0 .. Len(main), m # 0
        PROVE  main'[m] = main[m]
    BY <1>1, <1>4, <2>1
  <2> QED BY <2>1 DEF Path, NoBlock
<1>8. Path(new)' = path
  <2>1. Path(new)' = main'[new].path
    BY <1>4 DEF Path, NoBlock
  <2> QED BY <1>5, <2>1
<1> QED BY <1>2, <1>3, <1>4, <1>6, <1>7, <1>8

LEMMA DecisionsKept ==
    ASSUME CommitInv, MainGrows, NEW path \in Seq(1 .. Len(main)), DecidedOnceOn(path)
    PROVE  DecidedOnceOn(path)'
<1>1. \A k \in 1 .. Len(path) : main'[path[k]] = main[path[k]]
  BY DEF MainGrows
<1> QED BY <1>1 DEF DecidedOnceOn

LEMMA MineTree ==
    ASSUME CommitInv, CommitInv', MainTree, MainContents,
           NEW parent \in 1 .. Len(main), NEW bmm, NEW lagging \in BOOLEAN,
           MineBlock(parent, bmm, lagging)
    PROVE  MainTree' /\ MainContents'
<1>1. PICK new : new = Len(main) + 1
  OBVIOUS
<1>2. PICK path : path = Append(Path(parent), new)
  OBVIOUS
<1>3. PICK deposit \in DepositKinds, outcome \in Outcomes(parent) :
         main'[new] = [path |-> path, bmm |-> bmm, deposit |-> deposit, outcome |-> outcome]
  <2>1. MinedAs(new, path, bmm, parent)
    BY <1>1, <1>2, MinedBlock
  <2> QED BY <2>1 DEF MinedAs
<1>4. /\ main'[new].path = path /\ main'[new].outcome = outcome /\ main'[new].deposit = deposit
      /\ main'[new] = [path |-> main'[new].path, bmm |-> main'[new].bmm,
                       deposit |-> main'[new].deposit, outcome |-> main'[new].outcome]
  BY <1>3
<1>5. /\ Len(main') = new /\ new \in Nat /\ MainGrows /\ wallet' = wallet
      /\ 1 .. new = (1 .. Len(main)) \cup {new}
      /\ \A m \in 0 .. Len(main) : Path(m)' = Path(m)
      /\ Path(new)' = path
  <2>1. /\ Len(main') = new /\ new \in Nat /\ MainGrows /\ wallet' = wallet
        /\ \A m \in 0 .. Len(main) : Path(m)' = Path(m)
        /\ Path(new)' = path
    BY <1>1, <1>2, Mined
  <2>2. Len(main) \in Nat
    BY MainIs
  <2> QED BY <1>1, <2>1, <2>2
<1>6. /\ Path(parent) \in Seq(1 .. Len(main)) /\ Len(Path(parent)) \in Nat /\ Len(Path(parent)) <= parent
      /\ Path(parent) \in Seq(1 .. new)
      /\ \A n \in 1 .. Len(Path(parent)) : /\ Path(Path(parent)[n]) = SubSeq(Path(parent), 1, n)
                                           /\ Path(parent)[n] \in 1 .. Len(main)
      /\ DecidedOnceOn(Path(parent))
  <2>1. Path(parent) \in Seq(1 .. Len(main)) /\ Len(Path(parent)) \in Nat
    BY MainIs
  <2>2. 1 .. Len(main) \subseteq 1 .. new
    BY <1>5
  <2>3. Path(parent) \in Seq(1 .. new)
    BY <2>1, <2>2, SeqWidens
  <2> QED BY <2>1, <2>3 DEF MainTree
<1>7. /\ Len(path) = Len(Path(parent)) + 1 /\ path \in Seq(1 .. new)
      /\ \A n \in 1 .. Len(Path(parent)) : /\ path[n] = Path(parent)[n]
                                           /\ SubSeq(path, 1, n) = SubSeq(Path(parent), 1, n)
      /\ path[Len(path)] = new /\ SubSeq(path, 1, Len(path)) = path
      /\ 1 .. Len(path) = (1 .. Len(Path(parent))) \cup {Len(path)}
  BY <1>1, <1>2, <1>5, <1>6, AppendedPaths, SMTT(30)
<1>8. Len(path) <= new
  <2>1. Len(main) \in Nat
    BY MainIs
  <2>2. Len(Path(parent)) \in Nat /\ Len(Path(parent)) <= parent
    BY <1>6
  <2>3. Len(path) = Len(Path(parent)) + 1
    BY <1>7
  <2> QED BY <1>1, <2>1, <2>2, <2>3
<1>9. \A n \in 1 .. Len(path) : Path(path[n])' = SubSeq(path, 1, n)
  <2> SUFFICES ASSUME NEW n \in 1 .. Len(path) PROVE Path(path[n])' = SubSeq(path, 1, n)
    OBVIOUS
  <2>1. CASE n \in 1 .. Len(Path(parent))
    <3>1. PICK m \in 1 .. Len(main) : m = path[n]
      BY <1>6, <1>7, <2>1
    <3>2. Path(m) = SubSeq(path, 1, n)
      BY <1>6, <1>7, <2>1, <3>1
    <3>3. Path(m)' = Path(m)
      BY <1>5
    <3> QED BY <3>1, <3>2, <3>3
  <2>2. CASE n = Len(path)
    BY <1>5, <1>7, <2>2
  <2> QED BY <1>7, <2>1, <2>2
<1>10. DecidedOnceOn(path)'
  <2> SUFFICES ASSUME NEW k \in 1 .. Len(path), NEW n \in 1 .. Len(path),
                      main'[path[k]].outcome # NoOutcome, main'[path[n]].outcome # NoOutcome,
                      main'[path[k]].outcome.m6id = main'[path[n]].outcome.m6id
               PROVE  k = n
    BY DEF DecidedOnceOn
  <2>1. outcome = NoOutcome \/ \A m \in ToSet(Path(parent)) :
                                  main[m].outcome = NoOutcome \/ main[m].outcome.m6id # outcome.m6id
    BY DEF Outcomes, Undecided
  <2>2. \A l \in 1 .. Len(Path(parent)) : Path(parent)[l] \in ToSet(Path(parent))
    BY <1>6 DEF ToSet
  <2>3. \A l \in 1 .. Len(Path(parent)) : main'[path[l]] = main[Path(parent)[l]]
    BY <1>5, <1>6, <1>7 DEF MainGrows
  <2>4. CASE k \in 1 .. Len(Path(parent)) /\ n \in 1 .. Len(Path(parent))
    BY <1>6, <2>3, <2>4 DEF DecidedOnceOn
  <2>5. CASE k \in 1 .. Len(Path(parent)) /\ n = Len(path)
    BY <1>4, <1>7, <2>1, <2>2, <2>3, <2>5
  <2>6. CASE k = Len(path) /\ n \in 1 .. Len(Path(parent))
    BY <1>4, <1>7, <2>1, <2>2, <2>3, <2>6
  <2> QED BY <1>7, <2>4, <2>5, <2>6
<1>11. Len(Path(tip))' <= Len(Path(best))'
  <2>1. /\ tip \in 0 .. Len(main) /\ best \in 0 .. Len(main)
        /\ Len(Path(tip)) \in Nat /\ Len(Path(best)) \in Nat /\ Len(path) \in Nat
        /\ Len(Path(tip)) <= Len(Path(best))
    <3>1. tip \in 1 .. Len(main) /\ best \in 1 .. Len(main)
      BY MainIs
    <3>2. Len(Path(tip)) \in Nat /\ Len(Path(best)) \in Nat
      BY <3>1, MainIs
    <3> QED BY <1>6, <1>7, <3>1, <3>2 DEF MainTree
  <2>2. /\ Len(path) > Len(Path(best)) => best' = new
        /\ Len(path) <= Len(Path(best)) => best' = best
        /\ tip' \in {tip, best'}
    BY <1>1, <1>2, Mined
  <2>3. PICK t, b : t = tip /\ b = best
    OBVIOUS
  <2>4. Path(t)' = Path(t) /\ Path(b)' = Path(b)
    BY <1>5, <2>1, <2>3
  <2>5. PICK u, c : u = tip' /\ c = best'
    OBVIOUS
  <2>6. Path(tip)' = Path(u)' /\ Path(best)' = Path(c)'
    BY <2>5 DEF Path
  <2>7. Len(Path(c)') >= Len(Path(b)) /\ u \in {t, c}
    BY <1>5, <2>1, <2>2, <2>3, <2>4, <2>5
  <2>8. Len(Path(u)') <= Len(Path(c)')
    BY <1>5, <2>1, <2>2, <2>3, <2>4, <2>5, <2>7
  <2> QED BY <2>6, <2>8
<1>12. MainTree'
  <2> SUFFICES ASSUME NEW m \in 1 .. new
               PROVE  /\ Len(Path(m)') <= m
                      /\ \A n \in 1 .. Len(Path(m)') : Path(Path(m)[n])' = SubSeq(Path(m)', 1, n)
                      /\ DecidedOnceOn(Path(m))'
    BY <1>5, <1>11 DEF MainTree
  <2>1. CASE m = new
    <3>1. PICK p : p = Path(m)'
      OBVIOUS
    <3>2. p = path
      BY <1>5, <2>1, <3>1
    <3>3. DecidedOnceOn(Path(m))' = DecidedOnceOn(p)'
      BY <3>1 DEF DecidedOnceOn
    <3>4. \A n : Path(Path(m)[n])' = Path(p[n])'
      BY <3>1 DEF Path
    <3> QED BY <1>8, <1>9, <1>10, <2>1, <3>1, <3>2, <3>3, <3>4
  <2>2. CASE m \in 1 .. Len(main)
    <3>1. PICK p : p = Path(m)
      OBVIOUS
    <3>2. Path(m)' = p /\ p \in Seq(1 .. Len(main)) /\ Len(p) <= m /\ DecidedOnceOn(p)
          /\ \A n \in 1 .. Len(p) : Path(p[n]) = SubSeq(p, 1, n)
      <4>1. Path(m)' = Path(m) /\ Path(m) \in Seq(1 .. Len(main))
        BY <1>5, <2>2, MainIs
      <4> QED BY <2>2, <3>1, <4>1 DEF MainTree
    <3>3. DecidedOnceOn(Path(m))' = DecidedOnceOn(p)'
      BY <3>2 DEF DecidedOnceOn
    <3>4. \A n : Path(Path(m)[n])' = Path(p[n])'
      BY <3>2 DEF Path
    <3>5. \A n \in 1 .. Len(p) : Path(p[n])' = Path(p[n])
      BY <1>5, <3>2
    <3>6. DecidedOnceOn(p)'
      BY <1>5, <3>2, DecisionsKept
    <3> QED BY <3>2, <3>3, <3>4, <3>5, <3>6
  <2> QED BY <1>5, <2>1, <2>2
<1>13. MainContents'
  <2>1. \/ outcome = NoOutcome
        \/ \E w \in wallet, status \in {"Succeeded", "Failed"} : outcome = Ended(w, status)
    BY EnforcerAssumption DEF Outcomes, Undecided, Ended
  <2>2. deposit \in Deposit
    BY EnforcerAssumption
  <2> SUFFICES ASSUME NEW m \in 1 .. new
               PROVE  /\ main'[m] = [path    |-> main'[m].path,    bmm     |-> main'[m].bmm,
                                     deposit |-> main'[m].deposit, outcome |-> main'[m].outcome]
                      /\ main'[m].deposit \in Deposit
                      /\ \/ main'[m].outcome = NoOutcome
                         \/ \E w \in wallet, status \in {"Succeeded", "Failed"} :
                               main'[m].outcome = Ended(w, status)
    BY <1>5 DEF MainContents, Ended
  <2>3. CASE m = new
    BY <1>4, <2>1, <2>2, <2>3
  <2>4. CASE m \in 1 .. Len(main)
    BY <1>5, <2>4 DEF MainGrows, MainContents
  <2> QED BY <1>5, <2>3, <2>4
<1> QED BY <1>12, <1>13

(* Steps that mine nothing.                                               *)
LEMMA QuietTree ==
    ASSUME CommitInv, CommitInv', MainTree, MainContents, UNCHANGED <<main, best>>,
           tip' \in {tip, best}, wallet \subseteq wallet'
    PROVE  MainTree' /\ MainContents'
<1>1. Len(Path(tip))' <= Len(Path(best))'
  <2>1. Path(best)' = Path(best) /\ Path(tip)' \in {Path(tip), Path(best)}
    BY DEF Path
  <2> QED BY <2>1, MainIs DEF MainTree
<1>2. MainTree'
  <2>1. \A m : Path(m)' = Path(m) /\ DecidedOnceOn(Path(m))' = DecidedOnceOn(Path(m))
    BY DEF Path, DecidedOnceOn
  <2>2. \A m, n : Path(Path(m)[n])' = Path(Path(m)[n])
    BY DEF Path
  <2> QED BY <1>1, <2>1, <2>2 DEF MainTree
<1>3. MainContents'
  BY DEF MainContents, Ended
<1> QED BY <1>2, <1>3

-----------------------------------------------------------------------------
(***************************************************************************)
(* The sidechain.                                                         *)
(***************************************************************************)
LEMMA SideIs ==
    ASSUME CommitInv, SideTree
    PROVE  /\ IsSeq(side) /\ Len(side) \in Nat /\ Len(main) \in Nat
           /\ Block(0).path = <<>> /\ Number(0) = 0 /\ Block(0).anchor = 0 /\ Block(0).state = GenesisState
           /\ \A b \in 1 .. Len(side) :
                 /\ Block(b) = side[b] /\ Block(b).anchor \in 1 .. Len(main)
                 /\ Block(b).path \in Seq(1 .. b)
           /\ \A b \in 0 .. Len(side) :
                 /\ Block(b).path \in Seq(1 .. Len(side)) /\ Number(b) \in Nat
                 /\ Number(b) = Len(Block(b).path)
                 /\ Block(b).anchor \in 0 .. Len(main)
                 /\ Block(b).state.requestCount \in 0 .. MaxRequests
<1>1. /\ IsSeq(side) /\ Len(side) \in Nat /\ Len(main) \in Nat
      /\ \A b \in 1 .. Len(side) : side[b].anchor \in 1 .. Len(main)
  <2>1. Len(main) \in Nat
    BY MainIs
  <2> QED BY <2>1 DEF CommitInv, Anchored, IsSeq
<1>2. /\ Block(0).path = <<>> /\ Number(0) = 0 /\ Block(0).anchor = 0 /\ Block(0).state = GenesisState
      /\ GenesisState.requestCount = 0
  BY DEF Block, Genesis, NoBlock, Number, GenesisState
<1>3. \A b \in 1 .. Len(side) : Block(b) = side[b]
  BY DEF Block, Genesis
<1>4. <<>> \in Seq(1 .. Len(side))
  OBVIOUS
<1>5. ASSUME NEW b \in 1 .. Len(side)
      PROVE  Block(b).path \in Seq(1 .. b) /\ Block(b).path \in Seq(1 .. Len(side))
  <2>1. Block(b).path \in Seq(1 .. b)
    BY DEF SideTree, Placed
  <2>2. 1 .. b \subseteq 1 .. Len(side)
    BY <1>1
  <2> QED BY <2>1, <2>2, SeqWidens
<1>6. ASSUME NEW b \in 0 .. Len(side)
      PROVE  /\ Block(b).path \in Seq(1 .. Len(side)) /\ Number(b) \in Nat
             /\ Number(b) = Len(Block(b).path)
             /\ Block(b).anchor \in 0 .. Len(main)
             /\ Block(b).state.requestCount \in 0 .. MaxRequests
  <2>1. b = 0 \/ b \in 1 .. Len(side)
    BY <1>1
  <2>2. Block(b).path \in Seq(1 .. Len(side))
    BY <1>2, <1>4, <1>5, <2>1
  <2>3. Number(b) = Len(Block(b).path) /\ Number(b) \in Nat
    BY <2>2 DEF Number
  <2>4. Block(b).anchor \in 0 .. Len(main)
    BY <1>1, <1>2, <1>3, <2>1
  <2>5. Block(b).state.requestCount \in 0 .. MaxRequests
    BY <1>2, <2>1, UpdateAssumption DEF SideTree, Placed
  <2> QED BY <2>2, <2>3, <2>4, <2>5
<1> QED BY <1>1, <1>2, <1>3, <1>5, <1>6

SideGrows ==
    /\ Len(side) <= Len(side')
    /\ \A b \in 1 .. Len(side) : side'[b] = side[b]

LEMMA BlocksKept ==
    ASSUME CommitInv, SideGrows, NEW b \in 0 .. Len(side)
    PROVE  /\ Block(b)' = Block(b) /\ Number(b)' = Number(b)
           /\ Parent(b)' = Parent(b) /\ NextBundle(b)' = NextBundle(b)
<1>1. Block(b)' = Block(b)
  BY DEF SideGrows, Block, Genesis
<1>2. Number(b)' = Number(b) /\ Parent(b)' = Parent(b)
  BY <1>1 DEF Number, Parent, Genesis
<1>3. NextBundle(b)' = NextBundle(b)
  BY <1>1, <1>2 DEF NextBundle, NewM6id, Select, Oldest, PendingIn, Queued
<1> QED BY <1>1, <1>2, <1>3

(* A block stays the execution of its parent.                             *)
LEMMA ExecuteKept ==
    ASSUME CommitInv, CommitInv', MainGrows, NEW a \in 0 .. Len(main), NEW c \in 0 .. Len(main),
           NEW state, NEW number, NEW newRequests, NEW halted
    PROVE  Execute(state, number, a, c, newRequests, halted)'
              = Execute(state, number, a, c, newRequests, halted)
<1>1. /\ Deposits(a, c)' = Deposits(a, c)
      /\ WithdrawalBundleEvents(a, c)' = WithdrawalBundleEvents(a, c)
  BY AnswersKept
<1>2. ReportBundleLifecycle(state, number, WithdrawalBundleEvents(a, c), halted)'
        = ReportBundleLifecycle(state, number, WithdrawalBundleEvents(a, c)', halted)
  OBVIOUS
<1> QED BY <1>1, <1>2 DEF Execute

LEMMA ChildKept ==
    ASSUME CommitInv, CommitInv', SideTree, MainGrows, SideGrows,
           NEW b \in 1 .. Len(side), NEW p \in 0 .. Len(side), Child(b, p)
    PROVE  Child(b, p)'
<1>1. PICK a, c, state, number, newRequests, halted :
         /\ a = Block(p).anchor /\ c = side[b].anchor /\ state = Block(p).state
         /\ number = Number(p) + 1 /\ newRequests = side[b].newRequests
         /\ halted = side[b].halted
  OBVIOUS
<1>2. a \in 0 .. Len(main) /\ c \in 0 .. Len(main)
  <2>1. Block(p).anchor \in 0 .. Len(main)
    BY SideIs
  <2>2. Block(b) = side[b] /\ Block(b).anchor \in 1 .. Len(main)
    BY SideIs
  <2> QED BY <1>1, <2>1, <2>2
<1>3. side'[b] = side[b] /\ Block(p)' = Block(p) /\ Number(p)' = Number(p)
  BY BlocksKept DEF SideGrows
<1>4. Executed(b, p)' = Execute(state, number, a, c, newRequests, halted)'
  BY <1>1, <1>3 DEF Executed, Execute
<1>5. Executed(b, p)' = Executed(b, p)
  BY <1>1, <1>2, <1>4, ExecuteKept DEF Executed
<1>6. Executable(Block(p).anchor, side[b].anchor)'
  <2>1. Executable(a, c)
    BY <1>1 DEF Child
  <2>2. Executable(a, c)'
    BY <1>2, <2>1, AnswersKept DEF Executable
  <2>3. Executable(Block(p).anchor, side[b].anchor)' = Executable(a, c)'
    BY <1>1, <1>3 DEF Executable, DepositsReadable, RangeKnown, IsAncestor, BlocksAfter, Path
  <2> QED BY <2>2, <2>3
<1> QED BY <1>3, <1>5, <1>6 DEF Child

(* Known blocks keep their place in the tree.                             *)
LEMMA PlaceKept ==
    ASSUME CommitInv, CommitInv', SideTree, MainGrows, SideGrows, NEW b \in 1 .. Len(side)
    PROVE  Placed(b)'
<1>1. PICK p, path : p = Parent(b) /\ path = Block(b).path
  OBVIOUS
<1>2. /\ p \in 0 .. b - 1 /\ Child(b, p) /\ path \in Seq(1 .. b) /\ Len(path) = Number(b)
      /\ \A n \in 1 .. Len(path) : Block(path[n]).path = SubSeq(path, 1, n)
      /\ Block(b).state.requestCount \in 0 .. MaxRequests
  BY <1>1 DEF SideTree, Placed, Number
<1>3. /\ Len(side) \in Nat /\ p \in 0 .. Len(side) /\ b \in 0 .. Len(side)
      /\ \A n \in 1 .. Len(path) : path[n] \in 0 .. Len(side)
  <2>1. Len(side) \in Nat
    BY SideIs
  <2> QED BY <1>2, <2>1
<1>4. /\ Block(b)' = Block(b) /\ Number(b)' = Number(b) /\ Parent(b)' = p
      /\ \A x \in 0 .. Len(side) : Block(x)' = Block(x)
  BY <1>1, <1>3, BlocksKept
<1>5. Child(b, p)'
  BY <1>2, <1>3, ChildKept
<1>6. Child(b, Parent(b))'
  <2>1. PICK q : q = Parent(b)'
    OBVIOUS
  <2>2. Child(b, Parent(b))' = Child(b, q)'
    BY <2>1 DEF Child, Executed, Execute, Executable, DepositsReadable, RangeKnown, IsAncestor,
       BlocksAfter, Block, Number
  <2> QED BY <1>4, <1>5, <2>1, <2>2
<1>7. \A n \in 1 .. Number(b)' : Block(Block(b).path[n])'.path = SubSeq(Block(b).path, 1, n)'
  <2>1. Block(b).path' = path
    BY <1>1, <1>4
  <2>2. \A n : Block(Block(b).path[n])' = Block(path[n])'
    BY <2>1 DEF Block
  <2> QED BY <1>2, <1>3, <1>4, <2>1, <2>2
<1> QED BY <1>1, <1>2, <1>4, <1>6, <1>7 DEF Placed

LEMMA SideKept ==
    ASSUME CommitInv, CommitInv', SideTree, MainGrows, UNCHANGED side
    PROVE  SideTree'
<1>1. SideGrows
  <2>1. Len(side) \in Nat
    BY SideIs
  <2> QED BY <2>1 DEF SideGrows
<1>2. \A b \in 1 .. Len(side') : Placed(b)'
  BY <1>1, PlaceKept
<1> QED BY <1>2 DEF SideTree

LEMMA PathEnds ==
    ASSUME CommitInv, SideTree, NEW b \in 1 .. Len(side)
    PROVE  /\ Parent(b) \in 0 .. Len(side) /\ Parent(b) \in 0 .. b - 1
           /\ Block(b).path = Append(Block(Parent(b)).path, b)
           /\ Number(b) = Number(Parent(b)) + 1 /\ Number(b) >= 1
           /\ Block(b).path[Number(b)] = b
           /\ Descends(b, Parent(b))
<1>1. /\ Len(side) \in Nat /\ Parent(b) \in 0 .. b - 1 /\ Child(b, Parent(b)) /\ Block(b) = side[b]
  BY SideIs DEF SideTree, Placed
<1>2. Parent(b) \in 0 .. Len(side)
  BY <1>1
<1>3. PICK S, s : S = 1 .. Len(side) /\ s = Block(Parent(b)).path
  OBVIOUS
<1>4. s \in Seq(S) /\ Len(s) = Number(Parent(b)) /\ b \in S
  BY <1>2, <1>3, SideIs
<1>5. Block(b).path = Append(s, b)
  BY <1>1, <1>3 DEF Child
<1>6. /\ Len(Append(s, b)) = Len(s) + 1 /\ Len(s) \in Nat
      /\ Append(s, b)[Len(s) + 1] = b /\ IsPrefix(s, Append(s, b))
  BY <1>4, AppendedPaths
<1> QED BY <1>1, <1>2, <1>3, <1>4, <1>5, <1>6 DEF Number, Descends

(* A new block: the child of HEAD, anchored to the tip.                   *)
LEMMA NewBlock ==
    ASSUME CommitInv, SideTree, HEAD \in 0 .. Len(side),
           UNCHANGED main, NEW newRequests \in Included(HEAD), NEW halted \in BOOLEAN,
           side' = Append(side, BuildPayload(HEAD, ChainTip, newRequests, halted)),
           NEW p, p = HEAD, NEW new, new = Len(side) + 1
    PROVE  /\ SideGrows /\ MainGrows /\ Len(side') = new /\ new \in Nat /\ new # 0
           /\ p \in 0 .. Len(side) /\ 1 .. new = (1 .. Len(side)) \cup {new}
           /\ side'[new] = [path |-> Append(Block(p).path, new), anchor |-> tip,
                            newRequests |-> newRequests, halted |-> halted,
                            state |-> Execute(Block(p).state, Number(p) + 1, Block(p).anchor,
                                              tip, newRequests, halted)]
           /\ Block(new)' = side'[new] /\ Parent(new)' = p
           /\ newRequests \in 0 .. MaxRequests - Block(p).state.requestCount
<1>1. /\ IsSeq(side) /\ Len(side) \in Nat /\ Len(main) \in Nat
      /\ Block(p).path \in Seq(1 .. Len(side)) /\ p \in 0 .. Len(side)
      /\ Number(p) = Len(Block(p).path)
  BY SideIs
<1> DEFINE block == BuildPayload(HEAD, ChainTip, newRequests, halted)
<1>2. block = [path |-> Append(Block(p).path, new), anchor |-> tip, newRequests |-> newRequests,
               halted |-> halted,
               state |-> Execute(Block(p).state, Number(p) + 1, Block(p).anchor, tip,
                                 newRequests, halted)]
  BY DEF BuildPayload, ChainTip
<1>3. side' = Append(side, block)
  OBVIOUS
<1> HIDE DEF block
<1>4. /\ Len(side') = new /\ side'[new] = block
      /\ \A b \in 1 .. Len(side) : side'[b] = side[b]
  BY <1>1, <1>3, AppendIsSeq
<1>5. /\ new \in Nat /\ new # 0 /\ 1 .. new = (1 .. Len(side)) \cup {new}
      /\ SideGrows /\ MainGrows
  BY <1>1, <1>4 DEF SideGrows, MainGrows
<1>6. Block(new)' = side'[new]
  BY <1>5 DEF Block, Genesis
<1>7. Parent(new)' = p
  <2>1. PICK path : path = Block(new)'.path
    OBVIOUS
  <2>2. path = Append(Block(p).path, new)
    BY <1>2, <1>4, <1>6, <2>1
  <2>3. Parent(new)' = IF Len(path) = 1 THEN 0 ELSE path[Len(path) - 1]
    BY <2>1 DEF Parent, Genesis
  <2>4. CASE p = 0
    <3>1. Block(p).path = <<>>
      BY <2>4, SideIs
    <3>2. Len(path) = 1
      BY <2>2, <3>1
    <3> QED BY <2>3, <2>4, <3>2
  <2>5. CASE p \in 1 .. Len(side)
    <3>1. Number(p) >= 1 /\ Block(p).path[Number(p)] = p
      BY <2>5, PathEnds
    <3>2. Len(path) = Len(Block(p).path) + 1 /\ Len(Block(p).path) >= 1
          /\ path[Len(path) - 1] = Block(p).path[Len(Block(p).path)]
      BY <1>1, <2>2, <3>1
    <3>3. Len(path) # 1 /\ path[Len(path) - 1] = p
      BY <1>1, <3>1, <3>2
    <3> QED BY <2>3, <3>3
  <2> QED BY <1>1, <2>4, <2>5
<1>8. newRequests \in 0 .. MaxRequests - Block(p).state.requestCount
  BY DEF Included
<1> QED BY <1>1, <1>2, <1>4, <1>5, <1>6, <1>7, <1>8

LEMMA AppendedPrefixes ==
    ASSUME NEW S, NEW s \in Seq(S), NEW e \in S, NEW t, t = Append(s, e), NEW l, l = Len(s)
    PROVE  /\ l \in Nat
           /\ Len(t) = l + 1 /\ t[l + 1] = e /\ SubSeq(t, 1, l + 1) = t
           /\ \A k \in 1 .. l : t[k] = s[k] /\ SubSeq(t, 1, k) = SubSeq(s, 1, k)
BY AppendedPaths

LEMMA BuildSide ==
    ASSUME CommitInv, CommitInv', SideTree, HEAD \in 0 .. Len(side),
           UNCHANGED main, NEW newRequests \in Included(HEAD), NEW halted \in BOOLEAN,
           side' = Append(side, BuildPayload(HEAD, ChainTip, newRequests, halted)),
           Executable(Block(HEAD).anchor, ChainTip)
    PROVE  SideTree'
<1>1. PICK p, new, a, c : /\ p = HEAD /\ new = Len(side) + 1
                          /\ a = Block(p).anchor /\ c = tip
  OBVIOUS
<1>2. MaxRequests \in Nat
  BY UpdateAssumption
<1>3. /\ SideGrows /\ MainGrows /\ Len(side') = new /\ new \in Nat /\ new # 0
      /\ p \in 0 .. Len(side) /\ 1 .. new = (1 .. Len(side)) \cup {new}
      /\ side'[new] = [path |-> Append(Block(p).path, new), anchor |-> c,
                       newRequests |-> newRequests, halted |-> halted,
                       state |-> Execute(Block(p).state, Number(p) + 1, a, c,
                                         newRequests, halted)]
      /\ Block(new)' = side'[new] /\ Parent(new)' = p
      /\ newRequests \in 0 .. MaxRequests - Block(p).state.requestCount
  BY <1>1, <1>2, NewBlock
<1>4. /\ Len(side) \in Nat /\ a \in 0 .. Len(main) /\ c \in 0 .. Len(main)
      /\ Block(p).path \in Seq(1 .. Len(side)) /\ Number(p) = Len(Block(p).path)
      /\ Block(p).state.requestCount \in 0 .. MaxRequests
  <2>1. /\ Len(side) \in Nat /\ Block(p).anchor \in 0 .. Len(main)
        /\ Block(p).path \in Seq(1 .. Len(side)) /\ Number(p) = Len(Block(p).path)
        /\ Block(p).state.requestCount \in 0 .. MaxRequests
    BY <1>2, <1>3, SideIs
  <2>2. tip \in 0 .. Len(main)
    BY MainIs
  <2> QED BY <1>1, <2>1, <2>2
<1>5. Block(p)' = Block(p) /\ Number(p)' = Number(p)
  BY <1>3, BlocksKept
<1>6. newRequests \in 0 .. MaxRequests
  <2>1. newRequests \in 0 .. MaxRequests - Block(p).state.requestCount
    BY <1>3
  <2>2. Block(p).state.requestCount \in 0 .. MaxRequests
    BY <1>4
  <2> QED BY <1>2, <2>1, <2>2
<1>7. Child(new, p)'
  <2>1. PICK state, number : state = Block(p).state /\ number = Number(p) + 1
    OBVIOUS
  <2>2. Executed(new, p)' = Execute(state, number, a, c, newRequests, halted)'
    BY <1>1, <1>3, <1>5, <2>1 DEF Executed, Execute
  <2>3. Executed(new, p)' = Execute(Block(p).state, Number(p) + 1, a, c, newRequests, halted)
    BY <1>3, <1>4, <2>1, <2>2, ExecuteKept
  <2>4. Executable(Block(p).anchor, side[new].anchor)'
    <3>1. Executable(a, c)
      BY <1>1 DEF ChainTip
    <3>2. Executable(a, c)'
      BY <1>3, <1>4, <3>1, AnswersKept DEF Executable
    <3>3. side'[new].anchor = c
      BY <1>3
    <3>4. Executable(Block(p).anchor, side[new].anchor)' = Executable(a, c)'
      BY <1>1, <1>5, <3>3 DEF Executable, DepositsReadable, RangeKnown, IsAncestor, BlocksAfter, Path
    <3> QED BY <3>2, <3>4
  <2> QED BY <1>3, <1>5, <1>6, <2>3, <2>4 DEF Child
<1>8. PICK path : path = Append(Block(p).path, new)
  OBVIOUS
<1>9. /\ path \in Seq(1 .. new) /\ Len(path) = Number(p) + 1
      /\ Block(new)'.path = path /\ Number(new)' = Len(path)
  <2>1. Block(p).path \in Seq(1 .. new)
    BY <1>3, <1>4, SeqWidens
  <2>2. new \in 1 .. new
    BY <1>3
  <2>3. Block(new)'.path = path
    BY <1>3, <1>8
  <2> QED BY <1>4, <1>8, <2>1, <2>2, <2>3, AppendedPaths DEF Number
<1>10. \A n \in 1 .. Len(path) : Block(path[n])'.path = SubSeq(path, 1, n)
  <2> SUFFICES ASSUME NEW n \in 1 .. Len(path) PROVE Block(path[n])'.path = SubSeq(path, 1, n)
    OBVIOUS
  <2>1. /\ Len(path) = Len(Block(p).path) + 1 /\ path[Len(path)] = new
        /\ SubSeq(path, 1, Len(path)) = path
        /\ \A k \in 1 .. Len(Block(p).path) :
              path[k] = Block(p).path[k] /\ SubSeq(path, 1, k) = SubSeq(Block(p).path, 1, k)
        /\ 1 .. Len(path) = (1 .. Len(Block(p).path)) \cup {Len(path)}
    <3>1. Block(p).path \in Seq(1 .. new) /\ new \in 1 .. new
      BY <1>3, <1>4, SeqWidens
    <3>2. PICK S, s, l : S = 1 .. new /\ s = Block(p).path /\ l = Len(s)
      OBVIOUS
    <3>3. path = Append(s, new) /\ s \in Seq(S) /\ new \in S /\ l = Len(s)
      BY <1>8, <3>1, <3>2
    <3>4. /\ l \in Nat
          /\ Len(path) = l + 1 /\ path[l + 1] = new /\ SubSeq(path, 1, l + 1) = path
          /\ \A k \in 1 .. l : path[k] = s[k] /\ SubSeq(path, 1, k) = SubSeq(s, 1, k)
      BY <3>3, AppendedPrefixes
    <3>5. 1 .. l + 1 = (1 .. l) \cup {l + 1}
      BY <3>4
    <3> QED BY <3>2, <3>4, <3>5
  <2>2. CASE n = Len(path)
    BY <1>9, <2>1, <2>2
  <2>3. CASE n \in 1 .. Len(Block(p).path)
    <3>1. PICK x : x = path[n]
      OBVIOUS
    <3>2. x \in 1 .. Len(side) /\ x = Block(p).path[n]
      <4>1. PICK S, s : S = 1 .. Len(side) /\ s = Block(p).path
        OBVIOUS
      <4>2. s \in Seq(S) /\ n \in 1 .. Len(s)
        BY <1>4, <2>3, <4>1
      <4>3. s[n] \in S
        BY <4>2
      <4> QED BY <2>1, <2>3, <3>1, <4>1, <4>3
    <3>3. p # 0
      BY <2>3, <1>4, SideIs, <1>2
    <3>4. Block(x).path = SubSeq(path, 1, n)
      <4>1. p \in 1 .. Len(side)
        BY <1>3, <3>3
      <4> QED BY <4>1, <1>4, <2>1, <2>3, <3>2 DEF SideTree, Placed
    <3>5. Block(x)' = Block(x)
      BY <1>3, <3>2, BlocksKept
    <3> QED BY <3>1, <3>4, <3>5
  <2> QED BY <2>1, <2>2, <2>3
<1>11. Block(new)'.state.requestCount \in 0 .. MaxRequests
  <2>1. Block(new)'.state.requestCount = Block(p).state.requestCount + newRequests
    BY <1>3 DEF Execute
  <2>2. PICK k : k = Block(p).state.requestCount
    OBVIOUS
  <2>3. k \in 0 .. MaxRequests /\ newRequests \in 0 .. MaxRequests - k
    BY <1>3, <1>4, <2>2
  <2>4. k + newRequests \in 0 .. MaxRequests
    BY <1>2, <2>3
  <2> QED BY <2>1, <2>2, <2>4
<1>12. ASSUME NEW b \in 1 .. new
       PROVE  Placed(b)'
  <2>1. CASE b \in 1 .. Len(side)
    BY <1>2, <1>3, <2>1, PlaceKept
  <2>2. CASE b = new
    <3>1. Child(b, Parent(b))' = Child(new, p)'
      BY <1>3, <2>2, ZenonT(60) DEF Child, Executed, Execute, Executable, DepositsReadable, RangeKnown, IsAncestor,
         BlocksAfter, Block, Number
    <3>2. p \in 0 .. new - 1
      BY <1>1, <1>3, <1>4
    <3>3. \A n : Block(Block(new).path[n])' = Block(path[n])'
      BY <1>9 DEF Block
    <3>4. \A n \in 1 .. Number(new)' : Block(Block(new).path[n])'.path = SubSeq(Block(new).path, 1, n)'
      BY <1>9, <1>10, <3>3
    <3>5. Block(new).path' \in Seq(1 .. new) /\ Block(new).state.requestCount' \in 0 .. MaxRequests
      BY <1>9, <1>11
    <3> QED BY <1>3, <1>7, <2>2, <3>1, <3>2, <3>4, <3>5 DEF Placed
  <2> QED BY <1>3, <2>1, <2>2
<1> QED BY <1>3, <1>12 DEF SideTree

-----------------------------------------------------------------------------
(***************************************************************************)
(* What a step does to the two chains and to the wallet: it mines, it     *)
(* builds, or it leaves the chains alone.                                 *)
(***************************************************************************)
Mines ==
    /\ \E parent \in 1 .. Len(main), bmm \in Nat, lagging \in BOOLEAN : MineBlock(parent, bmm, lagging)
    /\ UNCHANGED <<wallet, side>>

Proposed ==
    \/ UNCHANGED wallet
    \/ Select(Block(HEAD).state) # {} /\ wallet' = wallet \cup {NextBundle(HEAD)}

Delivered ==
    "lostBroadcast" \in Faults \/ Select(Block(HEAD).state) = {} \/ NextBundle(HEAD) \in wallet'

Builds ==
    /\ UNCHANGED <<main, best, tip>>
    /\ HEAD \in accepted
    /\ Proposed
    /\ Delivered
    /\ Executable(Block(HEAD).anchor, ChainTip)
    /\ \E newRequests \in Included(HEAD), halted \in Halts(HEAD, ChainTip) :
          side' = Append(side, BuildPayload(HEAD, ChainTip, newRequests, halted))

Rests ==
    /\ UNCHANGED <<main, best, side>>
    /\ tip' \in {tip, best}
    /\ Proposed

LEMMA BroadcastProposes ==
    ASSUME NEW lost \in BOOLEAN, Broadcast(HEAD, lost)
    PROVE  Proposed
BY DEF Broadcast, Proposed, BroadcastWithdrawalBundle

LEMMA GenerateMines ==
    ASSUME CommitInv, NEW lagging \in BOOLEAN, GenerateToAddress(lagging), UNCHANGED side
    PROVE  Mines
<1>1. best \in 1 .. Len(main) /\ best \in 1 .. MaxMain
  BY MainIs
<1>2. bids[best] \in Nat
  BY <1>1 DEF CommitInv, BidsAtAnchor
<1>3. MineBlock(best, bids[best], lagging)
  BY DEF GenerateToAddress
<1>4. UNCHANGED wallet
  BY <1>3 DEF MineBlock
<1> QED BY <1>1, <1>2, <1>3, <1>4 DEF Mines

LEMMA FundMines ==
    ASSUME CommitInv, FundWallet, UNCHANGED side
    PROVE  Mines
<1>1. best \in 1 .. Len(main) /\ best \in 1 .. MaxMain
  BY MainIs
<1>2. bids[best] \in Nat
  BY <1>1 DEF CommitInv, BidsAtAnchor
<1>3. PICK bmm \in {0, bids[best]} : MineBlock(best, bmm, FALSE)
  BY DEF FundWallet
<1>4. UNCHANGED wallet
  BY <1>3 DEF MineBlock
<1> QED BY <1>1, <1>2, <1>3, <1>4 DEF Mines

LEMMA Steps ==
    ASSUME CommitInv, [Next]_vars
    PROVE  Mines \/ Builds \/ Rests
<1>1. ASSUME NEW lost \in BOOLEAN, Build(lost) PROVE Builds \/ Rests
  <2>1. Proposed /\ UNCHANGED <<main, best, tip>>
    BY <1>1, BroadcastProposes DEF Build
  <2>2. Delivered
    BY <1>1 DEF Build, FaultIf, Broadcast, BroadcastWithdrawalBundle, Delivered
  <2> QED BY <1>1, <2>1, <2>2 DEF Build, BuildsOnHead, Builds, Rests
<1>2. CASE \/ Bid \/ NewPayload \/ Advance \/ SaveHead
          \/ Restart \/ NodeRestarts \/ EnforcerStalls
  BY <1>2 DEF Bid, NewPayload, Advance, SaveHead, Restart, NodeRestarts, EnforcerStalls, Rests, Proposed,
     enforcerVars, nodeVars
<1>3. ASSUME NEW lagging \in BOOLEAN, Mine(lagging) PROVE Mines
  <2>1. UNCHANGED side
    BY <1>3 DEF Mine, nodeVars
  <2> QED BY <1>3, <2>1, GenerateMines DEF Mine
<1>4. CASE EnforcerSyncs
  BY <1>4 DEF EnforcerSyncs, Sync, nodeVars, Rests, Proposed
<1>5. CASE Skip \/ Stalled \/ UNCHANGED vars
  BY <1>5 DEF Skip, Stalled, vars, enforcerVars, nodeVars, Rests, Proposed
<1>6. CASE RpcFails
  <2>1. CASE /\ Broadcast(HEAD, FALSE)
             /\ UNCHANGED <<main, best, tip, bids, side, accepted, pc>>
    BY <2>1, BroadcastProposes DEF Rests
  <2>2. CASE UNCHANGED <<enforcerVars, nodeVars>>
    BY <2>2 DEF enforcerVars, nodeVars, Rests, Proposed
  <2>3. CASE /\ UNCHANGED nodeVars
             /\ UNCHANGED enforcerVars \/ GenerateToAddress(FALSE)
    <3>1. UNCHANGED side
      BY <2>3 DEF nodeVars
    <3>2. CASE UNCHANGED enforcerVars
      BY <3>1, <3>2 DEF enforcerVars, Rests, Proposed
    <3> QED BY <2>3, <3>1, <3>2, GenerateMines
  <2>4. CASE UNCHANGED <<enforcerVars, side, head>>
    BY <2>4 DEF enforcerVars, Rests, Proposed
  <2> QED BY <1>6, <2>1, <2>2, <2>3, <2>4 DEF RpcFails
<1>7. ASSUME NEW lagging \in BOOLEAN, OtherMiner(lagging) PROVE Mines
  <2>1. UNCHANGED side
    BY <1>7 DEF OtherMiner, nodeVars
  <2>2. PICK parent \in 1 .. Len(main) : \E bmm \in {0, bids[parent]} : MineBlock(parent, bmm, lagging)
    BY <1>7 DEF OtherMiner, MineElsewhere
  <2>3. PICK bmm \in {0, bids[parent]} : MineBlock(parent, bmm, lagging)
    BY <2>2
  <2>4. bmm \in Nat
    <3>1. parent \in 1 .. MaxMain
      BY EnforcerAssumption DEF CommitInv, MainPaths
    <3> QED BY <3>1 DEF CommitInv, BidsAtAnchor
  <2>5. UNCHANGED wallet
    BY <2>3 DEF MineBlock
  <2> QED BY <2>1, <2>3, <2>4, <2>5 DEF Mines
<1>8. CASE Start
  BY <1>8, FundMines DEF Start
<1> QED BY <1>1, <1>2, <1>3, <1>4, <1>5, <1>6, <1>7, <1>8 DEF Next, Loop

LEMMA NextTrees ==
    ASSUME CommitInv, CommitInv', MainTree, MainContents, SideTree, HEAD \in 0 .. Len(side), [Next]_vars
    PROVE  /\ MainTree' /\ MainContents' /\ SideTree' /\ MainGrows /\ SideGrows
<1>1. /\ MaxRequests \in Nat
      /\ Len(main) \in Nat /\ Len(side) \in Nat
  BY UpdateAssumption, SideIs
<1>2. CASE Mines
  <2>1. PICK parent \in 1 .. Len(main), bmm \in Nat, lagging \in BOOLEAN : MineBlock(parent, bmm, lagging)
    BY <1>2 DEF Mines
  <2>2. MainTree' /\ MainContents'
    BY <2>1, MineTree
  <2>3. MainGrows
    <3>1. PICK new, path : new = Len(main) + 1 /\ path = Append(Path(parent), new)
      OBVIOUS
    <3> QED BY <2>1, <3>1, Mined
  <2>4. UNCHANGED side /\ SideGrows
    BY <1>1, <1>2 DEF Mines, SideGrows
  <2> QED BY <1>1, <2>2, <2>3, <2>4, SideKept
<1>3. CASE Builds
  <2>1. UNCHANGED <<main, best, tip>> /\ wallet \subseteq wallet'
    BY <1>3 DEF Builds, Proposed
  <2>2. MainTree' /\ MainContents'
    BY <2>1, QuietTree
  <2>3. PICK newRequests \in Included(HEAD), halted \in BOOLEAN :
            side' = Append(side, BuildPayload(HEAD, ChainTip, newRequests, halted))
    BY <1>3 DEF Builds, Halts
  <2>4. Executable(Block(HEAD).anchor, ChainTip)
    BY <1>3 DEF Builds
  <2>5. SideTree'
    BY <2>1, <2>3, <2>4, BuildSide
  <2>6. SideGrows /\ MainGrows
    <3>1. PICK p, new : p = HEAD /\ new = Len(side) + 1
      OBVIOUS
    <3> QED BY <1>1, <2>1, <2>3, <3>1, NewBlock
  <2> QED BY <1>1, <2>1, <2>2, <2>5, <2>6
<1>4. CASE Rests
  <2>1. /\ UNCHANGED <<main, best, side>> /\ tip' \in {tip, best} /\ wallet \subseteq wallet'
    BY <1>1, <1>4 DEF Rests, Proposed
  <2>2. MainTree' /\ MainContents'
    BY <2>1, QuietTree
  <2>3. MainGrows /\ SideGrows
    BY <1>1, <2>1 DEF MainGrows, SideGrows
  <2> QED BY <1>1, <2>1, <2>2, <2>3, SideKept
<1> QED BY <1>2, <1>3, <1>4, Steps

(***************************************************************************)
(* The wallet.                                                            *)
(***************************************************************************)
LEMMA ProposesKept ==
    ASSUME CommitInv, SideGrows, NEW b \in 0 .. Len(side), NEW w
    PROVE  Proposes(b, w)' <=> Proposes(b, w)
<1>1. Block(b)' = Block(b) /\ NextBundle(b)' = NextBundle(b)
  BY BlocksKept
<1>2. Select(Block(b).state)' = Select(Block(b).state)
  BY <1>1 DEF Select, Oldest, PendingIn, Queued
<1> QED BY <1>1, <1>2 DEF Proposes

LEMMA NextWallet ==
    ASSUME CommitInv, WalletKnown, SideGrows, Len(side) \in Nat, Len(side') \in Nat,
           HEAD \in 0 .. Len(side), [Next]_vars
    PROVE  WalletKnown'
<1> SUFFICES ASSUME NEW w \in wallet' PROVE \E b \in 0 .. Len(side') : Proposes(b, w)'
  BY DEF WalletKnown
<1>1. 0 .. Len(side) \subseteq 0 .. Len(side')
  BY DEF SideGrows
<1>2. CASE w \in wallet
  <2>1. PICK b \in 0 .. Len(side) : Proposes(b, w)
    BY <1>2 DEF WalletKnown
  <2> QED BY <1>1, <2>1, ProposesKept
<1>3. CASE w = NextBundle(HEAD) /\ Select(Block(HEAD).state) # {}
  <2>1. PICK b : b = HEAD
    OBVIOUS
  <2>2. b \in 0 .. Len(side) /\ Proposes(b, w)
    BY <1>3, <2>1 DEF Proposes
  <2> QED BY <1>1, <2>2, ProposesKept
<1>4. w \in wallet \/ (w = NextBundle(HEAD) /\ Select(Block(HEAD).state) # {})
  BY Steps DEF Mines, Builds, Rests, Proposed
<1> QED BY <1>2, <1>3, <1>4

-----------------------------------------------------------------------------
(***************************************************************************)
(* The loop and the node.                                                 *)
(***************************************************************************)
Loops == {"start", "build", "bid", "mine", "import", "advance", "save", "stalled"}

LEMMA FaultsBounded ==
    ASSUME faults \in 0 .. MaxFaults, NEW happens \in BOOLEAN, NEW kind, FaultIf(happens, kind)
    PROVE  faults' \in 0 .. MaxFaults /\ (happens => kind \in Faults)
BY BethAssumption DEF FaultIf

(* Steps that accept nothing.                                             *)
LEMMA ControlKept ==
    ASSUME CommitInv, SideTree, Control, SideGrows, Len(side') \in Nat, UNCHANGED accepted,
           head' \in accepted, payload' \in 0 .. Len(side'),
           HEAD' \in 0 .. Len(side'), headFile' \in 0 .. Len(side'),
           pc' \in Loops, faults' \in 0 .. MaxFaults,
           NodeKeeps => /\ HEAD' \in accepted /\ headFile' \in accepted
                        /\ pc' \in {"advance", "save"} => payload' \in accepted
    PROVE  Control'
<1>1. Len(side) \in Nat /\ Len(side) <= Len(side') /\ accepted \subseteq 0 .. Len(side)
  BY DEF CommitInv, Anchored, IsSeq, SideGrows, Control
<1>2. accepted' \subseteq 0 .. Len(side')
  BY <1>1
<1>3. ASSUME NEW b \in accepted', NEW n \in 1 .. Number(b)'
      PROVE  Block(b).path[n]' \in accepted'
  <2>1. Block(b)' = Block(b) /\ Number(b)' = Number(b)
    BY <1>1, BlocksKept
  <2> QED BY <2>1 DEF Control
<1> QED BY <1>2, <1>3 DEF Control, Loops, NodeKeeps

LEMMA AcceptControl ==
    ASSUME CommitInv, SideTree, Control, UNCHANGED <<side, head, payload, HEAD, headFile>>,
           pc = "import", Valid(payload), accepted' = accepted \cup {payload}, pc' \in Loops,
           faults' \in 0 .. MaxFaults
    PROVE  Control'
<1>1. /\ payload \in 1 .. Len(side)
      /\ accepted \subseteq 0 .. Len(side) /\ Parent(payload) \in accepted
  BY DEF CommitInv, Control, Valid
<1>2. /\ Len(side) \in Nat /\ SideGrows
  BY <1>1, SideIs DEF SideGrows
<1>3. \A b \in 0 .. Len(side) : Block(b)' = Block(b) /\ Number(b)' = Number(b)
  BY <1>2, BlocksKept
<1>4. ASSUME NEW n \in 1 .. Number(payload)
      PROVE  Block(payload).path[n] \in accepted \cup {payload}
  <2>1. PICK S, s : S = 1 .. Len(side) /\ s = Block(Parent(payload)).path
    OBVIOUS
  <2>2. Parent(payload) \in 0 .. Len(side)
    BY <1>1
  <2>3. /\ s \in Seq(S) /\ payload \in S /\ Len(s) = Number(Parent(payload))
    BY <1>1, <2>1, <2>2, SideIs
  <2>4. Block(payload).path = Append(s, payload) /\ Number(payload) = Len(s) + 1
    BY <1>1, <2>1, <2>3, PathEnds
  <2>5. Block(payload).path[Len(s) + 1] = payload
        /\ \A k \in 1 .. Len(s) : Block(payload).path[k] = s[k]
    <3>1. /\ Append(s, payload)[Len(s) + 1] = payload
          /\ \A k \in 1 .. Len(s) : Append(s, payload)[k] = s[k]
      BY <2>3, AppendedPaths
    <3> QED BY <2>4, <3>1
  <2>6. n = Len(s) + 1 \/ n \in 1 .. Len(s)
    BY <2>3, <2>4
  <2>7. \A k \in 1 .. Len(s) : s[k] \in accepted
    BY <1>1, <2>1, <2>3 DEF Control
  <2> QED BY <2>5, <2>6, <2>7
<1>5. \A b \in accepted' : \A n \in 1 .. Number(b)' : Block(b)'.path[n] \in accepted'
  <2> SUFFICES ASSUME NEW b \in accepted', NEW n \in 1 .. Number(b)'
               PROVE  Block(b)'.path[n] \in accepted'
    OBVIOUS
  <2>1. b \in 0 .. Len(side) /\ Block(b)' = Block(b) /\ Number(b)' = Number(b)
    BY <1>1, <1>3
  <2>2. CASE b = payload
    BY <1>4, <2>1, <2>2
  <2>3. CASE b \in accepted
    BY <2>1, <2>3 DEF Control
  <2> QED BY <2>2, <2>3
<1>6. accepted' \subseteq 0 .. Len(side')
  BY <1>1, <1>2
<1> QED BY <1>5, <1>6 DEF Control, Loops, NodeKeeps

(* The node comes back with an ancestor of its head, and with what that   *)
(* one descends from.                                                     *)
LEMMA NodeRestartsControl ==
    ASSUME CommitInv, SideTree, Control, NodeRestarts
    PROVE  Control'
<1>1. /\ UNCHANGED <<side, pc, payload, HEAD, headFile>>
      /\ ~NodeKeeps /\ faults' \in 0 .. MaxFaults
      /\ accepted' = {b \in accepted : Descends(head', b)}
  BY FaultsBounded DEF NodeRestarts, loopVars, NodeKeeps, Control
<1>2. /\ accepted \subseteq 0 .. Len(side) /\ head \in accepted
  BY DEF Control
<1>3. Len(side) \in Nat /\ SideGrows
  BY <1>1, <1>2, SideIs DEF SideGrows
<1>4. \A b \in 0 .. Len(side) : Block(b)' = Block(b) /\ Number(b)' = Number(b)
  BY <1>3, BlocksKept
<1>5. head' \in accepted
  <2>1. PICK lost \in 1 .. MaxLost :
           lost <= Number(head) /\ head' = (<<Genesis>> \o Block(head).path)[Number(head) + 1 - lost]
    BY DEF NodeRestarts
  <2>2. PICK path, n : path = Block(head).path /\ n = Number(head) + 1 - lost
    OBVIOUS
  <2>3. path \in Seq(1 .. Len(side)) /\ Len(path) = Number(head) /\ n \in 1 .. Len(path)
    BY <1>2, <2>1, <2>2, SideIs, BethAssumption, SMTT(30)
  <2>4. head' = (<<0>> \o path)[n]
    BY <2>1, <2>2 DEF Genesis
  <2>5. head' = IF n = 1 THEN 0 ELSE path[n - 1]
    <3>1. <<0>> \in Seq({0}) /\ Len(<<0>>) = 1 /\ <<0>>[1] = 0
      OBVIOUS
    <3>2. CASE n = 1
      BY <2>3, <2>4, <3>1, <3>2
    <3>3. CASE n # 1
      BY <2>3, <2>4, <3>1, <3>3
    <3> QED BY <3>2, <3>3
  <2>6. n # 1 => n - 1 \in 1 .. Number(head)
    BY <2>3
  <2> QED BY <1>2, <2>2, <2>5, <2>6 DEF Control
<1>6. PICK h : h = head'
  OBVIOUS
<1>7. h \in 0 .. Len(side) /\ Block(h).path \in Seq(1 .. Len(side))
  BY <1>2, <1>5, <1>6, SideIs
<1>8. Descends(h, h) /\ Descends(h, 0)
  <2>1. Block(0).path = <<>>
    BY <1>2, SideIs
  <2> QED BY <1>7, <2>1, PrefixReflexive DEF Descends
<1>9. \A b : Descends(head', b) = Descends(h, b)
  BY <1>6
<1>10. head' \in accepted' /\ 0 \in accepted' /\ accepted' \subseteq 0 .. Len(side')
  BY <1>1, <1>2, <1>5, <1>6, <1>8, <1>9 DEF Control
<1>11. ASSUME NEW b \in accepted', NEW n \in 1 .. Number(b)'
       PROVE  Block(b)'.path[n] \in accepted'
  <2>1. /\ b \in accepted /\ b \in 0 .. Len(side) /\ Descends(h, b)
        /\ Block(b)' = Block(b) /\ Number(b)' = Number(b)
    BY <1>1, <1>2, <1>4, <1>9
  <2>2. PICK x, path : x = Block(b).path[n] /\ path = Block(b).path
    OBVIOUS
  <2>3. /\ path \in Seq(1 .. Len(side)) /\ Len(path) = Number(b) /\ n \in 1 .. Len(path)
        /\ x \in accepted /\ x \in 1 .. Len(side)
    <3>1. path \in Seq(1 .. Len(side)) /\ Len(path) = Number(b)
      BY <1>2, <2>1, <2>2, SideIs
    <3>2. n \in 1 .. Number(b)
      BY <2>1
    <3>3. x \in accepted
      BY <2>1, <2>2, <3>2 DEF Control
    <3> QED BY <2>2, <3>1, <3>2, <3>3
  <2>4. b \in 1 .. Len(side)
    BY <1>2, <1>3, <2>1, <2>2, <2>3, SideIs
  <2>5. Block(x).path = SubSeq(path, 1, n)
    BY <2>2, <2>3, <2>4 DEF SideTree, Placed
  <2>6. IsPrefix(SubSeq(path, 1, n), path) /\ SubSeq(path, 1, n) \in Seq(1 .. Len(side))
    BY <2>3 DEF IsPrefix
  <2>7. IsPrefix(path, Block(h).path)
    BY <2>1, <2>2 DEF Descends
  <2>8. Descends(h, x)
    BY <1>7, <2>3, <2>5, <2>6, <2>7, PrefixTransitive DEF Descends
  <2> QED BY <1>1, <1>9, <2>1, <2>2, <2>3, <2>8
<1> QED BY <1>1, <1>10, <1>11 DEF Control, NodeKeeps

LEMMA BuildControl ==
    ASSUME CommitInv, SideTree, Control, SideGrows, Len(side') \in Nat,
           NEW lost \in BOOLEAN, Build(lost)
    PROVE  Control'
<1>1. /\ head' = HEAD /\ HEAD \in accepted /\ UNCHANGED <<accepted, HEAD, headFile>> /\ pc = "build"
      /\ faults' \in 0 .. MaxFaults
      /\ UNCHANGED <<payload, pc, side>> \/ (payload' = Len(side) + 1 /\ pc' = "bid" /\ payload' = Len(side'))
  <2>1. faults' \in 0 .. MaxFaults
    BY FaultsBounded DEF Build, Control
  <2>2. ASSUME NEW block, side' = Append(side, block) PROVE Len(side') = Len(side) + 1
    BY <2>2, AppendIsSeq DEF CommitInv, Anchored
  <2> QED BY <2>1, <2>2 DEF Build, BuildsOnHead
<1>2. /\ Len(side) \in Nat /\ Len(side) <= Len(side')
      /\ HEAD \in 0 .. Len(side) /\ headFile \in 0 .. Len(side) /\ payload \in 0 .. Len(side)
  BY DEF CommitInv, Anchored, IsSeq, Control, SideGrows
<1>3. payload' \in 0 .. Len(side') /\ HEAD' \in 0 .. Len(side') /\ headFile' \in 0 .. Len(side')
  BY <1>1, <1>2
<1>4. pc' \in Loops /\ ~(pc' \in {"advance", "save"})
  BY <1>1 DEF Loops
<1>5. NodeKeeps => HEAD' \in accepted /\ headFile' \in accepted
  BY <1>1 DEF Control
<1> QED BY <1>1, <1>3, <1>4, <1>5, ControlKept

(* Steps that leave the node alone, but for its head, and the loop too,   *)
(* but for where it is.                                                   *)
LEMMA PassControl ==
    ASSUME CommitInv, SideTree, Control, UNCHANGED <<side, accepted, payload, HEAD, headFile>>,
           head' \in accepted, pc' \in Loops,
           NodeKeeps /\ pc' \in {"advance", "save"} => payload \in accepted,
           faults' \in 0 .. MaxFaults
    PROVE  Control'
<1>1. Len(side') \in Nat /\ SideGrows
  BY DEF SideGrows, CommitInv, Anchored, IsSeq
<1>2. /\ payload' \in 0 .. Len(side') /\ HEAD' \in 0 .. Len(side') /\ headFile' \in 0 .. Len(side')
      /\ NodeKeeps => /\ HEAD' \in accepted /\ headFile' \in accepted
                      /\ pc' \in {"advance", "save"} => payload' \in accepted
  BY DEF Control
<1> QED BY <1>1, <1>2, ControlKept

LEMMA NextControl ==
    ASSUME CommitInv, SideTree, Control, SideGrows, Len(side') \in Nat,
           [Next]_vars
    PROVE  Control'
<1>1. /\ head \in accepted /\ faults \in 0 .. MaxFaults /\ pc \in Loops
      /\ NodeKeeps /\ pc \in {"advance", "save"} => payload \in accepted
  BY DEF Control, Loops
<1>2. ASSUME NEW lost \in BOOLEAN, Build(lost) PROVE Control'
  BY <1>2, BuildControl
<1>3. CASE Bid \/ EnforcerSyncs \/ Skip \/ Stalled \/ UNCHANGED vars
  <2>1. /\ UNCHANGED <<side, accepted, payload, HEAD, headFile, head, faults>>
        /\ UNCHANGED pc \/ pc' \in {"mine", "build"}
    BY <1>3 DEF Bid, EnforcerSyncs, Skip, Stalled, vars, nodeVars, loopVars
  <2>2. pc' \in Loops /\ (NodeKeeps /\ pc' \in {"advance", "save"} => payload \in accepted)
    BY <1>1, <2>1 DEF Loops
  <2> QED BY <1>1, <2>1, <2>2, PassControl
<1>4. ASSUME NEW lagging \in BOOLEAN, Mine(lagging) PROVE Control'
  <2>1. UNCHANGED <<side, accepted, payload, HEAD, headFile, head>> /\ pc' = "import"
    BY <1>4 DEF Mine, nodeVars
  <2>2. faults' \in 0 .. MaxFaults
    BY <1>1, <1>4, FaultsBounded DEF Mine
  <2>3. pc' \in Loops /\ (NodeKeeps /\ pc' \in {"advance", "save"} => payload \in accepted)
    BY <2>1 DEF Loops
  <2> QED BY <1>1, <2>1, <2>2, <2>3, PassControl
<1>5. ASSUME NEW lagging \in BOOLEAN, OtherMiner(lagging) PROVE Control'
  <2>1. UNCHANGED <<side, accepted, payload, HEAD, headFile, head, pc>>
    BY <1>5 DEF OtherMiner, nodeVars, loopVars
  <2>2. faults' \in 0 .. MaxFaults
    BY <1>1, <1>5, FaultsBounded DEF OtherMiner
  <2>3. pc' \in Loops /\ (NodeKeeps /\ pc' \in {"advance", "save"} => payload \in accepted)
    BY <1>1, <2>1 DEF Loops
  <2> QED BY <1>1, <2>1, <2>2, <2>3, PassControl
<1>6. CASE NewPayload
  <2>1. /\ UNCHANGED <<side, head, payload, HEAD, headFile, faults>>
        /\ pc = "import" /\ pc' \in Loops
    BY <1>6 DEF NewPayload, Loops
  <2>2. CASE Valid(payload) /\ accepted' = accepted \cup {payload}
    BY <1>1, <2>1, <2>2, AcceptControl
  <2>3. CASE UNCHANGED accepted /\ pc' = "build"
    BY <1>1, <2>1, <2>3, PassControl
  <2> QED BY <1>6, <2>2, <2>3 DEF NewPayload
<1>7. CASE Advance
  <2>1. /\ UNCHANGED <<side, accepted, payload, HEAD, headFile, faults>>
        /\ pc = "advance" /\ pc' = "save" /\ pc' \in Loops
        /\ head' \in accepted
    BY <1>1, <1>7 DEF Advance, Loops
  <2> QED BY <1>1, <2>1, PassControl
<1>8. CASE SaveHead
  <2>1. /\ UNCHANGED <<side, accepted, head, payload, faults>> /\ HEAD' = payload /\ headFile' = payload
        /\ pc = "save" /\ pc' = "build" /\ pc' \in Loops
    BY <1>8 DEF SaveHead, Loops, nodeVars
  <2>2. payload \in 0 .. Len(side')
    BY <2>1 DEF Control
  <2>3. NodeKeeps => payload \in accepted
    BY <1>1, <2>1
  <2> QED BY <1>1, <2>1, <2>2, <2>3, ControlKept
<1>9. CASE Restart
  <2>1. /\ UNCHANGED <<side, accepted, head, payload, HEAD, headFile>>
        /\ pc' = "start" /\ pc' \in Loops /\ faults' \in 0 .. MaxFaults
    BY <1>1, <1>9, FaultsBounded DEF Restart, Loops, nodeVars
  <2> QED BY <1>1, <2>1, PassControl
<1>12. CASE EnforcerStalls
  <2>1. /\ UNCHANGED <<side, accepted, head, payload, HEAD, headFile>>
        /\ pc' = "stalled" /\ pc' \in Loops /\ faults' \in 0 .. MaxFaults
    BY <1>1, <1>12, FaultsBounded DEF EnforcerStalls, Loops, nodeVars
  <2> QED BY <1>1, <2>1, PassControl
<1>13. CASE Start
  <2>1. /\ UNCHANGED <<side, accepted, payload, headFile, faults>>
        /\ pc' = "build" /\ pc' \in Loops
    BY <1>13 DEF Start, Loops
  <2>2. HEAD' \in accepted /\ head' \in accepted
    BY <1>1, <1>13 DEF Start
  <2>3. accepted \subseteq 0 .. Len(side') /\ payload \in 0 .. Len(side') /\ headFile \in 0 .. Len(side')
        /\ (NodeKeeps => headFile \in accepted)
    BY <2>1 DEF Control
  <2>4. HEAD' \in 0 .. Len(side')
    BY <2>2, <2>3
  <2> QED BY <1>1, <2>1, <2>2, <2>3, <2>4, ControlKept
<1>10. CASE NodeRestarts
  BY <1>10, NodeRestartsControl
<1>11. CASE RpcFails
  <2>1. UNCHANGED <<payload, HEAD, headFile>> /\ faults' \in 0 .. MaxFaults
    BY <1>1, <1>11, FaultsBounded DEF RpcFails
  <2>2. CASE /\ pc = "build" /\ BuildsOnHead
             /\ head' = HEAD
             /\ UNCHANGED <<main, best, tip, bids, side, accepted, pc>>
    <3>1. head' \in accepted /\ pc' \in Loops /\ ~(pc' \in {"advance", "save"})
      BY <2>2 DEF BuildsOnHead, Loops
    <3> QED BY <2>1, <2>2, <3>1, PassControl
  <2>3. CASE UNCHANGED nodeVars /\ (pc' \in {"mine", "build"} \/ (pc = "advance" /\ pc' = "save"))
    <3>1. UNCHANGED <<side, accepted, head>> /\ pc' \in Loops
      BY <2>3 DEF nodeVars, Loops
    <3>2. NodeKeeps /\ pc' \in {"advance", "save"} => payload \in accepted
      BY <1>1, <2>3
    <3> QED BY <1>1, <2>1, <3>1, <3>2, PassControl
  <2>4. CASE /\ pc = "import" /\ pc' = "build"
             /\ accepted' = accepted \/ (Valid(payload) /\ accepted' = accepted \cup {payload})
             /\ UNCHANGED <<enforcerVars, side, head>>
    <3>1. pc' \in Loops
      BY <2>4 DEF Loops
    <3>2. CASE accepted' = accepted
      BY <1>1, <2>1, <2>4, <3>1, <3>2, PassControl
    <3>3. CASE Valid(payload) /\ accepted' = accepted \cup {payload}
      BY <1>1, <2>1, <2>4, <3>1, <3>3, AcceptControl
    <3> QED BY <2>4, <3>2, <3>3
  <2> QED BY <1>11, <2>2, <2>3, <2>4 DEF RpcFails
<1> QED
  BY <1>2, <1>3, <1>4, <1>5, <1>6, <1>7, <1>8, <1>9, <1>10, <1>11, <1>12, <1>13
  DEF Next, Loop

-----------------------------------------------------------------------------
(***************************************************************************)
(* The invariant.                                                         *)
(***************************************************************************)
LEMMA InitChain == Init => ChainInv
<1> SUFFICES ASSUME Init PROVE ChainInv
  OBVIOUS
<1> USE EnforcerAssumption, UpdateAssumption, BethAssumption
<1>1. CommitInv
  BY InitCommit
<1>2. PICK m : main = <<m>> /\ m = [path |-> <<1>>, bmm |-> 0, deposit |-> "none", outcome |-> NoOutcome]
  BY DEF Init, EnforcerInit
<1>3. Len(main) = 1 /\ main[1] = m /\ best = 1 /\ tip = 1 /\ wallet = {}
  BY <1>2 DEF Init, EnforcerInit
<1>4. Path(1) = <<1>> /\ Len(Path(1)) = 1 /\ Path(1)[1] = 1 /\ SubSeq(Path(1), 1, 1) = Path(1)
  BY <1>2, <1>3 DEF Path, NoBlock
<1>5. MainTree
  BY <1>3, <1>4 DEF MainTree, DecidedOnceOn
<1>6. MainContents
  BY <1>2, <1>3 DEF MainContents, Deposit
<1>7. SideTree /\ WalletKnown
  BY <1>3 DEF Init, SideTree, WalletKnown
<1>8. Control
  <2>1. Number(0) = 0
    BY DEF Number, Block, Genesis
  <2> QED BY <2>1 DEF Init, Genesis, Control
<1> QED BY <1>1, <1>5, <1>6, <1>7, <1>8 DEF ChainInv

LEMMA NextChain == ChainInv /\ [Next]_vars => ChainInv' /\ MainGrows /\ SideGrows
<1> SUFFICES ASSUME ChainInv, [Next]_vars PROVE ChainInv' /\ MainGrows /\ SideGrows
  OBVIOUS
<1>1. CommitInv /\ MainTree /\ MainContents /\ SideTree /\ WalletKnown /\ Control
  BY DEF ChainInv
<1>2. CommitInv'
  BY <1>1, NextCommit
<1>3. HEAD \in 0 .. Len(side)
  BY <1>1 DEF Control
<1>4. /\ MainTree' /\ MainContents' /\ SideTree' /\ MainGrows /\ SideGrows
  BY <1>1, <1>2, <1>3, NextTrees
<1>5. Len(side) \in Nat /\ Len(side') \in Nat
  BY <1>1, <1>2 DEF CommitInv, Anchored, IsSeq
<1>6. WalletKnown'
  BY <1>1, <1>3, <1>4, <1>5, NextWallet
<1>7. Control'
  BY <1>1, <1>4, <1>5, NextControl
<1> QED BY <1>2, <1>4, <1>6, <1>7 DEF ChainInv

(* The two chains are trees whose blocks execute on their parents, for    *)
(* ever (the lemma the theorems below start from).                        *)
THEOREM ChainInvariant == Spec => []ChainInv
<1>1. ChainInv /\ [Next]_vars => ChainInv'
  BY NextChain
<1> QED BY InitChain, <1>1, PTL DEF Spec

(* What holds of genesis, and of a block when it holds of its parent,     *)
(* holds of every block.                                                  *)
LEMMA BlockInduction ==
    ASSUME ChainInv, NEW Good, 0 \in Good,
           \A b \in 1 .. Len(side) : Parent(b) \in Good => b \in Good
    PROVE  0 .. Len(side) \subseteq Good
<1> SUFFICES ASSUME NEW c \in 0 .. Len(side), c \notin Good PROVE FALSE
  OBVIOUS
<1>1. PICK b \in (0 .. Len(side)) \ Good : \A a \in (0 .. Len(side)) \ Good : b <= a
  <2>1. (0 .. Len(side)) \ Good \subseteq Nat /\ (0 .. Len(side)) \ Good # {}
    OBVIOUS
  <2>2. PICK T : T = (0 .. Len(side)) \ Good
    OBVIOUS
  <2> QED BY <2>1, <2>2, LeastElement
<1>2. CommitInv /\ SideTree
  BY DEF ChainInv, Control
<1>3. Len(side) \in Nat
  BY <1>2, SideIs
<1>4. b \in 1 .. Len(side)
  BY <1>1, <1>3
<1>5. Parent(b) \in 0 .. b - 1
  BY <1>2, <1>4 DEF SideTree, Placed
<1>6. Parent(b) \in Good
  BY <1>1, <1>3, <1>4, <1>5
<1> QED BY <1>1, <1>4, <1>6

(* A list is its beginning and the rest.                                  *)
LEMMA PrefixConcat ==
    ASSUME NEW S, NEW s \in Seq(S), NEW t \in Seq(S), IsPrefix(s, t)
    PROVE  t = s \o SubSeq(t, Len(s) + 1, Len(t))
<1>1. Len(s) <= Len(t) /\ \A i \in 1 .. Len(s) : s[i] = t[i]
  BY PrefixIs
<1> DEFINE rest == SubSeq(t, Len(s) + 1, Len(t))
<1>2. rest \in Seq(S) /\ Len(rest) = Len(t) - Len(s)
      /\ \A i \in 1 .. Len(t) - Len(s) : rest[i] = t[Len(s) + i]
  BY <1>1
<1> HIDE DEF rest
<1>3. /\ s \o rest \in Seq(S) /\ Len(s \o rest) = Len(t)
      /\ \A i \in 1 .. Len(t) : (s \o rest)[i] = t[i]
  BY <1>1, <1>2
<1>4. t = s \o rest
  <2>1. PICK u : u = s \o rest
    OBVIOUS
  <2>2. u \in Seq(S) /\ Len(u) = Len(t) /\ \A i \in 1 .. Len(t) : u[i] = t[i]
    BY <1>3, <2>1
  <2>3. u = t
    BY <2>2
  <2> QED BY <2>1, <2>3
<1> QED BY <1>4 DEF rest

(* A block and its parent: what the parent's anchor and the block's are   *)
(* to each other, and what the block's state is.                          *)
Follows(b, p, a, c) ==
    /\ p \in 0 .. Len(side) /\ p \in 0 .. b - 1 /\ a \in 0 .. Len(main) /\ c \in 1 .. Len(main)
    /\ IsPrefix(Path(a), Path(c)) /\ Path(c) = Path(a) \o BlocksAfter(a, c)
    /\ DepositsReadable(a, c)
    /\ Block(b).newRequests \in 0 .. MaxRequests /\ Block(b).halted \in BOOLEAN
    /\ Block(b).state = Execute(Block(p).state, Number(p) + 1, a, c,
                                Block(b).newRequests, Block(b).halted)
    /\ Block(b).path = Append(Block(p).path, b) /\ Number(b) = Number(p) + 1
    /\ Block(b) = [path |-> Block(b).path, anchor |-> c, newRequests |-> Block(b).newRequests,
                   halted |-> Block(b).halted, state |-> Block(b).state]

LEMMA BlockExecuted ==
    ASSUME ChainInv, NEW b \in 1 .. Len(side), NEW p, p = Parent(b), NEW a, a = Block(p).anchor,
           NEW c, c = Block(b).anchor
    PROVE  Follows(b, p, a, c)
<1>1. CommitInv /\ SideTree
  BY DEF ChainInv, Control
<1>2. /\ Block(b) = side[b] /\ c \in 1 .. Len(main) /\ Child(b, p) /\ p \in 0 .. b - 1
  BY <1>1, SideIs DEF SideTree, Placed
<1>3. /\ p \in 0 .. Len(side) /\ Block(b).path = Append(Block(p).path, b) /\ Number(b) = Number(p) + 1
  BY <1>1, PathEnds
<1>4. a \in 0 .. Len(main) /\ Len(main) \in Nat
  BY <1>1, <1>3, SideIs, MainIs
<1>5. DepositsReadable(a, c) /\ IsPrefix(Path(a), Path(c))
  BY <1>2 DEF Child, Executable, DepositsReadable, RangeKnown, IsAncestor
<1>6. Path(c) = Path(a) \o BlocksAfter(a, c)
  <2>1. PICK S, s, t : S = 1 .. Len(main) /\ s = Path(a) /\ t = Path(c)
    OBVIOUS
  <2>2. s \in Seq(S) /\ t \in Seq(S) /\ IsPrefix(s, t)
    <3>1. c \in 0 .. Len(main)
      BY <1>2, <1>4
    <3>2. Path(a) \in Seq(1 .. Len(main)) /\ Path(c) \in Seq(1 .. Len(main))
      BY <1>1, <1>4, <3>1, MainIs
    <3> QED BY <1>5, <2>1, <3>2
  <2>3. t = s \o SubSeq(t, Len(s) + 1, Len(t))
    BY <2>2, PrefixConcat
  <2> QED BY <2>1, <2>3 DEF BlocksAfter
<1>7. /\ Block(b) = [path |-> Append(Block(p).path, b), anchor |-> side[b].anchor,
                     newRequests |-> side[b].newRequests, halted |-> side[b].halted,
                     state |-> Executed(b, p)]
      /\ side[b].newRequests \in 0 .. MaxRequests /\ side[b].halted \in BOOLEAN
  BY <1>2 DEF Child
<1>8. /\ Block(b).newRequests \in 0 .. MaxRequests /\ Block(b).halted \in BOOLEAN
      /\ Block(b).state = Execute(Block(p).state, Number(p) + 1, a, c,
                                  Block(b).newRequests, Block(b).halted)
      /\ Block(b) = [path |-> Block(b).path, anchor |-> c, newRequests |-> Block(b).newRequests,
                     halted |-> Block(b).halted, state |-> Block(b).state]
  BY <1>2, <1>7 DEF Executed
<1> QED BY <1>2, <1>3, <1>4, <1>5, <1>6, <1>8 DEF Follows

-----------------------------------------------------------------------------
(***************************************************************************)
(* Deposits.                                                              *)
(***************************************************************************)
LEMMA HandedTile ==
    ASSUME ChainInv, NEW b \in 0 .. Len(side)
    PROVE  Block(b).state.handed = Keep(Path(Block(b).anchor), WithDeposit)
<1> DEFINE Good == {x \in 0 .. Len(side) : Block(x).state.handed = Keep(Path(Block(x).anchor), WithDeposit)}
<1>1. CommitInv /\ SideTree
  BY DEF ChainInv, Control
<1>2. 0 \in Good
  <2>1. Block(0).state.handed = <<>> /\ Block(0).anchor = 0
    BY <1>1, SideIs DEF GenesisState
  <2>2. Path(0) = <<>> /\ 0 \in 0 .. Len(side)
    BY <1>1, MainIs, SideIs
  <2> QED BY <2>1, <2>2, KeepEmpty
<1>3. ASSUME NEW x \in 1 .. Len(side), Parent(x) \in Good
      PROVE  x \in Good
  <2>1. PICK p, a, c : p = Parent(x) /\ a = Block(p).anchor /\ c = Block(x).anchor
    OBVIOUS
  <2>2. /\ p \in 0 .. Len(side) /\ a \in 0 .. Len(main) /\ c \in 1 .. Len(main)
        /\ Path(c) = Path(a) \o BlocksAfter(a, c)
        /\ Block(x).state = Execute(Block(p).state, Number(p) + 1, a, c,
                                    Block(x).newRequests, Block(x).halted)
    <3>1. Follows(x, p, a, c)
      BY <2>1, BlockExecuted
    <3> QED BY <3>1 DEF Follows
  <2>3. Block(x).state.handed = Block(p).state.handed \o Deposits(a, c)
    BY <2>2, SMTT(30) DEF Execute
  <2>4. Block(p).state.handed = Keep(Path(a), WithDeposit)
    BY <1>3, <2>1
  <2>5. Path(a) \in Seq(1 .. Len(main)) /\ BlocksAfter(a, c) \in Seq(1 .. Len(main))
    BY <1>1, <2>2, MainIs, RangeType
  <2>6. Keep(Path(c), WithDeposit) = Keep(Path(a), WithDeposit) \o Keep(BlocksAfter(a, c), WithDeposit)
    <3>1. PICK S : S = 1 .. Len(main)
      OBVIOUS
    <3> QED BY <2>2, <2>5, <3>1, KeepConcat
  <2>7. x \in 0 .. Len(side)
    BY <1>1, SideIs
  <2> QED BY <2>1, <2>3, <2>4, <2>6, <2>7 DEF Deposits
<1> HIDE DEF Good
<1>4. b \in Good
  BY <1>2, <1>3, BlockInduction
<1> QED BY <1>4 DEF Good

(* Every deposit is handed to the vault exactly once, in mainchain order: *)
(* a block's state has the deposits on the whole path of its anchor       *)
(* behind it, whichever blocks were skipped, reorganised or orphaned and  *)
(* whichever faults happened.                                             *)
THEOREM HandedOverExactlyOnce == Spec => []DepositsOnce
<1>1. ChainInv => DepositsOnce
  <2> SUFFICES ASSUME ChainInv, NEW b \in 1 .. Len(side)
               PROVE  side[b].state.handed = Keep(Path(side[b].anchor), WithDeposit)
    BY DEF DepositsOnce
  <2>1. Block(b) = side[b] /\ b \in 0 .. Len(side)
    BY SideIs DEF ChainInv, Control
  <2> QED BY <2>1, HandedTile
<1> QED BY <1>1, ChainInvariant, PTL

-----------------------------------------------------------------------------
(***************************************************************************)
(* Types.                                                                 *)
(***************************************************************************)
Requests == [Index -> [status : Status, bundleM6id : M6id]]

LEMMA SelectIs ==
    ASSUME NEW q, q.requestCount \in 0 .. MaxRequests
    PROVE  /\ Queued(q) \subseteq Index
           /\ Select(q) \subseteq Queued(q) /\ Select(q) \subseteq Index
           /\ \A i \in Select(q) : q.requests[i].status = "Pending"
BY UpdateAssumption DEF Queued, Index, Select, Oldest, PendingIn

LEMMA NewM6idType ==
    ASSUME NEW bundled \in SUBSET Index, NEW h \in Nat
    PROVE  NewM6id(bundled, h) \in M6id
BY UpdateAssumption DEF NewM6id, M6id

LEMMA LifecycleType ==
    ASSUME NEW q, q.requestCount \in 0 .. MaxRequests, q.requests \in Requests,
           NEW number \in Nat, NEW outcomes, NEW halted \in BOOLEAN
    PROVE  ReportBundleLifecycle(q, number, outcomes, halted) \in Requests
<1> DEFINE bundled   == Select(q)
           marked    == MarkBundled(q.requests, bundled, NewM6id(bundled, number))
           succeeded == Resolved(q, outcomes, "Succeeded")
           failed    == Resolved(q, outcomes, "Failed")
           confirmed == MarkConfirmed(marked, succeeded)
<1>1. NewM6id(bundled, number) \in M6id
  BY SelectIs, NewM6idType
<1>2. marked \in Requests
  BY <1>1 DEF MarkBundled, Requests, Status
<1> HIDE DEF marked, succeeded, failed
<1>3. confirmed \in Requests
  BY <1>2 DEF MarkConfirmed, Requests, Status
<1> HIDE DEF confirmed
<1>4. MarkRefunded(confirmed, failed) \in Requests
  BY <1>3 DEF MarkRefunded, Requests, Status
<1> QED BY <1>4 DEF ReportBundleLifecycle, marked, succeeded, failed, confirmed

LEMMA StateTyped ==
    ASSUME ChainInv, NEW b \in 0 .. Len(side)
    PROVE  Block(b).state \in ChainState
<1> DEFINE Good == {x \in 0 .. Len(side) : Block(x).state \in ChainState}
<1>1. /\ CommitInv /\ SideTree
      /\ MaxRequests \in Nat
  BY UpdateAssumption DEF ChainInv, Control
<1>2. 0 \in Good
  <2>1. Block(0).state = GenesisState /\ 0 \in 0 .. Len(side)
    BY <1>1, SideIs
  <2>2. GenesisState \in ChainState
    BY <1>1 DEF GenesisState, ChainState, Status, M6id, NoBundle
  <2> QED BY <2>1, <2>2
<1>3. ASSUME NEW x \in 1 .. Len(side), Parent(x) \in Good
      PROVE  x \in Good
  <2>1. PICK p, a, c : p = Parent(x) /\ a = Block(p).anchor /\ c = Block(x).anchor
    OBVIOUS
  <2>2. Follows(x, p, a, c)
    BY <2>1, BlockExecuted
  <2>3. PICK q, number, outcomes : /\ q = Block(p).state /\ number = Number(p) + 1
                                   /\ outcomes = WithdrawalBundleEvents(a, c)
    OBVIOUS
  <2>4. Block(x).state = [requestCount |-> q.requestCount + Block(x).newRequests,
                          requests     |-> ReportBundleLifecycle(q, number, outcomes,
                                                                 Block(x).halted),
                          handed       |-> q.handed \o Deposits(a, c)]
    BY <2>2, <2>3 DEF Follows, Execute
  <2>5. /\ q.requestCount \in 0 .. MaxRequests /\ q.requests \in Requests /\ q.handed \in Seq(1 .. MaxMain)
    BY <1>3, <2>1, <2>3 DEF ChainState, Requests
  <2>6. number \in Nat
    <3>1. p \in 0 .. Len(side)
      BY <2>2 DEF Follows
    <3>2. Number(p) \in Nat
      BY <1>1, <3>1, SideIs
    <3> QED BY <2>3, <3>2
  <2>7. ReportBundleLifecycle(q, number, outcomes, Block(x).halted) \in Requests
    BY <2>2, <2>5, <2>6, LifecycleType DEF Follows
  <2>8. x \in 0 .. Len(side) /\ Block(x).state.requestCount \in 0 .. MaxRequests
    <3>1. x \in 0 .. Len(side) /\ Block(x).state.requestCount \in 0 .. MaxRequests
      BY <1>1, SideIs
    <3> QED BY <1>1, <3>1
  <2>9. q.handed \o Deposits(a, c) \in Seq(1 .. MaxMain)
    <3>1. a \in 0 .. Len(main) /\ c \in 0 .. Len(main)
      BY <2>2 DEF Follows
    <3>2. BlocksAfter(a, c) \in Seq(1 .. Len(main)) /\ Len(main) \in 1 .. MaxMain
      BY <1>1, <3>1, RangeType, MainIs
    <3>3. BlocksAfter(a, c) \in Seq(1 .. MaxMain)
      <4>1. 1 .. Len(main) \subseteq 1 .. MaxMain
        BY <3>2, EnforcerAssumption
      <4> QED BY <3>2, <4>1, SeqWidens
    <3>4. Deposits(a, c) \in Seq(1 .. MaxMain)
      BY <3>3, KeepType DEF Deposits
    <3> QED BY <2>5, <3>4
  <2>10. Block(x).state.requestCount = q.requestCount + Block(x).newRequests
    BY <2>4
  <2>11. Block(x).state \in ChainState
    BY <2>4, <2>7, <2>8, <2>9, <2>10 DEF ChainState, Requests
  <2> QED BY <2>8, <2>11
<1> HIDE DEF Good
<1>4. b \in Good
  BY <1>2, <1>3, BlockInduction
<1> QED BY <1>4 DEF Good

LEMMA ProposedType ==
    ASSUME ChainInv, NEW b \in 0 .. Len(side)
    PROVE  /\ NextBundle(b) \in M6id /\ NextBundle(b).indices = Select(Block(b).state)
           /\ Select(Block(b).state) \subseteq Index
<1>1. Block(b).state.requestCount \in 0 .. MaxRequests
  BY StateTyped DEF ChainState
<1>2. Number(b) \in Nat
  BY SideIs DEF ChainInv, Control
<1>3. Select(Block(b).state) \subseteq Index
  BY <1>1, SelectIs
<1>4. NextBundle(b) \in M6id
  BY <1>2, <1>3, NewM6idType DEF NextBundle
<1> QED BY <1>3, <1>4 DEF NextBundle, NewM6id

(* Every variable has its type, and unless blocks are lost the loop       *)
(* builds on a block the node accepted.                                   *)
THEOREM TypeInvariant == Spec => []TypeOK
<1>1. ASSUME ChainInv PROVE TypeOK
  <2>1. CommitInv /\ MainContents /\ SideTree /\ WalletKnown /\ Control
    BY <1>1 DEF ChainInv, Control
  <2>2. /\ IsSeq(main) /\ Len(main) \in Nat /\ Len(main) \in 1 .. MaxMain /\ MaxMain \in Nat
        /\ IsSeq(side) /\ Len(side) \in Nat /\ best \in 1 .. Len(main) /\ tip \in 1 .. Len(main)
    BY <2>1, MainIs, SideIs
  <2>3. bids \in [1 .. MaxMain -> 0 .. Len(side)]
    <3>1. \A p \in 1 .. MaxMain : bids[p] \in 0 .. Len(side)
      BY <2>1, <2>2 DEF CommitInv, BidsAtAnchor, BidFor
    <3> QED BY <2>1, <3>1 DEF CommitInv, BidsAtAnchor
  <2>4. wallet \subseteq M6id
    <3> SUFFICES ASSUME NEW w \in wallet PROVE w \in M6id
      OBVIOUS
    <3>1. PICK b \in 0 .. Len(side) : Proposes(b, w)
      BY <2>1 DEF WalletKnown
    <3> QED BY <1>1, <3>1, ProposedType DEF Proposes
  <2>5. main \in Seq(MainBlock)
    <3> SUFFICES ASSUME NEW m \in 1 .. Len(main) PROVE main[m] \in MainBlock
      BY <2>2 DEF IsSeq
    <3>1. main[m].path \in Seq(1 .. MaxMain)
      <4>1. main[m].path \in Seq(1 .. Len(main)) /\ 1 .. Len(main) \subseteq 1 .. MaxMain
        BY <2>1, <2>2 DEF CommitInv, MainPaths
      <4> QED BY <4>1, SeqWidens
    <3>2. main[m].bmm \in 0 .. Len(side)
      BY <2>1, <2>2 DEF CommitInv, CommitsAfterAnchor, BidFor
    <3>3. main[m].outcome \in {NoOutcome} \cup [m6id : wallet, status : {"Succeeded", "Failed"}]
      <4>1. CASE main[m].outcome = NoOutcome
        BY <4>1
      <4>2. CASE \E w \in wallet, status \in {"Succeeded", "Failed"} : main[m].outcome = Ended(w, status)
        BY <4>2 DEF Ended
      <4> QED BY <2>1, <4>1, <4>2 DEF MainContents
    <3>4. main[m] = [path    |-> main[m].path,    bmm     |-> main[m].bmm,
                     deposit |-> main[m].deposit, outcome |-> main[m].outcome]
          /\ main[m].deposit \in Deposit
      BY <2>1 DEF MainContents
    <3> QED BY <3>1, <3>2, <3>3, <3>4 DEF MainBlock
  <2>6. side \in Seq(SideBlock)
    <3> SUFFICES ASSUME NEW b \in 1 .. Len(side) PROVE side[b] \in SideBlock
      BY <2>2 DEF IsSeq
    <3>1. PICK p, a, c : p = Parent(b) /\ a = Block(p).anchor /\ c = Block(b).anchor
      OBVIOUS
    <3>2. Follows(b, p, a, c)
      BY <1>1, <3>1, BlockExecuted
    <3>3. b \in 0 .. Len(side) /\ Block(b).path \in Seq(1 .. Len(side)) /\ Block(b) = side[b]
      BY <2>1, SideIs
    <3>4. Block(b).state \in ChainState
      BY <1>1, <3>3, StateTyped
    <3>5. /\ c \in 1 .. Len(main) /\ Block(b).newRequests \in 0 .. MaxRequests
          /\ Block(b).halted \in BOOLEAN
          /\ Block(b) = [path |-> Block(b).path, anchor |-> c, newRequests |-> Block(b).newRequests,
                         halted |-> Block(b).halted, state |-> Block(b).state]
      BY <3>2 DEF Follows
    <3>6. PICK path, n, h, state : /\ path = Block(b).path /\ n = Block(b).newRequests
                                   /\ h = Block(b).halted /\ state = Block(b).state
      OBVIOUS
    <3>7. side[b] = [path |-> path, anchor |-> c, newRequests |-> n, halted |-> h, state |-> state]
      BY <3>3, <3>5, <3>6
    <3> QED BY <3>3, <3>4, <3>5, <3>6, <3>7 DEF SideBlock
  <2>7. {payload, HEAD, headFile} \subseteq 0 .. Len(side)
        /\ ("nodeCrash" \in Faults \/ {HEAD, headFile} \subseteq accepted)
        /\ accepted \subseteq 0 .. Len(side) /\ head \in accepted
        /\ pc \in {"start", "build", "bid", "mine", "import", "advance", "save", "stalled"}
        /\ faults \in 0 .. MaxFaults
    BY <2>1 DEF Control, NodeKeeps
  <2> QED BY <2>2, <2>3, <2>4, <2>5, <2>6, <2>7 DEF TypeOK
<1> QED BY <1>1, ChainInvariant, PTL

-----------------------------------------------------------------------------
(***************************************************************************)
(* What the enforcer reports of a stretch of the mainchain.               *)
(***************************************************************************)
EndedIn(w, status, a, c) ==
    \E m \in ToSet(BlocksAfter(a, c)) : main[m].outcome = Ended(w, status)

EndedStatus == {"Succeeded", "Failed"}

(* No two outcomes of one M6.                                             *)
OneEach(outcomes) ==
    \A k, l \in DOMAIN outcomes : outcomes[k].m6id = outcomes[l].m6id => k = l

LEMMA PathDistinct ==
    ASSUME CommitInv, MainTree, NEW c \in 1 .. Len(main)
    PROVE  Distinct(Path(c))
<1> SUFFICES ASSUME NEW i \in 1 .. Len(Path(c)), NEW j \in 1 .. Len(Path(c)), Path(c)[i] = Path(c)[j]
             PROVE  i = j
  BY DEF Distinct
<1>1. PICK S, s : S = 1 .. Len(main) /\ s = Path(c)
  OBVIOUS
<1>2. s \in Seq(S)
  <2>1. c \in 0 .. Len(main)
    BY MainIs
  <2> QED BY <1>1, <2>1, MainIs
<1>3. Path(s[i]) = SubSeq(s, 1, i) /\ Path(s[j]) = SubSeq(s, 1, j)
  BY <1>1 DEF MainTree
<1>4. Len(SubSeq(s, 1, i)) = i /\ Len(SubSeq(s, 1, j)) = j
  BY <1>1, <1>2
<1> QED BY <1>1, <1>3, <1>4

(* The blocks of a stretch are blocks of the path it ends.                *)
LEMMA RangeOnPath ==
    ASSUME CommitInv, MainTree, NEW a \in 0 .. Len(main), NEW c \in 1 .. Len(main)
    PROVE  /\ Distinct(BlocksAfter(a, c))
           /\ \A m \in ToSet(BlocksAfter(a, c)) :
                 m \in 1 .. Len(main) /\ \E k \in 1 .. Len(Path(c)) : k > Len(Path(a)) /\ Path(c)[k] = m
<1>1. PICK S, s, n : S = 1 .. Len(main) /\ s = Path(c) /\ n = Len(Path(a))
  OBVIOUS
<1>2. s \in Seq(S) /\ n \in Nat /\ Distinct(s)
  <2>1. c \in 0 .. Len(main)
    BY MainIs
  <2> QED BY <1>1, <2>1, MainIs, PathDistinct
<1>3. PICK r : r = SubSeq(s, n + 1, Len(s))
  OBVIOUS
<1>4. /\ r \in Seq(S) /\ DOMAIN r = 1 .. Len(r)
      /\ \A i \in 1 .. Len(r) : n + i \in 1 .. Len(s) /\ r[i] = s[n + i] /\ r[i] \in S
  BY <1>2, <1>3
<1>5. Distinct(r)
  <2> SUFFICES ASSUME NEW i \in 1 .. Len(r), NEW j \in 1 .. Len(r), r[i] = r[j] PROVE i = j
    BY DEF Distinct
  <2>1. n + i = n + j
    BY <1>2, <1>4 DEF Distinct
  <2> QED BY <1>2, <2>1
<1>6. \A m \in ToSet(r) : m \in S /\ \E k \in 1 .. Len(s) : k > n /\ s[k] = m
  <2> SUFFICES ASSUME NEW m \in ToSet(r) PROVE m \in S /\ \E k \in 1 .. Len(s) : k > n /\ s[k] = m
    OBVIOUS
  <2>1. PICK i \in 1 .. Len(r) : r[i] = m
    BY <1>4 DEF ToSet
  <2>2. n + i \in 1 .. Len(s) /\ s[n + i] = m /\ n + i > n /\ m \in S
    BY <1>2, <1>4, <2>1
  <2> QED BY <2>2
<1>7. BlocksAfter(a, c) = r
  BY <1>1, <1>3 DEF BlocksAfter
<1> QED BY <1>1, <1>5, <1>6, <1>7

(* On a path an M6 ends in one block.                                     *)
LEMMA EndsOnce ==
    ASSUME CommitInv, MainTree, NEW c \in 1 .. Len(main),
           NEW k \in 1 .. Len(Path(c)), NEW l \in 1 .. Len(Path(c)),
           main[Path(c)[k]].outcome # NoOutcome, main[Path(c)[l]].outcome # NoOutcome,
           main[Path(c)[k]].outcome.m6id = main[Path(c)[l]].outcome.m6id
    PROVE  k = l
BY DEF MainTree, DecidedOnceOn

LEMMA EndedIs ==
    ASSUME NEW w, NEW status \in EndedStatus
    PROVE  Ended(w, status) # NoOutcome /\ Ended(w, status).m6id = w /\ Ended(w, status).status = status
<1>1. Ended(w, status).m6id = w /\ Ended(w, status).status = status /\ status # "none"
  BY DEF Ended, EndedStatus
<1>2. NoOutcome.status = "none"
  BY DEF NoOutcome
<1> QED BY <1>1, <1>2

LEMMA OutcomesAre ==
    ASSUME ChainInv, NEW a \in 0 .. Len(main), NEW c \in 1 .. Len(main),
           NEW outcomes, outcomes = WithdrawalBundleEvents(a, c)
    PROVE  /\ OneEach(outcomes)
           /\ \A k \in DOMAIN outcomes : \E w \in wallet, status \in EndedStatus : outcomes[k] = Ended(w, status)
           /\ \A w : \A status \in EndedStatus :
                 (\E k \in DOMAIN outcomes : outcomes[k] = Ended(w, status)) <=> EndedIn(w, status, a, c)
<1>1. CommitInv /\ MainTree /\ MainContents
  BY DEF ChainInv
<1>2. PICK S, r, blocks : /\ S = 1 .. Len(main) /\ r = BlocksAfter(a, c) /\ blocks = Keep(r, WithOutcome)
  OBVIOUS
<1>3. r \in Seq(S) /\ Distinct(r)
      /\ \A m \in ToSet(r) : m \in S /\ \E k \in 1 .. Len(Path(c)) : Path(c)[k] = m
  <2>1. c \in 0 .. Len(main)
    BY <1>1, MainIs
  <2> QED BY <1>1, <1>2, <2>1, RangeType, RangeOnPath
<1>4. /\ blocks \in Seq(S) /\ ToSet(blocks) = ToSet(r) \cap WithOutcome /\ Distinct(blocks)
  BY <1>2, <1>3, KeepType, KeepElements
<1>5. DOMAIN blocks = 1 .. Len(blocks)
  BY <1>4
<1>6. outcomes = [n \in DOMAIN blocks |-> main[blocks[n]].outcome]
  BY <1>2 DEF WithdrawalBundleEvents
<1>7. \A k \in DOMAIN outcomes :
         /\ k \in 1 .. Len(blocks) /\ outcomes[k] = main[blocks[k]].outcome
         /\ blocks[k] \in ToSet(r) /\ blocks[k] \in S /\ main[blocks[k]].outcome # NoOutcome
  BY <1>2, <1>4, <1>5, <1>6 DEF ToSet, WithOutcome
<1>8. OneEach(outcomes)
  <2> SUFFICES ASSUME NEW k \in DOMAIN outcomes, NEW l \in DOMAIN outcomes,
                      outcomes[k].m6id = outcomes[l].m6id
               PROVE  k = l
    BY DEF OneEach
  <2>1. PICK x \in 1 .. Len(Path(c)) : Path(c)[x] = blocks[k]
    BY <1>3, <1>7
  <2>2. PICK y \in 1 .. Len(Path(c)) : Path(c)[y] = blocks[l]
    BY <1>3, <1>7
  <2>3. x = y
    BY <1>1, <1>7, <2>1, <2>2, EndsOnce
  <2>4. blocks[k] = blocks[l]
    BY <2>1, <2>2, <2>3
  <2> QED BY <1>4, <1>7, <2>4 DEF Distinct
<1>9. \A k \in DOMAIN outcomes : \E w \in wallet, status \in EndedStatus : outcomes[k] = Ended(w, status)
  <2> SUFFICES ASSUME NEW k \in DOMAIN outcomes
               PROVE  \E w \in wallet, status \in EndedStatus : outcomes[k] = Ended(w, status)
    OBVIOUS
  <2>1. PICK m : m = blocks[k]
    OBVIOUS
  <2>2. m \in 1 .. Len(main) /\ main[m].outcome = outcomes[k] /\ main[m].outcome # NoOutcome
    BY <1>2, <1>7, <2>1
  <2> QED BY <1>1, <2>2 DEF MainContents, EndedStatus
<1>10. ASSUME NEW w, NEW status \in EndedStatus
       PROVE  (\E k \in DOMAIN outcomes : outcomes[k] = Ended(w, status)) <=> EndedIn(w, status, a, c)
  <2>1. ASSUME NEW k \in DOMAIN outcomes, outcomes[k] = Ended(w, status) PROVE EndedIn(w, status, a, c)
    BY <1>2, <1>7, <2>1 DEF EndedIn
  <2>2. ASSUME NEW m \in ToSet(BlocksAfter(a, c)), main[m].outcome = Ended(w, status)
        PROVE  \E k \in DOMAIN outcomes : outcomes[k] = Ended(w, status)
    <3>1. m \in ToSet(r) /\ m \in S /\ main[m].outcome # NoOutcome
      BY <1>2, <1>3, <2>2, EndedIs
    <3>2. m \in ToSet(blocks)
      BY <1>2, <1>4, <3>1 DEF WithOutcome
    <3>3. PICK k \in DOMAIN blocks : blocks[k] = m
      BY <3>2 DEF ToSet
    <3> QED BY <1>6, <2>2, <3>3
  <2> QED BY <2>1, <2>2 DEF EndedIn
<1> QED BY <1>8, <1>9, <1>10

-----------------------------------------------------------------------------
(***************************************************************************)
(* What the system call does to a request, unless it runs out of gas.  It *)
(* never reverts: a request is newly bundled, or named by one outcome at  *)
(* most.                                                                  *)
(***************************************************************************)
Reports(q, outcomes, i, status) ==
    /\ i \in Queued(q) /\ q.requests[i].status = "Bundled"
    /\ \E k \in DOMAIN outcomes : outcomes[k] = Ended(q.requests[i].bundleM6id, status)

After(q, number, outcomes, i) ==
    IF i \in Select(q) THEN [status |-> "Bundled", bundleM6id |-> NewM6id(Select(q), number)]
    ELSE IF Reports(q, outcomes, i, "Succeeded") THEN [q.requests[i] EXCEPT !.status = "Confirmed"]
    ELSE IF Reports(q, outcomes, i, "Failed") THEN [q.requests[i] EXCEPT !.status = "Refunded"]
    ELSE q.requests[i]

WellFormed(outcomes) ==
    /\ OneEach(outcomes)
    /\ \A k \in DOMAIN outcomes : \E w : \E status \in EndedStatus : outcomes[k] = Ended(w, status)

LEMMA LifecycleIs ==
    ASSUME NEW q, q.requestCount \in 0 .. MaxRequests, q.requests \in Requests,
           NEW number \in Nat, NEW outcomes, WellFormed(outcomes), NEW i \in Index
    PROVE  ReportBundleLifecycle(q, number, outcomes, FALSE)[i] = After(q, number, outcomes, i)
<1> DEFINE bundled   == Select(q)
           m6id      == NewM6id(bundled, number)
           marked    == MarkBundled(q.requests, bundled, m6id)
           succeeded == Resolved(q, outcomes, "Succeeded")
           failed    == Resolved(q, outcomes, "Failed")
           confirmed == MarkConfirmed(marked, succeeded)
           returns   == /\ AllPending(q.requests, bundled)
                        /\ AllBundled(marked, succeeded)
                        /\ AllBundled(confirmed, failed)
<1>1. ReportBundleLifecycle(q, number, outcomes, FALSE)
        = IF returns THEN MarkRefunded(confirmed, failed) ELSE q.requests
  BY DEF ReportBundleLifecycle
<1>2. /\ bundled \subseteq Index /\ \A j \in bundled : q.requests[j].status = "Pending"
      /\ Queued(q) \subseteq Index
  BY SelectIs
<1>4. \A j \in Index : marked[j] = IF j \in bundled THEN [status |-> "Bundled", bundleM6id |-> m6id]
                                   ELSE q.requests[j]
  <2> HIDE DEF bundled, m6id
  <2> SUFFICES ASSUME NEW j \in Index
               PROVE  marked[j] = IF j \in bundled THEN [status |-> "Bundled", bundleM6id |-> m6id]
                                  ELSE q.requests[j]
    OBVIOUS
  <2>1. marked[j] = IF j \in bundled
                    THEN [q.requests[j] EXCEPT !.status = "Bundled", !.bundleM6id = m6id]
                    ELSE q.requests[j]
    BY DEF MarkBundled
  <2>2. PICK r : r = q.requests[j]
    OBVIOUS
  <2>3. r \in [status : Status, bundleM6id : M6id]
    BY <2>2 DEF Requests
  <2>4. [r EXCEPT !.status = "Bundled", !.bundleM6id = m6id] = [status |-> "Bundled", bundleM6id |-> m6id]
    <3>1. PICK e : e = [r EXCEPT !.status = "Bundled", !.bundleM6id = m6id]
      OBVIOUS
    <3>2. e = [k \in {"status", "bundleM6id"} |-> IF k = "status" THEN "Bundled" ELSE m6id]
      BY <2>3, <3>1
    <3>3. [status |-> "Bundled", bundleM6id |-> m6id]
            = [k \in {"status", "bundleM6id"} |-> IF k = "status" THEN "Bundled" ELSE m6id]
      OBVIOUS
    <3> QED BY <3>1, <3>2, <3>3
  <2> QED BY <2>1, <2>2, <2>4
<1> HIDE DEF marked, bundled, m6id
<1>5. \A k \in DOMAIN outcomes : \A w : \A status \in EndedStatus :
         outcomes[k].status = status /\ outcomes[k].m6id = w <=> outcomes[k] = Ended(w, status)
  BY EndedIs DEF WellFormed
<1>6. ASSUME NEW status \in EndedStatus, NEW j \in Index
      PROVE  (\E job \in Resolved(q, outcomes, status) : job[2] = j) <=> Reports(q, outcomes, j, status)
  <2>1. ASSUME NEW job \in Resolved(q, outcomes, status), job[2] = j PROVE Reports(q, outcomes, j, status)
    <3>1. /\ job[1] \in DOMAIN outcomes /\ j \in Queued(q) /\ outcomes[job[1]].status = status
          /\ q.requests[j].status = "Bundled" /\ q.requests[j].bundleM6id = outcomes[job[1]].m6id
      BY <2>1 DEF Resolved, Matching
    <3> QED BY <1>5, <3>1 DEF Reports
  <2>2. ASSUME Reports(q, outcomes, j, status) PROVE \E job \in Resolved(q, outcomes, status) : job[2] = j
    <3>1. PICK k \in DOMAIN outcomes : outcomes[k] = Ended(q.requests[j].bundleM6id, status)
      BY <2>2 DEF Reports
    <3>2. outcomes[k].status = status /\ outcomes[k].m6id = q.requests[j].bundleM6id
      BY <1>5, <3>1
    <3>3. <<k, j>> \in Resolved(q, outcomes, status)
      BY <2>2, <3>2 DEF Reports, Resolved, Matching
    <3> QED BY <3>3
  <2> QED BY <2>1, <2>2
<1>7. ASSUME NEW status \in EndedStatus, NEW job \in Resolved(q, outcomes, status)
      PROVE  /\ job[2] \in Index /\ job[2] \notin bundled /\ job[1] \in DOMAIN outcomes
             /\ q.requests[job[2]].status = "Bundled" /\ Reports(q, outcomes, job[2], status)
             /\ outcomes[job[1]].status = status /\ q.requests[job[2]].bundleM6id = outcomes[job[1]].m6id
             /\ job = <<job[1], job[2]>>
  <2>1. /\ job[2] \in Queued(q) /\ job[1] \in DOMAIN outcomes
        /\ q.requests[job[2]].status = "Bundled"
        /\ outcomes[job[1]].status = status /\ q.requests[job[2]].bundleM6id = outcomes[job[1]].m6id
        /\ job = <<job[1], job[2]>>
    BY DEF Resolved, Matching
  <2>2. job[2] \in Index /\ job[2] \notin bundled
    BY <1>2, <2>1
  <2>3. Reports(q, outcomes, job[2], status)
    BY <1>6, <2>2
  <2> QED BY <2>1, <2>2, <2>3
<1>8. ASSUME NEW status \in EndedStatus,
             NEW x \in Resolved(q, outcomes, status), NEW y \in Resolved(q, outcomes, status), x[2] = y[2]
      PROVE  x = y
  <2>1. /\ x[1] \in DOMAIN outcomes /\ q.requests[x[2]].bundleM6id = outcomes[x[1]].m6id /\ x = <<x[1], x[2]>>
        /\ y[1] \in DOMAIN outcomes /\ q.requests[y[2]].bundleM6id = outcomes[y[1]].m6id /\ y = <<y[1], y[2]>>
    BY <1>7
  <2>2. outcomes[x[1]].m6id = outcomes[y[1]].m6id
    BY <1>8, <2>1
  <2>3. x[1] = y[1]
    BY <2>1, <2>2 DEF WellFormed, OneEach
  <2> QED BY <1>8, <2>1, <2>3
<1>9. \A j \in Index : ~(Reports(q, outcomes, j, "Succeeded") /\ Reports(q, outcomes, j, "Failed"))
  <2> SUFFICES ASSUME NEW j \in Index, Reports(q, outcomes, j, "Succeeded"), Reports(q, outcomes, j, "Failed")
               PROVE  FALSE
    OBVIOUS
  <2>1. PICK w : w = q.requests[j].bundleM6id
    OBVIOUS
  <2>2. PICK k \in DOMAIN outcomes : outcomes[k] = Ended(w, "Succeeded")
    BY <2>1 DEF Reports
  <2>3. PICK l \in DOMAIN outcomes : outcomes[l] = Ended(w, "Failed")
    BY <2>1 DEF Reports
  <2>4. k = l
    BY <2>2, <2>3, EndedIs DEF WellFormed, OneEach, EndedStatus
  <2>5. Ended(w, "Succeeded").status # Ended(w, "Failed").status
    BY DEF Ended
  <2> QED BY <2>2, <2>3, <2>4, <2>5
<1>10. "Succeeded" \in EndedStatus /\ "Failed" \in EndedStatus
  BY DEF EndedStatus
<1>11. \A j \in Index : confirmed[j] = IF Reports(q, outcomes, j, "Succeeded")
                                       THEN [marked[j] EXCEPT !.status = "Confirmed"] ELSE marked[j]
  BY <1>6, <1>10 DEF MarkConfirmed
<1>12. \A j \in Index : MarkRefunded(confirmed, failed)[j] =
                            IF Reports(q, outcomes, j, "Failed")
                            THEN [confirmed[j] EXCEPT !.status = "Refunded"] ELSE confirmed[j]
  BY <1>6, <1>10 DEF MarkRefunded
<1> HIDE DEF confirmed
<1>13. returns
  <2>1. AllPending(q.requests, bundled)
    BY <1>2 DEF AllPending
  <2>2. AllBundled(marked, succeeded)
    BY <1>4, <1>7, <1>8, <1>10 DEF AllBundled
  <2>3. \A job \in failed : confirmed[job[2]].status = "Bundled"
    <3> SUFFICES ASSUME NEW job \in failed PROVE confirmed[job[2]].status = "Bundled"
      OBVIOUS
    <3>1. /\ job[2] \in Index /\ job[2] \notin bundled /\ q.requests[job[2]].status = "Bundled"
          /\ Reports(q, outcomes, job[2], "Failed")
      BY <1>7, <1>10
    <3> QED BY <1>4, <1>9, <1>11, <3>1
  <2>4. \A x, y \in failed : x[2] = y[2] => x = y
    BY <1>8, <1>10
  <2>5. AllBundled(confirmed, failed)
    BY <2>3, <2>4 DEF AllBundled
  <2> QED BY <2>1, <2>2, <2>5
<1> HIDE DEF returns, succeeded, failed
<1>14. ReportBundleLifecycle(q, number, outcomes, FALSE)[i] =
           IF Reports(q, outcomes, i, "Failed")
           THEN [confirmed[i] EXCEPT !.status = "Refunded"] ELSE confirmed[i]
  BY <1>1, <1>12, <1>13
<1>15. i \in bundled => ~Reports(q, outcomes, i, "Failed") /\ ~Reports(q, outcomes, i, "Succeeded")
  BY <1>2 DEF Reports
<1>16. After(q, number, outcomes, i) =
          IF i \in bundled THEN [status |-> "Bundled", bundleM6id |-> m6id]
          ELSE IF Reports(q, outcomes, i, "Succeeded") THEN [q.requests[i] EXCEPT !.status = "Confirmed"]
          ELSE IF Reports(q, outcomes, i, "Failed") THEN [q.requests[i] EXCEPT !.status = "Refunded"]
          ELSE q.requests[i]
  BY DEF After, bundled, m6id
<1>17. CASE i \in bundled
  BY <1>4, <1>11, <1>14, <1>15, <1>16, <1>17
<1>18. CASE i \notin bundled
  BY <1>4, <1>9, <1>11, <1>14, <1>16, <1>18
<1> QED BY <1>17, <1>18

LEMMA HaltKeeps ==
    ASSUME NEW q, NEW number, NEW outcomes
    PROVE  ReportBundleLifecycle(q, number, outcomes, TRUE) = q.requests
BY DEF ReportBundleLifecycle

(* The same for a block x and its parent p.                               *)
Settling(x, p, i, request, status) ==
    /\ i \in Queued(Block(p).state) /\ request.status = "Bundled"
    /\ Hears(x, Ended(request.bundleM6id, status))

Moves(x, p, i, before, after) ==
    /\ i \in Select(Block(p).state) =>
           /\ before.status = "Pending"
           /\ IF Block(x).halted THEN after = before
              ELSE after.status = "Bundled" /\ after.bundleM6id = NextBundle(p)
    /\ i \notin Select(Block(p).state) =>
           /\ after.bundleM6id = before.bundleM6id
           /\ after.status = IF Settling(x, p, i, before, "Succeeded") THEN "Confirmed"
                             ELSE IF Settling(x, p, i, before, "Failed") THEN "Refunded"
                             ELSE before.status

LEMMA QueueGrows ==
    ASSUME ChainInv, NEW x \in 1 .. Len(side), NEW p, p = Parent(x)
    PROVE  /\ Queued(Block(p).state) \subseteq Queued(Block(x).state)
           /\ Queued(Block(p).state) \subseteq Index
<1> PICK a, c : a = Block(p).anchor /\ c = Block(x).anchor
  OBVIOUS
<1>1. Follows(x, p, a, c)
  BY BlockExecuted
<1>2. PICK q, m, n : q = Block(p).state /\ m = q.requestCount /\ n = Block(x).newRequests
  OBVIOUS
<1>3. m \in 0 .. MaxRequests /\ n \in 0 .. MaxRequests /\ q.requestCount = m
  <2>1. p \in 0 .. Len(side)
    BY <1>1 DEF Follows
  <2>2. q.requestCount \in 0 .. MaxRequests
    BY <1>2, <2>1, StateTyped DEF ChainState
  <2> QED BY <1>1, <1>2, <2>2 DEF Follows
<1>4. Block(x).state.requestCount = m + n
  BY <1>1, <1>2 DEF Follows, Execute
<1>5. Queued(q) \subseteq Queued(Block(x).state)
  BY <1>3, <1>4, UpdateAssumption DEF Queued
<1>6. Queued(q) \subseteq Index
  BY <1>3, SelectIs
<1> QED BY <1>2, <1>5, <1>6

LEMMA RequestMoves ==
    ASSUME ChainInv, NEW x \in 1 .. Len(side), NEW p, p = Parent(x), NEW i \in Index
    PROVE  /\ Moves(x, p, i, Block(p).state.requests[i], Block(x).state.requests[i])
           /\ Queued(Block(p).state) \subseteq Queued(Block(x).state)
           /\ Queued(Block(p).state) \subseteq Index
<1> PICK a, c : a = Block(p).anchor /\ c = Block(x).anchor
  OBVIOUS
<1>1. Follows(x, p, a, c)
  BY BlockExecuted
<1>2. /\ CommitInv /\ SideTree
  BY DEF ChainInv, Control
<1>3. p \in 0 .. Len(side) /\ a \in 0 .. Len(main) /\ c \in 1 .. Len(main)
      /\ Block(x).state = Execute(Block(p).state, Number(p) + 1, a, c,
                                  Block(x).newRequests, Block(x).halted)
      /\ Block(x).newRequests \in 0 .. MaxRequests /\ Block(x).halted \in BOOLEAN
  BY <1>1 DEF Follows
<1>4. PICK q, number, outcomes, r, s : /\ q = Block(p).state /\ number = Number(p) + 1
                                      /\ outcomes = WithdrawalBundleEvents(a, c)
                                      /\ r = q.requests[i] /\ s = Block(x).state.requests[i]
  OBVIOUS
<1>5. /\ q.requestCount \in 0 .. MaxRequests /\ q.requests \in Requests /\ number \in Nat
  <2>1. q \in ChainState
    BY <1>3, <1>4, StateTyped
  <2>2. Number(p) \in Nat
    BY <1>2, <1>3, SideIs
  <2> QED BY <1>4, <2>1, <2>2 DEF ChainState, Requests
<1>6. /\ WellFormed(outcomes)
      /\ \A w : \A status \in EndedStatus :
            (\E k \in DOMAIN outcomes : outcomes[k] = Ended(w, status)) <=> EndedIn(w, status, a, c)
  <2>1. /\ OneEach(outcomes)
        /\ \A k \in DOMAIN outcomes : \E w \in wallet, status \in EndedStatus : outcomes[k] = Ended(w, status)
        /\ \A w : \A status \in EndedStatus :
              (\E k \in DOMAIN outcomes : outcomes[k] = Ended(w, status)) <=> EndedIn(w, status, a, c)
    BY <1>3, <1>4, OutcomesAre
  <2> QED BY <2>1 DEF WellFormed
<1>7. Block(x).state.requests = ReportBundleLifecycle(q, number, outcomes, Block(x).halted)
  BY <1>3, <1>4 DEF Execute
<1>8. r \in [status : Status, bundleM6id : M6id]
  BY <1>4, <1>5 DEF Requests
<1>9. i \in Select(q) => r.status = "Pending"
  BY <1>4, <1>5, SelectIs
<1>10. CASE Block(x).halted
  <2>1. s = r
    <3>1. Block(x).halted = TRUE
      BY <1>3, <1>10
    <3> QED BY <1>4, <1>7, <3>1, HaltKeeps
  <2>2. ~Settling(x, p, i, r, "Succeeded") /\ ~Settling(x, p, i, r, "Failed")
    BY <1>10 DEF Settling, Hears
  <2>3. Moves(x, p, i, r, s)
    BY <1>4, <1>9, <1>10, <2>1, <2>2 DEF Moves
  <2> QED BY <1>4, <2>3, QueueGrows
<1>11. CASE ~Block(x).halted
  <2>1. s = After(q, number, outcomes, i)
    <3>1. Block(x).halted = FALSE
      BY <1>3, <1>11
    <3>2. ReportBundleLifecycle(q, number, outcomes, FALSE)[i] = After(q, number, outcomes, i)
      BY <1>5, <1>6, LifecycleIs
    <3> QED BY <1>4, <1>7, <3>1, <3>2
  <2>2. ASSUME NEW status \in EndedStatus
        PROVE  Reports(q, outcomes, i, status) <=> Settling(x, p, i, r, status)
    <3>1. EndedIn(r.bundleM6id, status, a, c) <=> Hears(x, Ended(r.bundleM6id, status))
      BY <1>11 DEF Hears, RangeOf, EndedIn
    <3> QED BY <1>4, <1>6, <3>1 DEF Reports, Settling
  <2>3. "Succeeded" \in EndedStatus /\ "Failed" \in EndedStatus
    BY DEF EndedStatus
  <2>4. ASSUME i \in Select(q) PROVE Moves(x, p, i, r, s)
    <3>1. NextBundle(p) = NewM6id(Select(q), number)
      BY <1>4 DEF NextBundle
    <3>2. s.status = "Bundled" /\ s.bundleM6id = NextBundle(p)
      BY <2>1, <2>4, <3>1 DEF After
    <3> QED BY <1>4, <1>9, <1>11, <2>4, <3>2 DEF Moves
  <2>5. ASSUME i \notin Select(q) PROVE Moves(x, p, i, r, s)
    <3>1. s = IF Reports(q, outcomes, i, "Succeeded") THEN [r EXCEPT !.status = "Confirmed"]
              ELSE IF Reports(q, outcomes, i, "Failed") THEN [r EXCEPT !.status = "Refunded"]
              ELSE r
      BY <1>4, <2>1, <2>5 DEF After
    <3>2. /\ s.bundleM6id = r.bundleM6id
          /\ s.status = IF Reports(q, outcomes, i, "Succeeded") THEN "Confirmed"
                        ELSE IF Reports(q, outcomes, i, "Failed") THEN "Refunded" ELSE r.status
      BY <1>8, <3>1
    <3> QED BY <1>4, <2>2, <2>3, <2>5, <3>2 DEF Moves
  <2> QED BY <1>4, <2>4, <2>5, QueueGrows
<1> QED BY <1>10, <1>11

(* The anchors of a block's ancestors are ancestors of its anchor.        *)
LEMMA AnchorsOrdered ==
    ASSUME ChainInv, NEW b \in 0 .. Len(side), NEW n \in 1 .. Number(b)
    PROVE  /\ Block(b).path[n] \in 1 .. Len(side)
           /\ Block(Block(b).path[n]).anchor \in 1 .. Len(main)
           /\ IsPrefix(Path(Block(Block(b).path[n]).anchor), Path(Block(b).anchor))
<1> DEFINE Ordered(x) == \A k \in 1 .. Number(x) :
                            IsPrefix(Path(Block(Block(x).path[k]).anchor), Path(Block(x).anchor))
           Good == {x \in 0 .. Len(side) : Ordered(x)}
<1>1. CommitInv /\ SideTree /\ Len(side) \in Nat /\ Len(main) \in Nat
  BY SideIs, MainIs DEF ChainInv, Control
<1>2. ASSUME NEW x \in 0 .. Len(side), NEW k \in 1 .. Number(x)
      PROVE  Block(x).path[k] \in 1 .. Len(side) /\ Block(Block(x).path[k]).anchor \in 1 .. Len(main)
  <2>1. PICK S, s : S = 1 .. Len(side) /\ s = Block(x).path
    OBVIOUS
  <2>2. s \in Seq(S) /\ Len(s) = Number(x)
    BY <1>1, <2>1, SideIs
  <2>3. s[k] \in S
    BY <2>2
  <2> QED BY <1>1, <2>1, <2>3, SideIs
<1>3. 0 \in Good
  BY <1>1, SideIs
<1>4. ASSUME NEW x \in 1 .. Len(side), Ordered(Parent(x))
      PROVE  Ordered(x)
  <2>1. PICK p, a, c : p = Parent(x) /\ a = Block(p).anchor /\ c = Block(x).anchor
    OBVIOUS
  <2>2. Follows(x, p, a, c)
    BY <2>1, BlockExecuted
  <2>3. /\ p \in 0 .. Len(side) /\ a \in 0 .. Len(main) /\ c \in 1 .. Len(main) /\ c \in 0 .. Len(main)
        /\ IsPrefix(Path(a), Path(c)) /\ Number(x) = Number(p) + 1
        /\ Block(x).path = Append(Block(p).path, x)
    BY <1>1, <2>2 DEF Follows
  <2>4. /\ Path(a) \in Seq(1 .. Len(main)) /\ Path(c) \in Seq(1 .. Len(main))
    BY <1>1, <2>3, MainIs
  <2>5. PICK S, s : S = 1 .. Len(side) /\ s = Block(p).path
    OBVIOUS
  <2>6. s \in Seq(S) /\ Len(s) = Number(p) /\ x \in S
    BY <1>1, <2>3, <2>5, SideIs
  <2>7. /\ Append(s, x)[Len(s) + 1] = x
        /\ \A k \in 1 .. Len(s) : Append(s, x)[k] = s[k]
    BY <2>6, AppendedPaths
  <2> SUFFICES ASSUME NEW k \in 1 .. Number(x)
               PROVE  IsPrefix(Path(Block(Block(x).path[k]).anchor), Path(Block(x).anchor))
    OBVIOUS
  <2>8. CASE k = Number(x)
    <3>1. Block(x).path[k] = x
      BY <2>3, <2>5, <2>6, <2>7, <2>8
    <3> QED BY <2>1, <2>4, <3>1, PrefixReflexive
  <2>9. CASE k \in 1 .. Number(p)
    <3>1. PICK y, e : y = s[k] /\ e = Block(y).anchor
      OBVIOUS
    <3>2. Block(x).path[k] = y
      BY <2>3, <2>5, <2>6, <2>7, <2>9, <3>1
    <3>3. e \in 1 .. Len(main)
      BY <1>2, <2>3, <2>5, <2>9, <3>1
    <3>4. Path(e) \in Seq(1 .. Len(main))
      BY <1>1, <3>3, MainIs
    <3>5. IsPrefix(Path(e), Path(a))
      BY <1>4, <2>1, <2>5, <2>9, <3>1
    <3>6. IsPrefix(Path(e), Path(c))
      BY <2>3, <2>4, <3>4, <3>5, PrefixTransitive
    <3> QED BY <2>1, <3>1, <3>2, <3>6
  <2>10. k = Number(x) \/ k \in 1 .. Number(p)
    BY <2>3, <2>6
  <2> QED BY <2>8, <2>9, <2>10
<1> HIDE DEF Ordered
<1>5. \A x \in 1 .. Len(side) : Parent(x) \in Good => x \in Good
  BY <1>1, <1>4
<1> HIDE DEF Good
<1>6. b \in Good
  BY <1>3, <1>5, BlockInduction
<1> QED BY <1>2, <1>6 DEF Good, Ordered

-----------------------------------------------------------------------------
(***************************************************************************)
(* Where a request stands: a block of the chain bundled it, and its       *)
(* status is what the mainchain said of that M6 to the later blocks,      *)
(* those that listened.                                                   *)
(***************************************************************************)

(* What the blocks of b's chain after the n-th heard.                     *)
Heard(b, n, w, status) ==
    \E k \in n + 1 .. Number(b) : Hears(Block(b).path[k], Ended(w, status))

Verdict(b, n, w) ==
    IF Heard(b, n, w, "Succeeded") THEN "Confirmed"
    ELSE IF Heard(b, n, w, "Failed") THEN "Refunded" ELSE "Bundled"

(* The n-th block of b's chain bundled request i in the M6 w.             *)
BundledAt(b, n, i, w) ==
    /\ Proposes(Parent(Block(b).path[n]), w)
    /\ i \in Select(Block(Parent(Block(b).path[n])).state)

Settled(b, i, request) ==
    /\ i \notin Queued(Block(b).state) => request.status = "Pending"
    /\ request.status # "Pending" =>
           \E n \in 1 .. Number(b) :
               /\ BundledAt(b, n, i, request.bundleM6id)
               /\ request.status = Verdict(b, n, request.bundleM6id)

(* What a block's chain heard is on the path of the block's anchor.       *)
LEMMA HeardOnPath ==
    ASSUME ChainInv, NEW b \in 1 .. Len(side), NEW n \in Nat, NEW w, NEW status,
           Heard(b, n, w, status), NEW c, c = Block(b).anchor
    PROVE  \E k \in 1 .. Len(Path(c)) : main[Path(c)[k]].outcome = Ended(w, status)
<1>1. CommitInv /\ MainTree /\ SideTree /\ Len(side) \in Nat /\ Len(main) \in Nat
  BY SideIs, MainIs DEF ChainInv, Control
<1>2. PICK k \in n + 1 .. Number(b) : Hears(Block(b).path[k], Ended(w, status))
  BY DEF Heard
<1>3. PICK y, p, a, e : /\ y = Block(b).path[k] /\ p = Parent(y)
                        /\ a = Block(p).anchor /\ e = Block(y).anchor
  OBVIOUS
<1>4. b \in 0 .. Len(side) /\ k \in 1 .. Number(b)
  <2>1. b \in 0 .. Len(side)
    BY <1>1
  <2>2. Number(b) \in Nat
    BY <1>1, <2>1, SideIs
  <2> QED BY <2>1, <2>2
<1>5. y \in 1 .. Len(side) /\ e \in 1 .. Len(main) /\ IsPrefix(Path(e), Path(c))
  BY <1>3, <1>4, AnchorsOrdered
<1>6. a \in 0 .. Len(main)
  BY <1>1, <1>3, <1>5, PathEnds, SideIs
<1>7. PICK m \in ToSet(BlocksAfter(a, e)) : main[m].outcome = Ended(w, status)
  BY <1>2, <1>3 DEF Hears, RangeOf
<1>8. PICK l \in 1 .. Len(Path(e)) : Path(e)[l] = m
  BY <1>1, <1>5, <1>6, <1>7, RangeOnPath
<1>9. l \in 1 .. Len(Path(c)) /\ Path(c)[l] = m
  <2>1. PICK S, s, t : S = 1 .. Len(main) /\ s = Path(e) /\ t = Path(c)
    OBVIOUS
  <2>2. s \in Seq(S) /\ t \in Seq(S) /\ IsPrefix(s, t)
    <3>1. e \in 0 .. Len(main) /\ c \in 0 .. Len(main)
      BY <1>1, <1>4, <1>5, SideIs
    <3> QED BY <1>1, <1>5, <2>1, <3>1, MainIs
  <2>3. Len(s) <= Len(t) /\ \A j \in 1 .. Len(s) : s[j] = t[j]
    BY <2>2, PrefixIs
  <2> QED BY <1>8, <2>1, <2>2, <2>3
<1> QED BY <1>7, <1>9

(* An M6 does not end both ways.                                          *)
LEMMA OneVerdict ==
    ASSUME ChainInv, NEW b \in 1 .. Len(side), NEW n \in Nat, NEW w
    PROVE  ~(Heard(b, n, w, "Succeeded") /\ Heard(b, n, w, "Failed"))
<1> SUFFICES ASSUME Heard(b, n, w, "Succeeded"), Heard(b, n, w, "Failed") PROVE FALSE
  OBVIOUS
<1>1. CommitInv /\ MainTree /\ SideTree
  BY DEF ChainInv, Control
<1>2. PICK c : c = Block(b).anchor
  OBVIOUS
<1>3. c \in 1 .. Len(main)
  BY <1>1, <1>2, SideIs
<1>4. PICK k \in 1 .. Len(Path(c)) : main[Path(c)[k]].outcome = Ended(w, "Succeeded")
  BY <1>2, HeardOnPath
<1>5. PICK l \in 1 .. Len(Path(c)) : main[Path(c)[l]].outcome = Ended(w, "Failed")
  BY <1>2, HeardOnPath
<1>6. "Succeeded" \in EndedStatus /\ "Failed" \in EndedStatus
  BY DEF EndedStatus
<1>7. /\ main[Path(c)[k]].outcome # NoOutcome /\ main[Path(c)[k]].outcome.m6id = w
      /\ main[Path(c)[l]].outcome # NoOutcome /\ main[Path(c)[l]].outcome.m6id = w
  BY <1>4, <1>5, <1>6, EndedIs
<1>8. k = l
  BY <1>1, <1>3, <1>7, EndsOnce
<1>9. Ended(w, "Succeeded") = Ended(w, "Failed")
  BY <1>4, <1>5, <1>8
<1>10. Ended(w, "Succeeded").status # Ended(w, "Failed").status
  BY DEF Ended
<1> QED BY <1>9, <1>10

(* A block adds what it hears itself to what its chain has heard.         *)
LEMMA HeardMoves ==
    ASSUME ChainInv, NEW x \in 1 .. Len(side), NEW p, p = Parent(x), NEW n \in Nat,
           NEW w, NEW status
    PROVE  /\ n <= Number(p) =>
                  (Heard(x, n, w, status) <=> Heard(p, n, w, status) \/ Hears(x, Ended(w, status)))
           /\ ~Heard(x, Number(x), w, status)
<1>1. CommitInv /\ SideTree
  BY DEF ChainInv, Control
<1>2. /\ p \in 0 .. Len(side) /\ Block(x).path = Append(Block(p).path, x)
      /\ Number(x) = Number(p) + 1
  BY <1>1, PathEnds
<1>3. PICK S, t, l : S = 1 .. Len(side) /\ t = Block(p).path /\ l = Number(p)
  OBVIOUS
<1>4. t \in Seq(S) /\ Len(t) = l /\ x \in S /\ l \in Nat
  BY <1>1, <1>2, <1>3, SideIs
<1>5. /\ Block(x).path[l + 1] = x
      /\ \A k \in 1 .. l : Block(x).path[k] = t[k]
  BY <1>2, <1>3, <1>4, AppendedPaths
<1>6. Heard(x, n, w, status) <=> \E k \in n + 1 .. l + 1 : Hears(Block(x).path[k], Ended(w, status))
  BY <1>2, <1>3 DEF Heard
<1>7. Heard(p, n, w, status) <=> \E k \in n + 1 .. l : Hears(t[k], Ended(w, status))
  BY <1>3 DEF Heard
<1>8. ASSUME n <= l
      PROVE  Heard(x, n, w, status) <=> Heard(p, n, w, status) \/ Hears(x, Ended(w, status))
  <2>1. n + 1 .. l + 1 = (n + 1 .. l) \cup {l + 1} /\ n + 1 .. l \subseteq 1 .. l
    BY <1>4, <1>8
  <2>2. ASSUME NEW k \in n + 1 .. l
        PROVE  Hears(Block(x).path[k], Ended(w, status)) <=> Hears(t[k], Ended(w, status))
    <3>1. Block(x).path[k] = t[k]
      BY <1>5, <2>1
    <3> QED BY <3>1
  <2>3. Hears(Block(x).path[l + 1], Ended(w, status)) <=> Hears(x, Ended(w, status))
    BY <1>5
  <2> QED BY <1>6, <1>7, <2>1, <2>2, <2>3
<1>9. ~Heard(x, Number(x), w, status)
  <2>1. Number(x) + 1 .. Number(x) = {}
    BY <1>2, <1>3, <1>4
  <2> QED BY <2>1 DEF Heard
<1> QED BY <1>3, <1>8, <1>9

LEMMA VerdictMoves ==
    ASSUME ChainInv, NEW x \in 1 .. Len(side), NEW p, p = Parent(x), NEW n \in 1 .. Number(p),
           NEW w
    PROVE  Verdict(x, n, w) =
              IF Verdict(p, n, w) # "Bundled" THEN Verdict(p, n, w)
              ELSE IF Hears(x, Ended(w, "Succeeded")) THEN "Confirmed"
              ELSE IF Hears(x, Ended(w, "Failed")) THEN "Refunded" ELSE "Bundled"
<1>1. n \in Nat /\ n <= Number(p)
  <2>1. p \in 0 .. Len(side) /\ CommitInv /\ SideTree
    BY PathEnds DEF ChainInv, Control
  <2>2. Number(p) \in Nat
    BY <2>1, SideIs
  <2> QED BY <2>2
<1>2. /\ Heard(x, n, w, "Succeeded") <=> Heard(p, n, w, "Succeeded") \/ Hears(x, Ended(w, "Succeeded"))
      /\ Heard(x, n, w, "Failed") <=> Heard(p, n, w, "Failed") \/ Hears(x, Ended(w, "Failed"))
  BY <1>1, HeardMoves
<1>3. ~(Heard(x, n, w, "Succeeded") /\ Heard(x, n, w, "Failed"))
  BY <1>1, OneVerdict
<1> QED BY <1>2, <1>3 DEF Verdict

LEMMA GenesisSettled ==
    ASSUME ChainInv, NEW i \in Index
    PROVE  Settled(0, i, Block(0).state.requests[i])
<1>1. Block(0).state = GenesisState
  BY DEF Block, Genesis
<1>2. Block(0).state.requests[i].status = "Pending"
  BY <1>1 DEF GenesisState
<1> QED BY <1>2 DEF Settled

LEMMA ChildSettled ==
    ASSUME ChainInv, NEW x \in 1 .. Len(side), NEW p, p = Parent(x), NEW i \in Index,
           NEW r, r = Block(p).state.requests[i], NEW s, s = Block(x).state.requests[i],
           Settled(p, i, r)
    PROVE  Settled(x, i, s)
<1>1. /\ CommitInv /\ SideTree
  BY DEF ChainInv, Control
<1>2. /\ p \in 0 .. Len(side) /\ Number(x) = Number(p) + 1
      /\ Block(x).path = Append(Block(p).path, x)
  BY <1>1, PathEnds
<1>3. /\ Moves(x, p, i, r, s)
      /\ Queued(Block(p).state) \subseteq Queued(Block(x).state)
  BY RequestMoves
<1>4. Number(p) \in Nat /\ Number(x) \in Nat /\ Number(x) \in 1 .. Number(x)
      /\ 1 .. Number(p) \subseteq 1 .. Number(x)
  <2>1. Number(p) \in Nat
    BY <1>1, <1>2, SideIs
  <2> QED BY <1>2, <2>1
<1>5. /\ Block(x).path[Number(x)] = x
      /\ \A n \in 1 .. Number(p) : Block(x).path[n] = Block(p).path[n]
  <2>1. PICK S, t : S = 1 .. Len(side) /\ t = Block(p).path
    OBVIOUS
  <2>2. t \in Seq(S) /\ Len(t) = Number(p) /\ x \in S
    BY <1>1, <1>2, <2>1, SideIs
  <2>3. /\ Append(t, x)[Len(t) + 1] = x
        /\ \A k \in 1 .. Len(t) : Append(t, x)[k] = t[k]
    BY <2>2, AppendedPaths
  <2> QED BY <1>2, <2>1, <2>2, <2>3
<1>6. \A j \in Select(Block(p).state) : j \in Queued(Block(p).state)
  BY DEF Select, Oldest, PendingIn
<1>7. CASE s.status = "Pending"
  BY <1>7 DEF Settled
<1>8. CASE i \in Select(Block(p).state) /\ s.status # "Pending"
  <2>1. s.status = "Bundled" /\ s.bundleM6id = NextBundle(p) /\ i \in Queued(Block(x).state)
    BY <1>3, <1>6, <1>8 DEF Moves
  <2>2. BundledAt(x, Number(x), i, s.bundleM6id)
    BY <1>5, <1>8, <2>1 DEF BundledAt, Proposes
  <2>3. s.status = Verdict(x, Number(x), s.bundleM6id)
    BY <1>4, <2>1, HeardMoves DEF Verdict
  <2> QED BY <1>4, <2>1, <2>2, <2>3 DEF Settled
<1>9. CASE i \notin Select(Block(p).state) /\ s.status # "Pending"
  <2>1. /\ s.bundleM6id = r.bundleM6id
        /\ s.status = IF Settling(x, p, i, r, "Succeeded") THEN "Confirmed"
                      ELSE IF Settling(x, p, i, r, "Failed") THEN "Refunded" ELSE r.status
    BY <1>3, <1>9 DEF Moves
  <2>2. r.status # "Pending"
    BY <1>9, <2>1 DEF Settling
  <2>3. PICK n \in 1 .. Number(p) :
           /\ BundledAt(p, n, i, r.bundleM6id)
           /\ r.status = Verdict(p, n, r.bundleM6id)
    BY <2>2 DEF Settled
  <2>4. PICK w : w = r.bundleM6id
    OBVIOUS
  <2>5. Verdict(x, n, w) =
            IF r.status # "Bundled" THEN r.status
            ELSE IF Hears(x, Ended(w, "Succeeded")) THEN "Confirmed"
            ELSE IF Hears(x, Ended(w, "Failed")) THEN "Refunded" ELSE "Bundled"
    BY <2>3, <2>4, VerdictMoves
  <2>6. i \in Queued(Block(p).state) /\ i \in Queued(Block(x).state)
    BY <1>3, <2>2 DEF Settled
  <2>7. s.status = Verdict(x, n, s.bundleM6id)
    BY <2>1, <2>4, <2>5, <2>6 DEF Settling
  <2>8. n \in 1 .. Number(x) /\ Block(x).path[n] = Block(p).path[n]
    BY <1>4, <1>5
  <2>9. BundledAt(x, n, i, s.bundleM6id)
    BY <2>1, <2>3, <2>8 DEF BundledAt
  <2> QED BY <2>6, <2>7, <2>8, <2>9 DEF Settled
<1> QED BY <1>7, <1>8, <1>9

LEMMA RequestsSettled ==
    ASSUME ChainInv, NEW b \in 0 .. Len(side), NEW i \in Index
    PROVE  Settled(b, i, Block(b).state.requests[i])
<1> DEFINE Good == {x \in 0 .. Len(side) : Settled(x, i, Block(x).state.requests[i])}
<1>1. Len(side) \in Nat
  BY SideIs DEF ChainInv, Control
<1>2. 0 \in Good
  BY <1>1, GenesisSettled
<1>3. ASSUME NEW x \in 1 .. Len(side), Parent(x) \in Good
      PROVE  x \in Good
  <2>1. PICK p, r, s : /\ p = Parent(x) /\ r = Block(p).state.requests[i]
                       /\ s = Block(x).state.requests[i]
    OBVIOUS
  <2>2. Settled(p, i, r)
    BY <1>3, <2>1
  <2>3. Settled(x, i, s)
    BY <2>1, <2>2, ChildSettled
  <2> QED BY <1>1, <2>1, <2>3
<1> HIDE DEF Good
<1>4. b \in Good
  BY <1>2, <1>3, BlockInduction
<1> QED BY <1>4 DEF Good

-----------------------------------------------------------------------------
(***************************************************************************)
(* Heights: a block that was accepted is anchored below the tip, so a     *)
(* chain is no longer than the mainchain.                                 *)
(***************************************************************************)
HeightInv ==
    /\ \A b \in accepted \ {0} : Len(Path(Block(b).anchor)) < Len(Path(tip))
    /\ \A b \in 1 .. Len(side) : Number(b) <= Len(Path(Block(b).anchor))

(* Nothing is accepted but the payload.                                   *)
AcceptsPayload ==
    /\ Valid(payload) /\ pc = "import" /\ accepted' = accepted \cup {payload}
    /\ UNCHANGED <<main, tip, side>>

LEMMA AcceptedSteps ==
    ASSUME [Next]_vars
    PROVE  accepted' \subseteq accepted \/ AcceptsPayload
<1>1. ASSUME NEW lost \in BOOLEAN, Build(lost) PROVE accepted' = accepted
  BY <1>1 DEF Build
<1>2. ASSUME NEW lagging \in BOOLEAN, Mine(lagging) \/ OtherMiner(lagging) PROVE accepted' = accepted
  BY <1>2 DEF Mine, OtherMiner, nodeVars
<1>3. CASE \/ Start \/ Bid \/ Advance \/ SaveHead \/ Restart \/ EnforcerSyncs \/ EnforcerStalls
          \/ Skip \/ Stalled \/ UNCHANGED vars
  BY <1>3 DEF Start, Bid, Advance, SaveHead, Restart, EnforcerSyncs, EnforcerStalls, Skip, Stalled,
     vars, nodeVars
<1>4. CASE NodeRestarts
  BY <1>4 DEF NodeRestarts
<1>5. CASE NewPayload
  BY <1>5 DEF NewPayload, AcceptsPayload, enforcerVars
<1>6. CASE RpcFails
  BY <1>6 DEF RpcFails, AcceptsPayload, enforcerVars, nodeVars
<1> QED BY <1>1, <1>2, <1>3, <1>4, <1>5, <1>6 DEF Next, Loop

LEMMA TipRises ==
    ASSUME ChainInv, ChainInv', [Next]_vars
    PROVE  Len(Path(tip)) \in Nat /\ Len(Path(tip))' \in Nat /\ Len(Path(tip)) <= Len(Path(tip))'
<1>1. /\ CommitInv /\ CommitInv' /\ Len(Path(tip)) <= Len(Path(best))
  BY DEF ChainInv, MainTree
<1>2. /\ tip \in 0 .. Len(main) /\ best \in 0 .. Len(main) /\ Len(main) \in Nat
      /\ \A m \in 0 .. Len(main) : Len(Path(m)) \in Nat
  <2>1. /\ tip \in 1 .. Len(main) /\ best \in 1 .. Len(main) /\ Len(main) \in Nat
    BY <1>1, MainIs
  <2>2. \A m \in 0 .. Len(main) : Len(Path(m)) \in Nat
    BY <1>1, MainIs
  <2> QED BY <2>1, <2>2
<1>3. MainGrows
  BY NextChain
<1>4. \A m \in 0 .. Len(main) : Path(m)' = Path(m)
  BY <1>1, <1>3, AnswersKept
<1>5. Len(Path(tip)) <= Len(Path(tip))' /\ Len(Path(tip))' \in Nat
  <2>1. CASE Mines
    <3>1. PICK parent \in 1 .. Len(main), bmm \in Nat, lagging \in BOOLEAN : MineBlock(parent, bmm, lagging)
      BY <2>1 DEF Mines
    <3>2. PICK new, path : new = Len(main) + 1 /\ path = Append(Path(parent), new)
      OBVIOUS
    <3>3. /\ Path(new)' = path
          /\ Len(path) > Len(Path(best)) => best' = new
          /\ Len(path) <= Len(Path(best)) => best' = best
          /\ tip' \in {tip, best'}
      BY <1>1, <3>1, <3>2, Mined
    <3>4. Len(path) \in Nat
      <4>1. parent \in 0 .. Len(main)
        BY <1>2
      <4>2. Path(parent) \in Seq(1 .. Len(main))
        BY <1>1, <4>1, MainIs
      <4>3. Len(path) = Len(Path(parent)) + 1
        BY <3>2, <4>2
      <4> QED BY <1>2, <4>1, <4>3
    <3>5. \A m : Path(tip)' = IF tip' = m THEN Path(m)' ELSE Path(tip)'
      BY DEF Path
    <3>6. CASE tip' = tip
      BY <1>2, <1>4, <3>5, <3>6
    <3>7. CASE tip' = new /\ Len(path) > Len(Path(best))
      BY <1>1, <1>2, <3>3, <3>4, <3>5, <3>7
    <3>8. CASE tip' = best
      BY <1>1, <1>2, <1>4, <3>5, <3>8
    <3> QED BY <1>2, <3>3, <3>4, <3>6, <3>7, <3>8
  <2>2. CASE tip' \in {tip, best}
    <3>1. \A m : Path(tip)' = IF tip' = m THEN Path(m)' ELSE Path(tip)'
      BY DEF Path
    <3> QED BY <1>1, <1>2, <1>4, <2>2, <3>1
  <2> QED BY <1>1, <2>1, <2>2, Steps DEF Builds, Rests
<1> QED BY <1>2, <1>5

(* The commitment to a valid block is on the path of the tip, after the   *)
(* block's anchor.                                                        *)
LEMMA ValidIsBelow ==
    ASSUME ChainInv, NEW b \in 1 .. Len(side), IsCommitted(b)
    PROVE  Len(Path(Block(b).anchor)) < Len(Path(tip))
<1>1. CommitInv /\ MainTree /\ SideTree
  BY DEF ChainInv, Control
<1>2. PICK S, path : S = 1 .. Len(main) /\ path = Path(tip)
  OBVIOUS
<1>3. path \in Seq(S) /\ tip \in 1 .. Len(main) /\ Len(main) \in Nat
  <2>1. tip \in 0 .. Len(main) /\ tip \in 1 .. Len(main) /\ Len(main) \in Nat
    BY <1>1, MainIs
  <2> QED BY <1>1, <1>2, <2>1, MainIs
<1>4. PICK n \in 1 .. Len(path) : main[path[n]].bmm = b
  BY <1>2, <1>3 DEF IsCommitted
<1>5. PICK m, last : m = path[n] /\ last = SubSeq(path, 1, n)
  OBVIOUS
<1>6. m \in 1 .. Len(main) /\ Path(m) = last /\ main[m].path = last
  <2>1. m \in 1 .. Len(main)
    BY <1>2, <1>3, <1>5
  <2>2. Path(m) = last
    BY <1>1, <1>2, <1>3, <1>5 DEF MainTree
  <2> QED BY <1>1, <2>1, <2>2, MainIs
<1>7. Len(last) = n /\ \A k \in 1 .. n : last[k] = path[k]
  BY <1>3, <1>5
<1>8. n >= 2 /\ Block(b).anchor = path[n - 1]
  <2>1. b # 0 /\ main[m].bmm = b
    BY <1>1, <1>4, <1>5, SideIs
  <2>2. Len(last) >= 2 /\ BidFor(b, last[Len(last) - 1])
    BY <1>1, <1>6, <2>1 DEF CommitInv, CommitsAfterAnchor
  <2>3. side[b].anchor = path[n - 1] /\ n >= 2
    BY <1>7, <2>1, <2>2 DEF BidFor
  <2> QED BY <1>1, <2>3, SideIs
<1>9. Path(path[n - 1]) = SubSeq(path, 1, n - 1) /\ n - 1 \in 1 .. Len(path)
  <2>1. n - 1 \in 1 .. Len(path)
    BY <1>3, <1>8
  <2>2. \A k \in 1 .. Len(path) : Path(path[k]) = SubSeq(path, 1, k)
    BY <1>1, <1>2, <1>3 DEF MainTree
  <2> QED BY <2>1, <2>2
<1>10. Len(SubSeq(path, 1, n - 1)) = n - 1
  BY <1>3, <1>9
<1> QED BY <1>2, <1>3, <1>8, <1>9, <1>10

LEMMA NextHeight ==
    ASSUME ChainInv, HeightInv, [Next]_vars
    PROVE  HeightInv'
<1>1. /\ ChainInv' /\ MainGrows /\ SideGrows
  BY NextChain
<1>2. /\ CommitInv /\ CommitInv' /\ SideTree /\ Control
      /\ accepted \subseteq 0 .. Len(side)
  BY <1>1, SMTT(30) DEF ChainInv, Control
<1>3. Len(side) \in Nat /\ Len(main) \in Nat
  BY <1>2, SideIs, MainIs
<1>4. \A b \in 0 .. Len(side) : /\ Block(b)' = Block(b) /\ Number(b)' = Number(b)
                                /\ Block(b).anchor \in 0 .. Len(main)
  BY <1>1, <1>2, BlocksKept, SideIs
<1>5. ASSUME NEW b \in 0 .. Len(side)
      PROVE  /\ Path(Block(b).anchor)' = Path(Block(b).anchor)
             /\ Len(Path(Block(b).anchor)) \in Nat
  <2>1. PICK a : a = Block(b).anchor
    OBVIOUS
  <2>2. a \in 0 .. Len(main)
    BY <1>4, <2>1
  <2>3. Path(a)' = Path(a) /\ Len(Path(a)) \in Nat
    BY <1>1, <1>2, <2>2, AnswersKept, MainIs
  <2>4. Path(Block(b).anchor)' = Path(a)'
    BY <1>4, <2>1 DEF Path
  <2> QED BY <2>1, <2>3, <2>4
<1>6. Len(Path(tip)) \in Nat /\ Len(Path(tip))' \in Nat /\ Len(Path(tip)) <= Len(Path(tip))'
  BY <1>1, TipRises
<1>7. ASSUME NEW b \in accepted' \ {0}
      PROVE  Len(Path(Block(b).anchor))' < Len(Path(tip))'
  <2>1. /\ b \in 0 .. Len(side) /\ Len(Path(Block(b).anchor)) < Len(Path(tip))
    <3>1. CASE b \in accepted
      BY <1>2, <1>7, <3>1 DEF HeightInv
    <3>2. CASE AcceptsPayload /\ b = payload
      <4>1. b \in 1 .. Len(side) /\ IsCommitted(b)
        BY <1>2, <3>2 DEF AcceptsPayload, CommitInv, Valid
      <4> QED BY <1>3, <4>1, ValidIsBelow
    <3> QED BY <1>7, <3>1, <3>2, AcceptedSteps DEF AcceptsPayload
  <2>2. Len(Path(Block(b).anchor))' = Len(Path(Block(b).anchor)) /\ Len(Path(Block(b).anchor)) \in Nat
    BY <1>5, <2>1
  <2> QED BY <1>6, <2>1, <2>2
<1>8. ASSUME NEW b \in 1 .. Len(side')
      PROVE  Number(b)' <= Len(Path(Block(b).anchor))'
  <2>1. CASE b \in 1 .. Len(side)
    <3>1. b \in 0 .. Len(side)
      BY <1>3, <2>1
    <3>2. Number(b)' = Number(b) /\ Path(Block(b).anchor)' = Path(Block(b).anchor)
      BY <1>4, <1>5, <3>1
    <3>3. Number(b) <= Len(Path(Block(b).anchor))
      BY <2>1 DEF HeightInv
    <3> QED BY <3>2, <3>3
  <2>2. CASE b \notin 1 .. Len(side)
    <3>1. Builds
      <4>1. side' # side
        BY <1>8, <2>2
      <4> QED BY <1>2, <4>1, Steps DEF Mines, Rests
    <3>2. PICK newRequests \in Included(HEAD), halted \in BOOLEAN :
              side' = Append(side, BuildPayload(HEAD, ChainTip, newRequests, halted))
      BY <3>1 DEF Builds, Halts
    <3>3. UNCHANGED <<main, tip>> /\ HEAD \in accepted /\ HEAD \in 0 .. Len(side)
      BY <1>2, <3>1 DEF Builds
    <3>4. PICK p, new : p = HEAD /\ new = Len(side) + 1
      OBVIOUS
    <3>5. /\ Len(side') = new /\ 1 .. new = (1 .. Len(side)) \cup {new}
          /\ side'[new] = [path |-> Append(Block(p).path, new), anchor |-> tip,
                           newRequests |-> newRequests, halted |-> halted,
                           state |-> Execute(Block(p).state, Number(p) + 1, Block(p).anchor,
                                             tip, newRequests, halted)]
          /\ Block(new)' = side'[new]
      BY <1>2, <3>2, <3>3, <3>4, NewBlock
    <3>6. b = new
      BY <2>2, <3>5
    <3>7. Number(new)' = Number(p) + 1 /\ Block(new).anchor' = tip
      <4>1. PICK S, s : S = 1 .. new /\ s = Block(p).path
        OBVIOUS
      <4>2. s \in Seq(S) /\ Len(s) = Number(p) /\ new \in S
        <5>1. s \in Seq(1 .. Len(side)) /\ Len(s) = Number(p)
          BY <1>2, <3>3, <3>4, <4>1, SideIs
        <5>2. 1 .. Len(side) \subseteq S /\ new \in S
          BY <1>3, <3>4, <3>5, <4>1
        <5> QED BY <5>1, <5>2, SeqWidens
      <4>3. Block(new).path' = Append(s, new) /\ Len(Append(s, new)) = Len(s) + 1
        BY <3>5, <4>1, <4>2, AppendedPaths
      <4> QED BY <3>5, <4>2, <4>3 DEF Number
    <3>8. Path(Block(new).anchor)' = Path(tip)
      BY <3>3, <3>7 DEF Path
    <3>9. Number(p) + 1 <= Len(Path(tip))
      <4>1. CASE p = 0
        <5>1. Number(p) = 0 /\ Len(Path(tip)) >= 1
          BY <1>2, <4>1, SideIs, MainIs
        <5> QED BY <1>6, <5>1
      <4>2. CASE p # 0
        <5>1. p \in 1 .. Len(side) /\ p \in 0 .. Len(side) /\ p \in accepted
          BY <1>3, <3>3, <3>4, <4>2
        <5>2. Number(p) <= Len(Path(Block(p).anchor)) /\ Len(Path(Block(p).anchor)) < Len(Path(tip))
          BY <4>2, <5>1 DEF HeightInv
        <5>3. Number(p) \in Nat /\ Len(Path(Block(p).anchor)) \in Nat
          BY <1>2, <1>5, <5>1, SideIs
        <5> QED BY <1>6, <5>2, <5>3
      <4> QED BY <4>1, <4>2
    <3> QED BY <3>6, <3>7, <3>8, <3>9
  <2> QED BY <2>1, <2>2
<1> QED BY <1>7, <1>8 DEF HeightInv

LEMMA HeightInvariant == Spec => [](ChainInv /\ HeightInv)
<1>1. Init => HeightInv
  <2> SUFFICES ASSUME Init PROVE HeightInv
    OBVIOUS
  <2>1. accepted = {0} /\ Len(side) = 0
    BY DEF Init, Genesis
  <2> QED BY <2>1 DEF HeightInv
<1>2. ChainInv /\ HeightInv /\ [Next]_vars => (ChainInv /\ HeightInv)'
  BY NextChain, NextHeight
<1> QED BY <1>1, <1>2, InitChain, PTL DEF Spec

(* What the sidechain says of a bundled request is what the mainchain     *)
(* said of its M6 to the blocks after the one that bundled it, save those *)
(* whose lifecycle call ran out of gas, as long as heights fit in 32 bits *)
(* (select_withdrawal_bundle's height saturates there).                   *)
THEOREM StatusIsMainchains ==
    ASSUME MaxMain <= MaxU32
    PROVE  Spec => []StatusFollowsMainchain
<1>1. ASSUME ChainInv, HeightInv PROVE StatusFollowsMainchain
  <2>1. /\ CommitInv /\ MainTree /\ SideTree /\ Control
        /\ accepted \subseteq 0 .. Len(side)
    BY <1>1 DEF ChainInv, Control
  <2>2. Len(side) \in Nat /\ Len(main) \in Nat /\ Len(main) <= MaxMain /\ MaxMain \in Nat /\ MaxU32 \in Nat
    BY <2>1, SideIs, MainIs, UpdateAssumption
  <2> SUFFICES ASSUME NEW b \in accepted \ {0}, NEW i \in Index, NEW r, r = Block(b).state.requests[i],
                      NEW w, w = r.bundleM6id, r.status # "Pending"
               PROVE  r.status = CASE Reported(b, w, "Succeeded") -> "Confirmed"
                                   [] Reported(b, w, "Failed")    -> "Refunded"
                                   [] OTHER                       -> "Bundled"
    BY DEF StatusFollowsMainchain, Genesis
  <2>3. b \in 1 .. Len(side) /\ b \in 0 .. Len(side)
    BY <2>1, <2>2
  <2>4. Settled(b, i, r)
    BY <1>1, <2>3, RequestsSettled
  <2>5. PICK n \in 1 .. Number(b) : BundledAt(b, n, i, w) /\ r.status = Verdict(b, n, w)
    BY <2>4 DEF Settled
  <2>6. PICK y, p, c : y = Block(b).path[n] /\ p = Parent(y) /\ c = Block(b).anchor
    OBVIOUS
  <2>7. y \in 1 .. Len(side) /\ w = NextBundle(p)
    BY <1>1, <2>3, <2>5, <2>6, AnchorsOrdered DEF BundledAt, Proposes
  <2>8. Number(y) = n
    <3>1. Block(y).path = SubSeq(Block(b).path, 1, n)
      BY <2>1, <2>3, <2>6 DEF SideTree, Placed
    <3>2. PICK S, s : S = 1 .. Len(side) /\ s = Block(b).path
      OBVIOUS
    <3>3. s \in Seq(S) /\ Len(s) = Number(b)
      BY <2>1, <2>3, <3>2, SideIs
    <3>4. Len(SubSeq(s, 1, n)) = n
      BY <3>3
    <3> QED BY <3>1, <3>2, <3>4 DEF Number
  <2>9. w.height = n
    <3>1. Number(y) = Number(p) + 1
      BY <2>1, <2>6, <2>7, PathEnds
    <3>2. n <= MaxU32
      <4>1. c \in 1 .. Len(main) /\ c \in 0 .. Len(main)
        BY <2>1, <2>2, <2>3, <2>6, SideIs
      <4>2. Len(Path(c)) <= c /\ Len(Path(c)) \in Nat
        BY <2>1, <4>1, MainIs DEF MainTree
      <4>3. Number(b) <= Len(Path(c)) /\ Number(b) \in Nat
        BY <1>1, <2>1, <2>3, <2>6, SideIs DEF HeightInv
      <4> QED BY <2>2, <4>1, <4>2, <4>3
    <3> QED BY <2>7, <2>8, <3>1, <3>2 DEF NextBundle, NewM6id
  <2>10. \A status : Reported(b, w, status) <=> Heard(b, n, w, status)
    BY <2>9 DEF Reported, Heard, Ended
  <2>11. ~(Heard(b, n, w, "Succeeded") /\ Heard(b, n, w, "Failed"))
    <3>1. n \in Nat
      BY <2>1, <2>3, SideIs
    <3> QED BY <1>1, <2>3, <3>1, OneVerdict
  <2> QED BY <2>5, <2>10, <2>11 DEF Verdict
<1> QED BY <1>1, HeightInvariant, PTL

-----------------------------------------------------------------------------
(***************************************************************************)
(* The enforcer knows what a block bundled, unless a broadcast was lost.  *)
(***************************************************************************)
KnownInv == \A b \in 1 .. Len(side) : \A w : Proposes(Parent(b), w) => w \in wallet

LEMMA NextKnown ==
    ASSUME "lostBroadcast" \notin Faults, ChainInv, KnownInv, [Next]_vars
    PROVE  KnownInv'
<1>1. /\ ChainInv' /\ MainGrows /\ SideGrows
  BY NextChain
<1>2. /\ CommitInv /\ SideTree /\ Control
      /\ accepted \subseteq 0 .. Len(side)
  BY <1>1, SMTT(30) DEF ChainInv, Control
<1>3. Len(side) \in Nat /\ wallet \subseteq wallet'
  BY <1>2, SideIs, Steps DEF Mines, Builds, Rests, Proposed
<1>4. ASSUME NEW b, NEW p \in 0 .. Len(side), Parent(b)' = p, NEW w
      PROVE  Proposes(Parent(b), w)' <=> Proposes(p, w)
  <2>1. Proposes(Parent(b), w)' <=> Proposes(p, w)'
    BY <1>4 DEF Proposes, NextBundle, NewM6id, Select, Oldest, PendingIn, Queued, Number, Block
  <2> QED BY <1>1, <1>2, <2>1, ProposesKept
<1> SUFFICES ASSUME NEW b \in 1 .. Len(side'), NEW w, Proposes(Parent(b), w)' PROVE w \in wallet'
  BY DEF KnownInv
<1>5. CASE b \in 1 .. Len(side)
  <2>1. PICK p : p = Parent(b)
    OBVIOUS
  <2>2. p \in 0 .. Len(side) /\ Parent(b)' = p
    <3>1. b \in 0 .. Len(side)
      BY <1>3, <1>5
    <3> QED BY <1>1, <1>2, <1>5, <2>1, <3>1, BlocksKept, PathEnds
  <2>3. Proposes(p, w)
    BY <1>4, <2>2
  <2> QED BY <1>3, <1>5, <2>1, <2>3 DEF KnownInv
<1>6. CASE b \notin 1 .. Len(side)
  <2>1. Builds
    <3>1. side' # side
      BY <1>6
    <3> QED BY <1>2, <3>1, Steps DEF Mines, Rests
  <2>2. PICK newRequests \in Included(HEAD), halted \in BOOLEAN :
            side' = Append(side, BuildPayload(HEAD, ChainTip, newRequests, halted))
    BY <2>1 DEF Builds, Halts
  <2>3. PICK p, new : p = HEAD /\ new = Len(side) + 1
    OBVIOUS
  <2>4. UNCHANGED main /\ Delivered /\ HEAD \in 0 .. Len(side)
    BY <1>2, <2>1 DEF Builds
  <2>5. /\ Len(side') = new /\ p \in 0 .. Len(side) /\ 1 .. new = (1 .. Len(side)) \cup {new}
        /\ Parent(new)' = p
    BY <1>2, <2>2, <2>3, <2>4, NewBlock
  <2>6. b = new /\ Parent(b)' = p
    BY <1>6, <2>5
  <2>7. Proposes(p, w)
    BY <1>4, <2>5, <2>6
  <2> QED BY <2>3, <2>4, <2>7 DEF Delivered, Proposes
<1> QED BY <1>5, <1>6

(* When no broadcast is lost, the on-chain lifecycle never runs ahead of  *)
(* what the enforcer knows: every request an accepted block bundled is in *)
(* an M6 whose vote can end.                                              *)
THEOREM BundledAreBroadcast ==
    ASSUME "lostBroadcast" \notin Faults
    PROVE  Spec => []BundledIsKnown
<1>1. Init => KnownInv
  <2> SUFFICES ASSUME Init PROVE KnownInv
    OBVIOUS
  <2>1. Len(side) = 0
    BY DEF Init
  <2> QED BY <2>1 DEF KnownInv
<1>2. ChainInv /\ KnownInv /\ [Next]_vars => (ChainInv /\ KnownInv)'
  BY NextChain, NextKnown
<1>3. ASSUME ChainInv, KnownInv PROVE BundledIsKnown
  <2>1. /\ accepted \subseteq 0 .. Len(side)
    BY <1>3 DEF ChainInv, Control
  <2> SUFFICES ASSUME NEW b \in accepted, NEW i \in Index, NEW r, r = Block(b).state.requests[i],
                      r.status = "Bundled"
               PROVE  r.bundleM6id \in wallet
    BY DEF BundledIsKnown
  <2>2. b \in 0 .. Len(side)
    BY <2>1
  <2>3. Settled(b, i, r)
    BY <1>3, <2>2, RequestsSettled
  <2>4. PICK n \in 1 .. Number(b) : BundledAt(b, n, i, r.bundleM6id)
    BY <2>3 DEF Settled
  <2>5. PICK y : y = Block(b).path[n]
    OBVIOUS
  <2>6. y \in 1 .. Len(side)
    BY <1>3, <2>2, <2>5, AnchorsOrdered
  <2> QED BY <1>3, <2>4, <2>5, <2>6 DEF BundledAt, KnownInv
<1> QED BY <1>1, <1>2, <1>3, InitChain, PTL DEF Spec

-----------------------------------------------------------------------------
(***************************************************************************)
(* What a block's chain bundled, it does not bundle again.                *)
(***************************************************************************)
LEMMA SamePath ==
    ASSUME ChainInv, NEW p \in 0 .. Len(side), NEW q \in 0 .. Len(side), Block(p).path = Block(q).path
    PROVE  p = q
<1>1. CommitInv /\ SideTree
  BY DEF ChainInv, Control
<1>2. /\ Number(p) = Number(q) /\ Number(0) = 0
      /\ \A b \in 0 .. Len(side) : b = 0 \/ b \in 1 .. Len(side)
  <2>1. Len(side) \in Nat /\ Number(0) = 0
    BY <1>1, SideIs
  <2> QED BY <2>1 DEF Number
<1>3. \A b \in 1 .. Len(side) : Number(b) >= 1 /\ Block(b).path[Number(b)] = b
  BY <1>1, PathEnds
<1> QED BY <1>2, <1>3

(* p is a proper ancestor of x.                                           *)
Before(p, x) == Descends(x, p) /\ Number(p) < Number(x)

LEMMA BeforeChild ==
    ASSUME ChainInv, NEW x \in 1 .. Len(side), NEW q, q = Parent(x),
           NEW p \in 0 .. Len(side), Before(p, x)
    PROVE  p = q \/ Before(p, q)
<1>1. CommitInv /\ SideTree
  BY DEF ChainInv, Control
<1>2. /\ q \in 0 .. Len(side) /\ Block(x).path = Append(Block(q).path, x)
      /\ Number(x) = Number(q) + 1
  BY <1>1, PathEnds
<1>3. PICK S, r, s, t : /\ S = 1 .. Len(side) /\ r = Block(p).path /\ s = Block(q).path
                        /\ t = Block(x).path
  OBVIOUS
<1>4. /\ r \in Seq(S) /\ s \in Seq(S) /\ t \in Seq(S) /\ x \in S
      /\ Len(r) = Number(p) /\ Len(s) = Number(q)
  <2>1. x \in 0 .. Len(side)
    BY <1>1, SideIs
  <2> QED BY <1>1, <1>2, <1>3, <2>1, SideIs
<1>5. Len(r) <= Len(s) /\ \A k \in 1 .. Len(r) : r[k] = t[k]
  <2>1. IsPrefix(r, t) /\ Number(p) < Number(x)
    BY <1>3 DEF Before, Descends
  <2>2. \A k \in 1 .. Len(r) : r[k] = t[k]
    BY <1>4, <2>1, PrefixIs
  <2> QED BY <1>2, <1>4, <2>1, <2>2
<1>6. \A k \in 1 .. Len(s) : s[k] = t[k]
  BY <1>2, <1>3, <1>4, AppendedPaths
<1>7. \A k \in 1 .. Len(r) : r[k] = s[k]
  BY <1>4, <1>5, <1>6
<1>8. CASE Len(r) = Len(s)
  <2>1. r = s
    BY <1>4, <1>7, <1>8
  <2> QED BY <1>2, <1>3, <2>1, SamePath
<1>9. CASE Len(r) < Len(s)
  <2>1. IsPrefix(r, s)
    BY <1>4, <1>5, <1>7, PrefixIs
  <2> QED BY <1>3, <1>4, <1>9, <2>1 DEF Before, Descends
<1> QED BY <1>4, <1>5, <1>8, <1>9

(* Unless calls that bundle may run out of gas, a block that has requests *)
(* to bundle bundles them.                                                *)
GasInv ==
    \A b \in 1 .. Len(side) :
        Block(b).halted => Select(Block(Parent(b)).state) = {} \/ "bundling" \in OutOfGas

LEMMA NextGas ==
    ASSUME ChainInv, GasInv, [Next]_vars
    PROVE  GasInv'
<1>1. /\ ChainInv' /\ MainGrows /\ SideGrows
  BY NextChain
<1>2. /\ CommitInv /\ SideTree /\ Control /\ accepted \subseteq 0 .. Len(side)
  BY SMTT(30) DEF ChainInv, Control
<1>3. Len(side) \in Nat
  BY <1>2, SideIs
<1>4. ASSUME NEW b, NEW p \in 0 .. Len(side), Parent(b)' = p
      PROVE  Select(Block(Parent(b)).state)' = Select(Block(p).state)
  <2>1. Block(p)' = Block(p)
    BY <1>1, <1>2, BlocksKept
  <2>2. Block(Parent(b))' = Block(p)'
    BY <1>4 DEF Block
  <2> QED BY <2>1, <2>2 DEF Select, Oldest, PendingIn, Queued
<1> SUFFICES ASSUME NEW b \in 1 .. Len(side'), Block(b)'.halted, "bundling" \notin OutOfGas
             PROVE  Select(Block(Parent(b)).state)' = {}
  BY DEF GasInv
<1>5. CASE b \in 1 .. Len(side)
  <2>1. PICK p : p = Parent(b)
    OBVIOUS
  <2>2. p \in 0 .. Len(side) /\ Parent(b)' = p /\ Block(b)' = Block(b)
    <3>1. b \in 0 .. Len(side)
      BY <1>3, <1>5
    <3> QED BY <1>1, <1>2, <1>5, <2>1, <3>1, BlocksKept, PathEnds
  <2>3. Select(Block(p).state) = {}
    BY <1>5, <2>1, <2>2 DEF GasInv
  <2> QED BY <1>4, <2>2, <2>3
<1>6. CASE b \notin 1 .. Len(side)
  <2>1. Builds
    <3>1. side' # side
      BY <1>6
    <3> QED BY <1>2, <3>1, Steps DEF Mines, Rests
  <2>2. PICK newRequests \in Included(HEAD), halted \in Halts(HEAD, ChainTip) :
            side' = Append(side, BuildPayload(HEAD, ChainTip, newRequests, halted))
    BY <2>1 DEF Builds
  <2>3. PICK p, new : p = HEAD /\ new = Len(side) + 1
    OBVIOUS
  <2>4. UNCHANGED main /\ HEAD \in 0 .. Len(side) /\ halted \in BOOLEAN
        /\ (halted => Select(Block(p).state) = {})
    BY <1>2, <2>1, <2>2, <2>3 DEF Builds, Halts, MayHalt
  <2>5. /\ Len(side') = new /\ p \in 0 .. Len(side) /\ 1 .. new = (1 .. Len(side)) \cup {new}
        /\ Parent(new)' = p /\ Block(new)' = side'[new]
        /\ side'[new] = [path |-> Append(Block(p).path, new), anchor |-> tip,
                         newRequests |-> newRequests, halted |-> halted,
                         state |-> Execute(Block(p).state, Number(p) + 1, Block(p).anchor,
                                           tip, newRequests, halted)]
    BY <1>2, <2>2, <2>3, <2>4, NewBlock
  <2>6. b = new
    BY <1>6, <2>5
  <2> QED BY <1>4, <2>4, <2>5, <2>6
<1> QED BY <1>5, <1>6

LEMMA NotPendingAgain ==
    ASSUME ChainInv, GasInv, "bundling" \notin OutOfGas, NEW x \in 0 .. Len(side), NEW p \in 0 .. Len(side), Before(p, x),
           NEW i \in Select(Block(p).state)
    PROVE  Block(x).state.requests[i].status # "Pending"
<1> DEFINE Good == {b \in 0 .. Len(side) : Before(p, b) => Block(b).state.requests[i].status # "Pending"}
<1>1. CommitInv /\ SideTree /\ Len(side) \in Nat
  BY SideIs DEF ChainInv, Control
<1>2. i \in Index
  BY ProposedType
<1>3. 0 \in Good
  <2>1. Number(0) = 0 /\ Number(p) \in Nat
    BY <1>1, SideIs
  <2> QED BY <1>1, <2>1 DEF Before
<1>4. ASSUME NEW b \in 1 .. Len(side), Parent(b) \in Good
      PROVE  b \in Good
  <2>1. PICK q, r, s : /\ q = Parent(b)
                       /\ r = Block(q).state.requests[i] /\ s = Block(b).state.requests[i]
    OBVIOUS
  <2>2. Moves(b, q, i, r, s)
    BY <1>2, <2>1, RequestMoves
  <2> SUFFICES ASSUME Before(p, b) PROVE s.status # "Pending"
    BY <1>1, <2>1
  <2>3. CASE p = q
    <3>1. ~Block(b).halted
      BY <2>1, <2>3 DEF GasInv
    <3> QED BY <2>2, <2>3, <3>1 DEF Moves
  <2>4. CASE Before(p, q)
    <3>1. r.status # "Pending"
      BY <1>4, <2>1, <2>4
    <3> QED BY <2>2, <3>1, Zenon DEF Moves
  <2> QED BY <2>1, <2>3, <2>4, BeforeChild
<1> HIDE DEF Good
<1>5. x \in Good
  BY <1>3, <1>4, BlockInduction
<1> QED BY <1>5 DEF Good

LEMMA SelectedOnce ==
    ASSUME ChainInv, GasInv, "bundling" \notin OutOfGas, NEW x \in 0 .. Len(side), NEW p \in 0 .. Len(side), Before(p, x)
    PROVE  Select(Block(p).state) \cap Select(Block(x).state) = {}
<1> SUFFICES ASSUME NEW i \in Select(Block(p).state), i \in Select(Block(x).state) PROVE FALSE
  OBVIOUS
<1>1. Block(x).state.requests[i].status # "Pending"
  BY NotPendingAgain
<1>2. Block(x).state.requestCount \in 0 .. MaxRequests
  BY StateTyped DEF ChainState
<1>3. Block(x).state.requests[i].status = "Pending"
  BY <1>2, SelectIs
<1> QED BY <1>1, <1>3

(* Of two ancestors of a block, one is an ancestor of the other.          *)
LEMMA OneLine ==
    ASSUME ChainInv, NEW h \in 0 .. Len(side), NEW p \in 0 .. Len(side), NEW q \in 0 .. Len(side),
           Descends(h, p), Descends(h, q), Number(p) <= Number(q)
    PROVE  p = q \/ Before(p, q)
<1>1. CommitInv /\ SideTree
  BY DEF ChainInv, Control
<1>2. PICK S, r, s, t : /\ S = 1 .. Len(side) /\ r = Block(p).path /\ s = Block(q).path
                        /\ t = Block(h).path
  OBVIOUS
<1>3. /\ r \in Seq(S) /\ s \in Seq(S) /\ t \in Seq(S)
      /\ Len(r) = Number(p) /\ Len(s) = Number(q) /\ Len(r) <= Len(s)
      /\ IsPrefix(r, t) /\ IsPrefix(s, t)
  BY <1>1, <1>2, SideIs DEF Descends
<1>4. /\ \A k \in 1 .. Len(r) : r[k] = t[k]
      /\ \A k \in 1 .. Len(s) : s[k] = t[k]
  BY <1>3, PrefixIs
<1>5. \A k \in 1 .. Len(r) : r[k] = s[k]
  BY <1>3, <1>4
<1>6. CASE Len(r) = Len(s)
  <2>1. r = s
    BY <1>3, <1>5, <1>6
  <2> QED BY <1>2, <2>1, SamePath
<1>7. CASE Len(r) < Len(s)
  <2>1. IsPrefix(r, s)
    BY <1>3, <1>5, PrefixIs
  <2> QED BY <1>2, <1>3, <1>7, <2>1 DEF Before, Descends
<1> QED BY <1>3, <1>6, <1>7

-----------------------------------------------------------------------------
(***************************************************************************)
(* One line: while the node keeps its blocks, all M6s the enforcer was    *)
(* given were proposed on the chain of the block the loop builds on.      *)
(***************************************************************************)
OnLine(h, w) == \E b \in 0 .. Len(side) : Descends(h, b) /\ Proposes(b, w)

LineInv ==
    /\ \A w \in wallet : OnLine(HEAD, w)
    /\ pc \notin {"start", "build"} => Parent(payload) = HEAD
    /\ headFile \in {0, HEAD}
    /\ headFile = 0 => Descends(head, HEAD)

LEMMA DescendsKept ==
    ASSUME CommitInv, SideGrows, NEW x \in 0 .. Len(side), NEW b \in 0 .. Len(side)
    PROVE  Descends(x, b)' <=> Descends(x, b)
<1>1. Block(x)' = Block(x) /\ Block(b)' = Block(b)
  BY BlocksKept
<1> QED BY <1>1 DEF Descends

LEMMA DescendsTransitive ==
    ASSUME ChainInv, NEW x \in 0 .. Len(side), NEW y \in 0 .. Len(side), NEW z \in 0 .. Len(side),
           Descends(x, y), Descends(y, z)
    PROVE  Descends(x, z)
<1>1. CommitInv /\ SideTree
  BY DEF ChainInv, Control
<1>2. PICK S, r, s, t : /\ S = 1 .. Len(side) /\ r = Block(z).path /\ s = Block(y).path
                        /\ t = Block(x).path
  OBVIOUS
<1>3. /\ r \in Seq(S) /\ s \in Seq(S) /\ t \in Seq(S) /\ IsPrefix(r, s) /\ IsPrefix(s, t)
  BY <1>1, <1>2, SideIs DEF Descends
<1>4. IsPrefix(r, t)
  BY <1>3, PrefixTransitive
<1> QED BY <1>2, <1>4 DEF Descends

LEMMA DescendsReflexive ==
    ASSUME ChainInv, NEW x \in 0 .. Len(side)
    PROVE  Descends(x, x)
<1>1. CommitInv /\ SideTree
  BY DEF ChainInv, Control
<1>2. Block(x).path \in Seq(1 .. Len(side))
  BY <1>1, SideIs
<1> QED BY <1>2, PrefixReflexive DEF Descends

LEMMA DescendsParent ==
    ASSUME ChainInv, NEW x \in 1 .. Len(side)
    PROVE  Descends(x, Parent(x)) /\ x \in 0 .. Len(side) /\ x # 0
BY PathEnds, SideIs DEF ChainInv, Control

(* The M6s stay on the line when the loop goes on to a block that         *)
(* descends from HEAD.                                                    *)
LEMMA WalletOnLine ==
    ASSUME ChainInv, LineInv, SideGrows, Len(side') \in Nat, [Next]_vars,
           NEW h \in 0 .. Len(side), HEAD' = h, Descends(h, HEAD)
    PROVE  \A w \in wallet' : OnLine(HEAD, w)'
<1>1. CommitInv /\ Len(side) \in Nat /\ HEAD \in 0 .. Len(side)
  BY SideIs DEF ChainInv, Control
<1>2. 0 .. Len(side) \subseteq 0 .. Len(side')
  BY <1>1 DEF SideGrows
<1> SUFFICES ASSUME NEW w \in wallet' PROVE OnLine(HEAD, w)'
  OBVIOUS
<1>3. OnLine(HEAD, w)
  <2>1. w \in wallet \/ (w = NextBundle(HEAD) /\ Select(Block(HEAD).state) # {})
    BY <1>1, Steps DEF Mines, Builds, Rests, Proposed
  <2>2. w = NextBundle(HEAD) /\ Select(Block(HEAD).state) # {} => OnLine(HEAD, w)
    BY <1>1, DescendsReflexive DEF OnLine, Proposes
  <2> QED BY <2>1, <2>2 DEF LineInv
<1>4. PICK b \in 0 .. Len(side) : Descends(HEAD, b) /\ Proposes(b, w)
  BY <1>3 DEF OnLine
<1>5. Descends(h, b)
  BY <1>1, <1>4, DescendsTransitive
<1>6. Descends(h, b)' /\ Proposes(b, w)'
  BY <1>1, <1>4, <1>5, DescendsKept, ProposesKept
<1>7. Descends(HEAD, b)' <=> Descends(h, b)'
  BY DEF Descends, Block
<1> QED BY <1>2, <1>6, <1>7 DEF OnLine

(* Steps that leave the block the loop builds on alone.                   *)
Stays ==
    /\ UNCHANGED <<HEAD, headFile>>
    /\ \/ pc' \in {"start", "build"}
       \/ pc \notin {"start", "build"} /\ UNCHANGED <<payload, side>>
       \/ /\ payload' = Len(side) + 1
          /\ UNCHANGED main
          /\ \E newRequests \in Included(HEAD), halted \in BOOLEAN :
                side' = Append(side, BuildPayload(HEAD, ChainTip, newRequests, halted))
    /\ head' \in {head, HEAD} \/ (pc \notin {"start", "build"} /\ head' = payload)

LEMMA LineSteps ==
    ASSUME NodeKeeps, [Next]_vars
    PROVE  Stays \/ SaveHead \/ Start
<1>1. ASSUME NEW lost \in BOOLEAN, Build(lost) PROVE Stays
  <2>1. \A halted \in Halts(HEAD, ChainTip) : halted \in BOOLEAN
    BY DEF Halts
  <2> QED BY <1>1, <2>1 DEF Build, Stays
<1>2. ASSUME NEW lagging \in BOOLEAN, Mine(lagging) \/ OtherMiner(lagging) PROVE Stays
  BY <1>2 DEF Mine, OtherMiner, nodeVars, loopVars, Stays
<1>3. CASE \/ Bid \/ EnforcerSyncs \/ EnforcerStalls \/ Restart \/ Skip \/ Stalled
          \/ UNCHANGED vars
  BY <1>3 DEF Bid, EnforcerSyncs, EnforcerStalls, Restart, Skip, Stalled, vars, nodeVars, loopVars,
     Stays
<1>4. CASE NewPayload \/ Advance
  BY <1>4 DEF NewPayload, Advance, Stays
<1>5. CASE RpcFails
  BY <1>5 DEF RpcFails, nodeVars, Stays
<1>6. ~NodeRestarts
  BY DEF NodeKeeps, NodeRestarts, FaultIf
<1> QED BY <1>1, <1>2, <1>3, <1>4, <1>5, <1>6 DEF Next, Loop

LEMMA NextLine ==
    ASSUME NodeKeeps, ChainInv, LineInv, [Next]_vars
    PROVE  LineInv'
<1>1. ChainInv' /\ SideGrows
  BY NextChain
<1>2. /\ CommitInv /\ SideTree /\ Control
      /\ Len(side) \in Nat /\ Len(side') \in Nat
      /\ HEAD \in 0 .. Len(side) /\ head \in 0 .. Len(side) /\ headFile \in 0 .. Len(side)
      /\ accepted \subseteq 0 .. Len(side) /\ HEAD \in accepted /\ head \in accepted
      /\ headFile \in accepted
  <2>1. CommitInv /\ SideTree /\ Control /\ CommitInv'
    BY <1>1 DEF ChainInv
  <2>2. Len(side) \in Nat /\ Len(side') \in Nat
    BY <2>1 DEF CommitInv, Anchored, IsSeq
  <2> QED BY <2>1, <2>2 DEF Control
<1>3. pc \notin {"start", "build"} =>
         /\ payload \in 1 .. Len(side) /\ payload \in 0 .. Len(side) /\ payload # 0
         /\ Descends(payload, HEAD)
  <2>1. pc \notin {"start", "build"} => payload \in 1 .. Len(side) /\ Parent(payload) = HEAD
    BY <1>2 DEF CommitInv, LineInv
  <2> QED BY <2>1, DescendsParent
<1>4. Descends(HEAD, HEAD) /\ Descends(head, head)
  BY <1>2, DescendsReflexive
<1>5. CASE Stays
  <2>1. PICK h : h = HEAD
    OBVIOUS
  <2>2. HEAD' = h /\ headFile' = headFile /\ headFile' \in {0, HEAD'}
    BY <1>5, <2>1 DEF Stays, LineInv
  <2>3. \A w \in wallet' : OnLine(HEAD, w)'
    BY <1>1, <1>2, <1>4, <2>1, <2>2, WalletOnLine
  <2>4. ASSUME pc' \notin {"start", "build"} PROVE Parent(payload)' = HEAD'
    <3>1. CASE pc \notin {"start", "build"} /\ UNCHANGED <<payload, side>>
      <4>1. Parent(payload)' = Parent(payload)
        BY <3>1 DEF Parent, Block
      <4> QED BY <2>1, <2>2, <3>1, <4>1 DEF LineInv
    <3>2. CASE /\ payload' = Len(side) + 1
               /\ UNCHANGED main
               /\ \E newRequests \in Included(HEAD), halted \in BOOLEAN :
                     side' = Append(side, BuildPayload(HEAD, ChainTip, newRequests, halted))
      <4>1. PICK newRequests \in Included(HEAD), halted \in BOOLEAN :
                side' = Append(side, BuildPayload(HEAD, ChainTip, newRequests, halted))
        BY <3>2
      <4>2. PICK new : new = Len(side) + 1
        OBVIOUS
      <4>3. Parent(new)' = h
        BY <1>2, <2>1, <3>2, <4>1, <4>2, NewBlock
      <4>4. Parent(payload)' = Parent(new)'
        BY <3>2, <4>2 DEF Parent, Block
      <4> QED BY <2>2, <4>3, <4>4
    <3> QED BY <1>5, <2>4, <3>1, <3>2 DEF Stays
  <2>5. ASSUME headFile' = 0 PROVE Descends(head, HEAD)'
    <3>1. PICK x : x = head'
      OBVIOUS
    <3>2. x \in 0 .. Len(side) /\ Descends(x, h)
      BY <1>2, <1>3, <1>4, <1>5, <2>1, <2>2, <2>5, <3>1 DEF Stays, LineInv
    <3>3. Descends(x, h)'
      BY <1>1, <1>2, <2>1, <3>2, DescendsKept
    <3>4. Descends(head, HEAD)' <=> Descends(x, h)'
      BY <2>2, <3>1 DEF Descends, Block
    <3> QED BY <3>3, <3>4
  <2> QED BY <2>2, <2>3, <2>4, <2>5 DEF LineInv
<1>6. CASE SaveHead
  <2>1. PICK h : h = payload
    OBVIOUS
  <2>2. HEAD' = h /\ headFile' = h /\ pc' = "build" /\ pc \notin {"start", "build"}
    BY <1>6, <2>1 DEF SaveHead
  <2>3. h \in 0 .. Len(side) /\ h # 0 /\ Descends(h, HEAD)
    BY <1>3, <2>1, <2>2
  <2>4. \A w \in wallet' : OnLine(HEAD, w)'
    BY <1>1, <1>2, <2>2, <2>3, WalletOnLine
  <2> QED BY <2>2, <2>3, <2>4 DEF LineInv
<1>7. CASE Start
  <2>1. PICK h, x : h = HEAD' /\ x = head'
    OBVIOUS
  <2>2. /\ pc' = "build" /\ headFile' = headFile
        /\ h = (IF headFile # 0 /\ headFile \in accepted THEN headFile ELSE head)
        /\ x = IF Descends(head, HEAD') THEN head ELSE HEAD'
    BY <1>7, <2>1 DEF Start
  <2>3. /\ headFile # 0 => h = HEAD
        /\ headFile = 0 => h = head /\ Descends(head, HEAD)
    BY <1>2, <2>2 DEF LineInv
  <2>4. h \in 0 .. Len(side) /\ Descends(h, HEAD)
    BY <1>2, <1>4, <2>3
  <2>5. \A w \in wallet' : OnLine(HEAD, w)'
    BY <1>1, <1>2, <2>1, <2>4, WalletOnLine
  <2>6. headFile' \in {0, HEAD'}
    BY <2>1, <2>2, <2>3 DEF LineInv
  <2>7. ASSUME headFile' = 0 PROVE Descends(head, HEAD)'
    <3>1. h = head
      BY <2>2, <2>3, <2>7
    <3>2. x = h
      BY <2>1, <2>2, <3>1
    <3>3. Descends(h, h)
      BY <2>4, DescendsReflexive
    <3>4. Descends(h, h)'
      BY <1>1, <1>2, <2>4, <3>3, DescendsKept
    <3>5. Descends(head, HEAD)' <=> Descends(h, h)'
      BY <2>1, <3>2 DEF Descends, Block
    <3> QED BY <3>4, <3>5
  <2> QED BY <2>2, <2>5, <2>6, <2>7 DEF LineInv
<1> QED BY <1>5, <1>6, <1>7, LineSteps

(* While the node keeps its blocks, and calls that bundle have the gas to *)
(* do it, no two M6s the enforcer was given consume the same request,     *)
(* whatever payloads were built in vain, and however often the loop is    *)
(* stopped and restarted: a withdrawal is not paid twice.                 *)
THEOREM PaidOnce ==
    ASSUME NodeKeeps, "bundling" \notin OutOfGas
    PROVE  Spec => []NoDoublePayout
<1>1. Init => LineInv /\ GasInv
  <2> SUFFICES ASSUME Init PROVE LineInv /\ GasInv
    OBVIOUS
  <2>1. Descends(0, 0)
    BY InitChain, DescendsReflexive DEF Init
  <2>2. LineInv
    BY <2>1 DEF Init, EnforcerInit, Genesis, LineInv
  <2>3. Len(side) = 0
    BY DEF Init
  <2> QED BY <2>2, <2>3 DEF GasInv
<1>2. ChainInv /\ LineInv /\ GasInv /\ [Next]_vars => (ChainInv /\ LineInv /\ GasInv)'
  BY NextChain, NextLine, NextGas
<1>3. ASSUME ChainInv, LineInv, GasInv PROVE NoDoublePayout
  <2> SUFFICES ASSUME NEW v \in wallet, NEW w \in wallet, v # w
               PROVE  v.indices \cap w.indices = {}
    BY DEF NoDoublePayout
  <2>1. HEAD \in 0 .. Len(side) /\ CommitInv /\ SideTree
    BY <1>3 DEF ChainInv, Control
  <2>2. PICK p \in 0 .. Len(side) : Descends(HEAD, p) /\ Proposes(p, v)
    BY <1>3 DEF LineInv, OnLine
  <2>3. PICK q \in 0 .. Len(side) : Descends(HEAD, q) /\ Proposes(q, w)
    BY <1>3 DEF LineInv, OnLine
  <2>4. v.indices = Select(Block(p).state) /\ w.indices = Select(Block(q).state) /\ p # q
    BY <1>3, <2>2, <2>3, ProposedType DEF Proposes
  <2>5. Number(p) \in Nat /\ Number(q) \in Nat
    BY <2>1, SideIs
  <2>6. Before(p, q) \/ Before(q, p)
    <3>1. CASE Number(p) <= Number(q)
      BY <1>3, <2>1, <2>2, <2>3, <2>4, <3>1, OneLine
    <3>2. CASE Number(q) <= Number(p)
      BY <1>3, <2>1, <2>2, <2>3, <2>4, <3>2, OneLine
    <3> QED BY <2>5, <3>1, <3>2
  <2> QED BY <1>3, <2>4, <2>6, SelectedOnce
<1> QED BY <1>1, <1>2, <1>3, InitChain, PTL DEF Spec

================================================================================
