----------------------------- MODULE ListProofs -----------------------------
(***************************************************************************)
(* Facts about the intrusive lists of LinkedLists, for any memory: what    *)
(* following the `next` fields yields, and what pushing, popping and       *)
(* chaining nodes does to it.                                              *)
(***************************************************************************)
EXTENDS LinkedLists, FiniteSetTheorems, TLAPS

\* The sequence s of nodes is what `next` links, and it ends with nullptr.
IsChain(nxt, s) ==
  /\ s \in Seq(Nodes)
  /\ NoRepeats(s)
  /\ \A i \in 1 .. Len(s) : nxt[s[i]] = IF i = Len(s) THEN Null ELSE s[i + 1]

\* The pointer to such a list, and its nodes.
PointerTo(s) == IF s = <<>> THEN Null ELSE s[1]
Members(s)   == {s[i] : i \in 1 .. Len(s)}
-----------------------------------------------------------------------------
\* The least-number principle for a set of numbers: it replaces induction.
LEMMA LeastNumber ==
  ASSUME NEW S, S \subseteq Nat, S # {}
  PROVE  \E m \in S : \A k \in S : m <= k
  <1> DEFINE R == OpToRel(<, Nat)
  <1>1. IsWellFoundedOn(R, Nat)
    BY NatLessThanWellFounded
  <1>2. \A x, y \in Nat : <<x, y>> \in R <=> x < y
    BY DEF OpToRel
  <1>3. PICK m \in S : \A y \in S : ~ (<<y, m>> \in R)
    <2> HIDE DEF R
    <2> QED
      BY <1>1, WFMin
  <1>4. ASSUME NEW k \in S PROVE m <= k
    <2>1. m \in Nat /\ k \in Nat
      OBVIOUS
    <2>2. <<k, m>> \notin R
      BY <1>3
    <2>3. ~ (k < m)
      BY <1>2, <2>1, <2>2
    <2> QED
      BY <2>1, <2>3
  <1> QED
    BY <1>4

LEMMA IntervalCardinality ==
  ASSUME NEW m \in Nat
  PROVE  /\ Cardinality(1 .. m) = m
         /\ Cardinality(0 .. m - 1) = m
  <1>1. 1 \in Int /\ m \in Int /\ 0 \in Int /\ m - 1 \in Int
    OBVIOUS
  <1>2. Cardinality(1 .. m) = IF 1 > m THEN 0 ELSE m - 1 + 1
    BY <1>1, FS_Interval
  <1>3. Cardinality(0 .. m - 1) = IF 0 > m - 1 THEN 0 ELSE m - 1 - 0 + 1
    BY <1>1, FS_Interval
  <1> QED
    BY <1>2, <1>3

\* A list that names no node twice is no longer than there are nodes.
LEMMA ChainLength ==
  ASSUME NEW s \in Seq(Nodes), NoRepeats(s)
  PROVE  /\ Len(s) \in Nat /\ Cardinality(Nodes) \in Nat
         /\ Len(s) <= Cardinality(Nodes)
  <1>1. Len(s) \in Nat /\ Cardinality(Nodes) \in Nat
    BY FS_CardinalityType, NodesAreFinite
  <1>2. s \in Injection(1 .. Len(s), Nodes)
    BY DEF NoRepeats, Injection, IsInjective
  <1>3. Cardinality(1 .. Len(s)) <= Cardinality(Nodes)
    BY <1>2, FS_Injection, NodesAreFinite
  <1>4. Cardinality(1 .. Len(s)) = Len(s)
    BY <1>1, IntervalCardinality
  <1> QED
    BY <1>1, <1>3, <1>4

\* Following `next` from the first node of a chain meets its nodes, in order.
LEMMA ListOfChain ==
  ASSUME NEW nxt, NEW s, IsChain(nxt, s)
  PROVE  ListOf(nxt, PointerTo(s)) = s
  <1> DEFINE N == Cardinality(Nodes)
             p == PointerTo(s)
             step == [n \in Nodes \cup {Null} |-> IF n = Null THEN Null ELSE nxt[n]]
             Walks(g) == g = [k \in 0 .. N |-> IF k = 0 THEN p ELSE step[g[k - 1]]]
             at == CHOOSE g : Walks(g)
             len == Cardinality({k \in 0 .. N : at[k] # Null})
             f == [k \in 0 .. N |-> IF k < Len(s) THEN s[k + 1] ELSE Null]
  <1>1. ListOf(nxt, p) = [i \in 1 .. len |-> at[i - 1]]
    BY DEF ListOf
  <1>2. Len(s) \in Nat /\ N \in Nat /\ Len(s) <= N /\ s \in Seq(Nodes)
    BY ChainLength DEF IsChain
  <1>3. Walks(f)
    <2>1. f[0] = p
      BY <1>2 DEF PointerTo
    <2>2. ASSUME NEW k \in 1 .. N PROVE f[k] = step[f[k - 1]]
      <3>1. k \in Nat /\ k - 1 \in 0 .. N /\ k \in 0 .. N
        BY <1>2
      <3>2. CASE k < Len(s)
        <4>1. k \in 1 .. Len(s) /\ k - 1 < Len(s) /\ k # Len(s) /\ k - 1 + 1 = k
          BY <1>2, <3>1, <3>2
        <4>2. f[k - 1] = s[k] /\ f[k] = s[k + 1] /\ s[k] \in Nodes
          BY <1>2, <3>1, <3>2, <4>1
        <4> QED
          BY <4>1, <4>2, NullIsNoNode DEF IsChain
      <3>3. CASE k = Len(s)
        <4>1. k \in 1 .. Len(s) /\ k - 1 < Len(s) /\ ~ (k < Len(s)) /\ k - 1 + 1 = k
          BY <1>2, <3>1, <3>3
        <4>2. f[k - 1] = s[k] /\ f[k] = Null /\ s[k] \in Nodes
          BY <1>2, <3>1, <4>1
        <4> QED
          BY <3>3, <4>1, <4>2, NullIsNoNode DEF IsChain
      <3>4. CASE k > Len(s)
        <4>1. ~ (k - 1 < Len(s)) /\ ~ (k < Len(s))
          BY <1>2, <3>1, <3>4
        <4>2. f[k - 1] = Null /\ f[k] = Null
          BY <3>1, <4>1
        <4> QED
          BY <4>2
      <3> QED
        BY <1>2, <3>1, <3>2, <3>3, <3>4
    <2> HIDE DEF p, step, N
    <2>3. f = [k \in 0 .. N |-> f[k]]
      OBVIOUS
    <2> HIDE DEF f, at, len
    <2>4. ASSUME NEW k \in 0 .. N PROVE f[k] = IF k = 0 THEN p ELSE step[f[k - 1]]
      <3>1. k = 0 \/ k \in 1 .. N
        BY <1>2
      <3>2. k \in 1 .. N => k # 0
        BY <1>2
      <3> QED
        BY <2>1, <2>2, <3>1, <3>2
    <2> QED
      BY <2>3, <2>4
  <1>4. Walks(at)
    <2> HIDE DEF Walks, f
    <2> QED
      BY <1>3, Zenon
  <1>5. \A k \in 0 .. N : at[k] = f[k]
    <2> DEFINE D == {k \in 0 .. N : at[k] # f[k]}
    <2> SUFFICES ASSUME D # {} PROVE FALSE
      OBVIOUS
    <2>1. PICK m \in D : \A k \in D : m <= k
      <3>1. D \subseteq Nat
        OBVIOUS
      <3> HIDE DEF D
      <3> QED
        BY <3>1, LeastNumber
    <2> HIDE DEF at, f, step, p
    <2>2. m # 0
      BY <1>2, <1>3, <1>4
    <2>3. m - 1 \in 0 .. N /\ m - 1 \notin D
      BY <1>2, <2>1, <2>2
    <2>4. at[m - 1] = f[m - 1]
      BY <2>3
    <2> QED
      BY <1>3, <1>4, <2>2, <2>4, ZenonT(60)
  <1>6. len = Len(s)
    <2>1. \A k \in 0 .. N : f[k] # Null <=> k < Len(s)
      BY <1>2, NullIsNoNode
    <2> HIDE DEF at, f
    <2>2. {k \in 0 .. N : at[k] # Null} = 0 .. Len(s) - 1
      BY <1>2, <1>5, <2>1
    <2> QED
      BY <1>2, <2>2, IntervalCardinality
  <1>7. \A i \in 1 .. Len(s) : at[i - 1] = s[i]
    <2>1. ASSUME NEW i \in 1 .. Len(s) PROVE i - 1 \in 0 .. N /\ i - 1 < Len(s) /\ i - 1 + 1 = i
      BY <1>2
    <2>2. ASSUME NEW i \in 1 .. Len(s) PROVE f[i - 1] = s[i]
      BY <2>1
    <2> HIDE DEF at, f
    <2> QED
      BY <1>5, <2>1, <2>2
  <1> HIDE DEF at, len
  <1> QED
    BY <1>1, <1>2, <1>6, <1>7
-----------------------------------------------------------------------------
\* The empty list.
LEMMA EmptyChain ==
  ASSUME NEW nxt
  PROVE  IsChain(nxt, <<>>) /\ PointerTo(<<>>) = Null /\ Members(<<>>) = {}
  BY DEF IsChain, PointerTo, Members, NoRepeats

\* A pointer is nullptr exactly when its list is empty.
LEMMA PointerIsNull ==
  ASSUME NEW nxt, NEW s, IsChain(nxt, s)
  PROVE  /\ PointerTo(s) = Null <=> s = <<>>
         /\ s # <<>> => PointerTo(s) \in Members(s) /\ PointerTo(s) \in Nodes
  BY NullIsNoNode DEF IsChain, PointerTo, Members

LEMMA MembersAreNodes ==
  ASSUME NEW nxt, NEW s, IsChain(nxt, s)
  PROVE  Members(s) \subseteq Nodes
  BY DEF IsChain, Members

\* Writes to the `next` fields of other nodes do not change a list.
LEMMA ChainKept ==
  ASSUME NEW nxt, NEW nxt2, NEW s, IsChain(nxt, s),
         \A n \in Members(s) : nxt2[n] = nxt[n]
  PROVE  IsChain(nxt2, s)
  <1>1. \A i \in 1 .. Len(s) : nxt2[s[i]] = nxt[s[i]]
    BY DEF Members
  <1> QED
    BY <1>1 DEF IsChain

\* As long as nobody overwrites a link, a list can only grow, and only behind
\* its last node.
LEMMA ListGrows ==
  ASSUME NEW nxt, NEW nxt2, NEW s, NEW t, IsChain(nxt, s), IsChain(nxt2, t), s # <<>>,
         PointerTo(t) = PointerTo(s), \A n \in Members(s) : nxt[n] # Null => nxt2[n] = nxt[n]
  PROVE  Len(s) <= Len(t) /\ \A i \in 1 .. Len(s) : t[i] = s[i]
  <1> DEFINE Same(i) == i <= Len(t) /\ t[i] = s[i]
             S == {i \in 1 .. Len(s) : ~Same(i)}
  <1>1. /\ s \in Seq(Nodes) /\ t \in Seq(Nodes) /\ Len(s) \in Nat \ {0} /\ Len(t) \in Nat
        /\ \A i \in 1 .. Len(s) : s[i] \in Nodes
    BY DEF IsChain
  <1>2. Same(1)
    <2>1. s[1] \in Nodes /\ PointerTo(s) = s[1]
      BY <1>1 DEF PointerTo
    <2>2. t # <<>>
      BY <2>1, NullIsNoNode DEF PointerTo
    <2> QED
      BY <1>1, <2>1, <2>2 DEF PointerTo
  <1>3. ASSUME NEW i \in 1 .. Len(s), i # 1, Same(i - 1) PROVE Same(i)
    <2>1. i - 1 \in 1 .. Len(s) /\ i - 1 # Len(s) /\ (i - 1) + 1 = i /\ i - 1 \in 1 .. Len(t)
      BY <1>1, <1>3
    <2>2. nxt[s[i - 1]] = s[i]
      BY <2>1 DEF IsChain
    <2>3. nxt2[s[i - 1]] = s[i] /\ s[i] # Null
      BY <1>1, <2>1, <2>2, NullIsNoNode DEF Members
    <2>4. nxt2[t[i - 1]] = IF i - 1 = Len(t) THEN Null ELSE t[i]
      BY <2>1 DEF IsChain
    <2> QED
      BY <1>1, <1>3, <2>1, <2>3, <2>4
  <1> HIDE DEF Same
  <1>4. S = {}
    <2> SUFFICES ASSUME S # {} PROVE FALSE
      OBVIOUS
    <2>1. S \subseteq Nat
      BY <1>1
    <2>2. PICK m \in S : \A k \in S : m <= k
      BY <2>1, LeastNumber
    <2>3. m # 1 /\ m \in 1 .. Len(s) /\ ~Same(m)
      BY <1>2, <2>2
    <2>4. m - 1 \in 1 .. Len(s) /\ m - 1 \notin S
      BY <1>1, <2>2, <2>3
    <2> QED
      BY <1>3, <2>3, <2>4
  <1>5. \A i \in 1 .. Len(s) : Same(i)
    BY <1>4
  <1>6. Len(s) \in 1 .. Len(s)
    BY <1>1
  <1> QED
    BY <1>5, <1>6 DEF Same

\* Building a list from nodes that are in no other one.
LEMMA ChainedIsChain ==
  ASSUME NEW nxt, NEW s \in Seq(Nodes), NoRepeats(s)
  PROVE  /\ IsChain(Chained(nxt, s), s)
         /\ \A n \in Nodes \ Members(s) : Chained(nxt, s)[n] = nxt[n]
  <1>1. Len(s) \in Nat /\ DOMAIN s = 1 .. Len(s) /\ \A i \in 1 .. Len(s) : s[i] \in Nodes
    OBVIOUS
  <1>2. ASSUME NEW k \in 1 .. Len(s)
        PROVE  Chained(nxt, s)[s[k]] = IF k = Len(s) THEN Null ELSE s[k + 1]
    <2> DEFINE i == CHOOSE j \in 1 .. Len(s) : s[j] = s[k]
    <2>1. i \in 1 .. Len(s) /\ s[i] = s[k]
      OBVIOUS
    <2>2. i = k
      BY <2>1 DEF NoRepeats
    <2>3. Chained(nxt, s)[s[k]] = IF i = Len(s) THEN Null ELSE s[i + 1]
      BY <1>1 DEF Chained
    <2> QED
      BY <2>2, <2>3
  <1>3. ASSUME NEW n \in Nodes \ Members(s) PROVE Chained(nxt, s)[n] = nxt[n]
    <2>1. ~ \E i \in 1 .. Len(s) : s[i] = n
      BY DEF Members
    <2> QED
      BY <2>1 DEF Chained
  <1> QED
    BY <1>2, <1>3 DEF IsChain

\* Stepping to the next node before the first one is resumed.
LEMMA TailChain ==
  ASSUME NEW nxt, NEW s, IsChain(nxt, s), s # <<>>
  PROVE  /\ IsChain(nxt, Tail(s))
         /\ PointerTo(Tail(s)) = nxt[PointerTo(s)]
         /\ Members(Tail(s)) = Members(s) \ {PointerTo(s)}
  <1> DEFINE t == Tail(s)
             m == Len(s)
  <1>1. /\ s \in Seq(Nodes) /\ m \in Nat \ {0} /\ t \in Seq(Nodes)
        /\ Len(t) = m - 1 /\ PointerTo(s) = s[1]
    BY DEF IsChain, PointerTo
  <1>2. \A i \in 1 .. m - 1 : t[i] = s[i + 1]
    BY <1>1
  <1>3. /\ \A i, j \in 1 .. m : s[i] = s[j] => i = j
        /\ \A i \in 1 .. m : nxt[s[i]] = IF i = m THEN Null ELSE s[i + 1]
    BY DEF IsChain, NoRepeats
  <1>4. PointerTo(t) = IF m = 1 THEN Null ELSE t[1]
    <2> HIDE DEF t, m
    <2>1. t = <<>> <=> Len(t) = 0
      BY <1>1
    <2> QED
      BY <1>1, <2>1 DEF PointerTo
  <1>5. Members(t) = {t[i] : i \in 1 .. m - 1} /\ Members(s) = {s[i] : i \in 1 .. m}
    BY <1>1 DEF Members
  <1> HIDE DEF t, m
  <1>6. \A i \in 1 .. m - 1 : i + 1 \in 1 .. m /\ i + 1 # 1 /\ i \in 1 .. m /\ (i + 1 = m <=> i = m - 1)
    BY <1>1
  <1>7. \A i, j \in 1 .. m - 1 : t[i] = t[j] => i = j
    <2> SUFFICES ASSUME NEW i \in 1 .. m - 1, NEW j \in 1 .. m - 1, t[i] = t[j] PROVE i = j
      OBVIOUS
    <2>1. i + 1 = j + 1
      BY <1>2, <1>3, <1>6
    <2> QED
      BY <1>1, <2>1
  <1>8. ASSUME NEW i \in 1 .. m - 1
        PROVE  nxt[t[i]] = IF i = m - 1 THEN Null ELSE t[i + 1]
    <2>1. nxt[s[i + 1]] = IF i + 1 = m THEN Null ELSE s[i + 1 + 1]
      BY <1>3, <1>6
    <2>2. i # m - 1 => i + 1 \in 1 .. m - 1
      BY <1>1
    <2> QED
      BY <1>2, <1>6, <2>1, <2>2
  <1>9. PointerTo(t) = nxt[s[1]]
    <2>1. 1 \in 1 .. m /\ (m # 1 => 1 \in 1 .. m - 1)
      BY <1>1
    <2> QED
      BY <1>2, <1>3, <1>4, <2>1
  <1>10. Members(t) = Members(s) \ {s[1]}
    <2>1. ASSUME NEW i \in 1 .. m - 1 PROVE t[i] # s[1] /\ t[i] = s[i + 1] /\ i + 1 \in 1 .. m
      <3>1. i + 1 \in 1 .. m /\ 1 \in 1 .. m /\ i + 1 # 1
        BY <1>1, <1>6
      <3> QED
        BY <1>2, <1>3, <3>1
    <2>2. ASSUME NEW i \in 1 .. m, s[i] # s[1] PROVE \E j \in 1 .. m - 1 : t[j] = s[i]
      <3>1. i - 1 \in 1 .. m - 1 /\ i - 1 + 1 = i
        BY <1>1, <2>2
      <3>2. t[i - 1] = s[i]
        BY <1>2, <3>1
      <3> QED
        BY <3>1, <3>2
    <2>3. ASSUME NEW x \in Members(t) PROVE x \in Members(s) \ {s[1]}
      BY <1>5, <2>1
    <2>4. ASSUME NEW x \in Members(s) \ {s[1]} PROVE x \in Members(t)
      BY <1>5, <2>2
    <2> QED
      BY <2>3, <2>4
  <1>11. IsChain(nxt, t)
    BY <1>1, <1>7, <1>8 DEF IsChain, NoRepeats
  <1> QED
    BY <1>1, <1>9, <1>10, <1>11 DEF t

\* Linking list t behind the last node of list s.
LEMMA ConcatChain ==
  ASSUME NEW nxt \in [Nodes -> Nodes \cup {Null}], NEW s, NEW t, IsChain(nxt, s), IsChain(nxt, t),
         s # <<>>, t # <<>>, Members(s) \cap Members(t) = {}
  PROVE  /\ IsChain([nxt EXCEPT ![s[Len(s)]] = PointerTo(t)], s \o t)
         /\ PointerTo(s \o t) = PointerTo(s)
         /\ Members(s \o t) = Members(s) \cup Members(t)
         /\ (s \o t)[Len(s \o t)] = t[Len(t)]
         /\ s[Len(s)] \in Members(s)
  <1> DEFINE nxt2 == [nxt EXCEPT ![s[Len(s)]] = PointerTo(t)]
             c == s \o t
  <1>1. /\ s \in Seq(Nodes) /\ t \in Seq(Nodes) /\ Len(s) \in Nat \ {0} /\ Len(t) \in Nat \ {0}
        /\ c \in Seq(Nodes) /\ Len(c) = Len(s) + Len(t) /\ PointerTo(s) = s[1] /\ PointerTo(t) = t[1]
    BY DEF IsChain, PointerTo
  <1>2. /\ \A i \in 1 .. Len(s) : c[i] = s[i] /\ i \in 1 .. Len(c)
        /\ \A i \in 1 .. Len(t) : c[Len(s) + i] = t[i] /\ Len(s) + i \in 1 .. Len(c)
    BY <1>1
  <1>3. \A i \in 1 .. Len(c) : \/ i \in 1 .. Len(s)
                               \/ \E j \in 1 .. Len(t) : i = Len(s) + j
    <2> SUFFICES ASSUME NEW i \in 1 .. Len(c), i \notin 1 .. Len(s)
                 PROVE  \E j \in 1 .. Len(t) : i = Len(s) + j
      OBVIOUS
    <2>1. i - Len(s) \in 1 .. Len(t) /\ i = Len(s) + (i - Len(s))
      BY <1>1
    <2> QED
      BY <2>1
  <1>4. \A i \in 1 .. Len(s), j \in 1 .. Len(t) : s[i] # t[j]
    BY DEF Members
  <1> HIDE DEF c
  <1>5. NoRepeats(c)
    <2> SUFFICES ASSUME NEW i \in 1 .. Len(c), NEW j \in 1 .. Len(c), c[i] = c[j] PROVE i = j
      BY DEF NoRepeats
    <2>1. CASE i \in 1 .. Len(s) /\ j \in 1 .. Len(s)
      BY <1>2, <2>1 DEF IsChain, NoRepeats
    <2>2. CASE i \in 1 .. Len(s) /\ j \notin 1 .. Len(s)
      <3>1. PICK l \in 1 .. Len(t) : j = Len(s) + l
        BY <1>3, <2>2
      <3> QED
        BY <1>2, <1>4, <2>2, <3>1
    <2>3. CASE i \notin 1 .. Len(s) /\ j \in 1 .. Len(s)
      <3>1. PICK k \in 1 .. Len(t) : i = Len(s) + k
        BY <1>3, <2>3
      <3> QED
        BY <1>2, <1>4, <2>3, <3>1
    <2>4. CASE i \notin 1 .. Len(s) /\ j \notin 1 .. Len(s)
      <3>1. PICK k \in 1 .. Len(t) : i = Len(s) + k
        BY <1>3, <2>4
      <3>2. PICK l \in 1 .. Len(t) : j = Len(s) + l
        BY <1>3, <2>4
      <3>3. t[k] = t[l]
        BY <1>2, <3>1, <3>2
      <3>4. k = l
        BY <3>3 DEF IsChain, NoRepeats
      <3> QED
        BY <3>1, <3>2, <3>4
    <2> QED
      BY <2>1, <2>2, <2>3, <2>4
  <1>6. Members(c) = Members(s) \cup Members(t)
    <2>1. ASSUME NEW i \in 1 .. Len(c) PROVE c[i] \in Members(s) \cup Members(t)
      BY <1>2, <1>3 DEF Members
    <2>2. ASSUME NEW i \in 1 .. Len(s) PROVE s[i] \in Members(c)
      BY <1>2 DEF Members
    <2>3. ASSUME NEW i \in 1 .. Len(t) PROVE t[i] \in Members(c)
      BY <1>2 DEF Members
    <2>4. Members(c) \subseteq Members(s) \cup Members(t)
      BY <2>1 DEF Members
    <2>5. Members(s) \subseteq Members(c) /\ Members(t) \subseteq Members(c)
      BY <2>2, <2>3 DEF Members
    <2> QED
      BY <2>4, <2>5
  <1>7. \A i \in 1 .. Len(c) : nxt2[c[i]] = IF i = Len(c) THEN Null ELSE c[i + 1]
    <2>1. ASSUME NEW i \in 1 .. Len(s), i # Len(s) PROVE nxt2[c[i]] = c[i + 1] /\ i # Len(c)
      <3>1. i + 1 \in 1 .. Len(s) /\ i # Len(c) /\ Len(s) \in 1 .. Len(s)
        BY <1>1, <2>1
      <3>2. s[i] # s[Len(s)]
        BY <2>1, <3>1 DEF IsChain, NoRepeats
      <3>3. nxt[s[i]] = s[i + 1]
        BY <2>1 DEF IsChain
      <3>4. nxt2[s[i]] = nxt[s[i]]
        BY <1>1, <3>2
      <3> QED
        BY <1>2, <3>1, <3>3, <3>4
    <2>2. nxt2[c[Len(s)]] = c[Len(s) + 1] /\ Len(s) # Len(c)
      <3>1. Len(s) \in 1 .. Len(s) /\ 1 \in 1 .. Len(t) /\ Len(s) # Len(c)
        BY <1>1
      <3>2. s[Len(s)] \in Nodes
        BY <1>1, <3>1
      <3>3. nxt2[s[Len(s)]] = t[1]
        BY <1>1, <3>2
      <3> QED
        BY <1>2, <3>1, <3>3
    <2>3. ASSUME NEW j \in 1 .. Len(t)
          PROVE nxt2[c[Len(s) + j]] = IF Len(s) + j = Len(c) THEN Null ELSE c[Len(s) + j + 1]
      <3>1. Len(s) \in 1 .. Len(s)
        BY <1>1
      <3>2. nxt2[t[j]] = nxt[t[j]]
        BY <1>1, <1>4, <3>1, SMTT(30)
      <3>3. nxt[t[j]] = IF j = Len(t) THEN Null ELSE t[j + 1]
        BY DEF IsChain
      <3>4. j # Len(t) => j + 1 \in 1 .. Len(t) /\ Len(s) + (j + 1) = Len(s) + j + 1
        BY <1>1
      <3>5. j # Len(t) => t[j + 1] = c[Len(s) + j + 1]
        BY <1>2, <3>4
      <3>6. j = Len(t) <=> Len(s) + j = Len(c)
        BY <1>1, SMTT(30)
      <3> QED
        BY <1>2, <3>2, <3>3, <3>5, <3>6
    <2> HIDE DEF nxt2
    <2> SUFFICES ASSUME NEW i \in 1 .. Len(c)
                 PROVE  nxt2[c[i]] = IF i = Len(c) THEN Null ELSE c[i + 1]
      OBVIOUS
    <2>4. CASE i \in 1 .. Len(s) /\ i # Len(s)
      BY <2>1, <2>4
    <2>5. CASE i = Len(s)
      BY <2>2, <2>5
    <2>6. CASE \E j \in 1 .. Len(t) : i = Len(s) + j
      BY <2>3, <2>6
    <2> QED
      BY <1>3, <2>4, <2>5, <2>6
  <1>8. /\ PointerTo(c) = s[1] /\ c[Len(c)] = t[Len(t)] /\ s[Len(s)] \in Members(s)
    <2>1. 1 \in 1 .. Len(s) /\ Len(t) \in 1 .. Len(t) /\ Len(s) \in 1 .. Len(s) /\ c # <<>>
      BY <1>1
    <2> QED
      BY <1>1, <1>2, <2>1 DEF PointerTo, Members
  <1> QED
    BY <1>1, <1>5, <1>6, <1>7, <1>8 DEF IsChain, c
-----------------------------------------------------------------------------
(***************************************************************************)
(* Several lists in one memory: H gives the pointer that each member of P  *)
(* holds; each of them leads to a list, and no two lists share a node.     *)
(***************************************************************************)
Separate(P, H, nxt) ==
  /\ H \in [P -> Nodes \cup {Null}]
  /\ \A l \in P : IsChain(nxt, ListOf(nxt, H[l])) /\ H[l] = PointerTo(ListOf(nxt, H[l]))
  /\ \A l, m \in P : l # m => NodesOf(nxt, H[l]) \cap NodesOf(nxt, H[m]) = {}

\* One who knows the lists need not walk along them.
LEMMA SeparateChains ==
  ASSUME NEW P, NEW nxt, NEW H \in [P -> Nodes \cup {Null}], NEW K \in [P -> Seq(Nodes)],
         \A l \in P : IsChain(nxt, K[l]) /\ H[l] = PointerTo(K[l]),
         \A l, m \in P : l # m => Members(K[l]) \cap Members(K[m]) = {}
  PROVE  /\ Separate(P, H, nxt)
         /\ \A l \in P : ListOf(nxt, H[l]) = K[l] /\ NodesOf(nxt, H[l]) = Members(K[l])
  <1>1. \A l \in P : ListOf(nxt, H[l]) = K[l]
    BY ListOfChain
  <1>2. \A l \in P : NodesOf(nxt, H[l]) = Members(K[l])
    BY <1>1 DEF NodesOf, Members
  <1> QED
    BY <1>1, <1>2 DEF Separate

\* What a pointer, and the `next` of a node, says of its list.
LEMMA InList ==
  ASSUME NEW P, NEW H, NEW nxt, Separate(P, H, nxt), NEW l \in P
  PROVE  /\ NodesOf(nxt, H[l]) \subseteq Nodes
         /\ H[l] = Null => NodesOf(nxt, H[l]) = {}
         /\ H[l] # Null => /\ H[l] \in NodesOf(nxt, H[l])
                           /\ LastOf(nxt, H[l]) \in NodesOf(nxt, H[l])
                           /\ nxt[LastOf(nxt, H[l])] = Null
         /\ \A n \in NodesOf(nxt, H[l]) :
              /\ nxt[n] = Null \/ nxt[n] \in NodesOf(nxt, H[l])
              /\ nxt[n] # H[l]
  <1> DEFINE s == ListOf(nxt, H[l])
  <1>1. IsChain(nxt, s) /\ H[l] = PointerTo(s) /\ NodesOf(nxt, H[l]) = Members(s)
    BY DEF Separate, NodesOf, Members
  <1>2. LastOf(nxt, H[l]) = s[Len(s)]
    BY DEF LastOf
  <1> HIDE DEF s
  <1>3. s \in Seq(Nodes) /\ Len(s) \in Nat /\ (s # <<>> => Len(s) \in 1 .. Len(s) /\ 1 \in 1 .. Len(s))
    BY <1>1 DEF IsChain
  <1>4. s # <<>> => s[1] \in Members(s) /\ s[Len(s)] \in Members(s) /\ nxt[s[Len(s)]] = Null
    BY <1>1, <1>3 DEF Members, IsChain
  <1>5. ASSUME NEW n \in Members(s)
        PROVE  (nxt[n] = Null \/ nxt[n] \in Members(s)) /\ nxt[n] # PointerTo(s)
    <2>1. PICK i \in 1 .. Len(s) : s[i] = n
      BY DEF Members
    <2>2. nxt[n] = IF i = Len(s) THEN Null ELSE s[i + 1]
      BY <1>1, <2>1 DEF IsChain
    <2>3. s # <<>> /\ PointerTo(s) = s[1] /\ s[1] \in Nodes
      BY <1>3, <2>1 DEF PointerTo
    <2>4. CASE i = Len(s)
      BY <2>2, <2>3, <2>4, NullIsNoNode
    <2>5. CASE i # Len(s)
      <3>1. i + 1 \in 1 .. Len(s) /\ i + 1 # 1
        BY <1>3, <2>5
      <3>2. s[i + 1] # s[1]
        BY <1>1, <1>3, <2>3, <3>1 DEF IsChain, NoRepeats
      <3> QED
        BY <2>2, <2>3, <2>5, <3>1, <3>2 DEF Members
    <2> QED
      BY <2>4, <2>5
  <1>6. s = <<>> => Members(s) = {}
    BY EmptyChain
  <1> QED
    BY <1>1, <1>2, <1>4, <1>5, <1>6, MembersAreNodes, PointerIsNull DEF PointerTo

\* Stepping from the first node of a list to the next.
LEMMA SeparateStep ==
  ASSUME NEW P, NEW H, NEW nxt, Separate(P, H, nxt), NEW l \in P, H[l] # Null,
         NEW G \in [P -> Nodes \cup {Null}], G[l] = nxt[H[l]], \A m \in P : m # l => G[m] = H[m]
  PROVE  /\ Separate(P, G, nxt)
         /\ NodesOf(nxt, G[l]) = NodesOf(nxt, H[l]) \ {H[l]}
         /\ G[l] # Null => LastOf(nxt, G[l]) = LastOf(nxt, H[l])
  <1> DEFINE M == [m \in P |-> ListOf(nxt, H[m])]
             s == M[l]
             t == Tail(s)
             K == [M EXCEPT ![l] = t]
  <1>0. \A m \in P : M[m] = ListOf(nxt, H[m]) /\ NodesOf(nxt, H[m]) = Members(M[m])
    BY DEF NodesOf, Members
  <1>1. /\ H \in [P -> Nodes \cup {Null}]
        /\ \A m \in P : /\ IsChain(nxt, M[m]) /\ H[m] = PointerTo(M[m]) /\ M[m] \in Seq(Nodes)
                         /\ M[m] = ListOf(nxt, H[m]) /\ NodesOf(nxt, H[m]) = Members(M[m])
        /\ \A m, k \in P : m # k => Members(M[m]) \cap Members(M[k]) = {}
    <2> HIDE DEF M
    <2>1. H \in [P -> Nodes \cup {Null}] /\ \A m \in P : IsChain(nxt, M[m]) /\ H[m] = PointerTo(M[m])
      BY <1>0 DEF Separate
    <2>2. \A m, k \in P : m # k => Members(M[m]) \cap Members(M[k]) = {}
      BY <1>0 DEF Separate
    <2> QED
      BY <1>0, <2>1, <2>2 DEF IsChain
  <1>2. DOMAIN M = P /\ M = [m \in P |-> M[m]]
    OBVIOUS
  <1> HIDE DEF M
  <1>3. s # <<>> /\ s \in Seq(Nodes)
    BY <1>1, PointerIsNull
  <1>4. IsChain(nxt, t) /\ PointerTo(t) = nxt[H[l]] /\ Members(t) = Members(s) \ {H[l]} /\ t \in Seq(Nodes)
    BY <1>1, <1>3, TailChain DEF IsChain
  <1>5. t # <<>> => t[Len(t)] = s[Len(s)]
    <2>1. Len(s) \in Nat /\ Len(t) = Len(s) - 1 /\ \A i \in 1 .. Len(t) : t[i] = s[i + 1]
      BY <1>3
    <2>2. ASSUME t # <<>> PROVE Len(t) \in 1 .. Len(t) /\ Len(t) + 1 = Len(s)
      BY <1>4, <2>1, <2>2
    <2> QED
      BY <2>1, <2>2
  <1> HIDE DEF t
  <1>6. K \in [P -> Seq(Nodes)] /\ K[l] = t /\ \A m \in P : m # l => K[m] = M[m]
    BY <1>1, <1>2, <1>4
  <1>7. /\ G \in [P -> Nodes \cup {Null}] /\ G[l] = nxt[H[l]]
        /\ \A m \in P : m # l => G[m] = H[m]
    OBVIOUS
  <1> HIDE DEF K
  <1>8. \A m \in P : IsChain(nxt, K[m]) /\ G[m] = PointerTo(K[m])
    BY <1>1, <1>4, <1>6, <1>7
  <1>9. \A m \in P : Members(K[m]) \subseteq Members(M[m])
    BY <1>4, <1>6
  <1>10. ASSUME NEW m \in P, NEW k \in P, m # k PROVE Members(K[m]) \cap Members(K[k]) = {}
    <2>1. Members(M[m]) \cap Members(M[k]) = {}
      BY <1>1, <1>10
    <2> QED
      BY <1>9, <2>1
  <1>11. /\ Separate(P, G, nxt)
         /\ \A m \in P : ListOf(nxt, G[m]) = K[m] /\ NodesOf(nxt, G[m]) = Members(K[m])
    <2>1. G \in [P -> Nodes \cup {Null}] /\ K \in [P -> Seq(Nodes)]
      BY <1>6, <1>7
    <2>2. \A m, k \in P : m # k => Members(K[m]) \cap Members(K[k]) = {}
      BY <1>10
    <2> QED
      BY <1>8, <2>1, <2>2, SeparateChains
  <1>12. G[l] # Null => t # <<>>
    BY <1>4, <1>7, EmptyChain
  <1> QED
    BY <1>1, <1>4, <1>5, <1>6, <1>11, <1>12 DEF LastOf

\* A list that changes hands, to one who had none.
LEMMA SeparateMove ==
  ASSUME NEW P, NEW H, NEW nxt, Separate(P, H, nxt), NEW g \in P, NEW h \in P, g # h, H[h] = Null,
         NEW G \in [P -> Nodes \cup {Null}], G[h] = H[g], G[g] = Null,
         \A m \in P : m # g /\ m # h => G[m] = H[m]
  PROVE  Separate(P, G, nxt)
  <1>2. /\ G \in [P -> Nodes \cup {Null}] /\ G[h] = H[g] /\ G[g] = H[h]
        /\ \A m \in P : m # g /\ m # h => G[m] = H[m]
    OBVIOUS
  <1>3. \A m \in P : \E k \in P : G[m] = H[k]
    BY <1>2
  <1>4. \A m \in P : IsChain(nxt, ListOf(nxt, G[m])) /\ G[m] = PointerTo(ListOf(nxt, G[m]))
    BY <1>3 DEF Separate
  <1>5. ASSUME NEW m \in P, NEW k \in P, m # k
        PROVE  NodesOf(nxt, G[m]) \cap NodesOf(nxt, G[k]) = {}
    <2>1. \E x, y \in P : x # y /\ G[m] = H[x] /\ G[k] = H[y]
      BY <1>2, <1>5
    <2> QED
      BY <2>1 DEF Separate
  <1> QED
    BY <1>2, <1>4, <1>5 DEF Separate

\* A list t of nodes that are in no other list, chained in memory mem, is linked
\* behind list q, or becomes list q if there is none.
LEMMA SeparateAppend ==
  ASSUME NEW P, NEW H, NEW nxt \in [Nodes -> Nodes \cup {Null}], Separate(P, H, nxt), NEW q \in P,
         NEW t, t # <<>>, \A m \in P : Members(t) \cap NodesOf(nxt, H[m]) = {},
         NEW mem \in [Nodes -> Nodes \cup {Null}], IsChain(mem, t),
         \A n \in Nodes \ Members(t) : mem[n] = nxt[n],
         NEW G \in [P -> Nodes \cup {Null}], G[q] = IF H[q] = Null THEN PointerTo(t) ELSE H[q],
         \A m \in P : m # q => G[m] = H[m],
         NEW new, H[q] = Null => new = mem,
         H[q] # Null => new = [mem EXCEPT ![LastOf(nxt, H[q])] = PointerTo(t)]
  PROVE  /\ Separate(P, G, new) /\ new \in [Nodes -> Nodes \cup {Null}]
         /\ NodesOf(new, G[q]) = NodesOf(nxt, H[q]) \cup Members(t)
         /\ LastOf(new, G[q]) = t[Len(t)]
         /\ \A m \in P : m # q => /\ NodesOf(new, G[m]) = NodesOf(nxt, H[m])
                                  /\ LastOf(new, G[m]) = LastOf(nxt, H[m])
         /\ \A n \in Nodes \ Members(t) : nxt[n] # Null => new[n] = nxt[n]
         /\ \A n \in Members(t) : new[n] = mem[n]
  <1> DEFINE M == [m \in P |-> ListOf(nxt, H[m])]
             s == M[q]
             z == LastOf(nxt, H[q])
             c == IF H[q] = Null THEN t ELSE s \o t
             K == [M EXCEPT ![q] = c]
  <1>1. \A m \in P : M[m] = ListOf(nxt, H[m]) /\ NodesOf(nxt, H[m]) = Members(M[m])
    BY DEF NodesOf, Members
  <1>2. DOMAIN M = P /\ M = [m \in P |-> M[m]]
    OBVIOUS
  <1>3. z = s[Len(s)]
    BY DEF LastOf
  <1> HIDE DEF M
  <1>4. /\ H \in [P -> Nodes \cup {Null}]
        /\ \A m \in P : IsChain(nxt, M[m]) /\ H[m] = PointerTo(M[m])
        /\ \A m, k \in P : m # k => Members(M[m]) \cap Members(M[k]) = {}
    BY <1>1 DEF Separate
  <1>5. ASSUME NEW m \in P
        PROVE  M[m] \in Seq(Nodes) /\ Members(M[m]) \subseteq Nodes /\ Members(t) \cap Members(M[m]) = {}
    <2>1. IsChain(nxt, M[m]) /\ Members(t) \cap Members(M[m]) = {}
      BY <1>1, <1>4
    <2> QED
      BY <2>1, MembersAreNodes DEF IsChain
  <1>6. t \in Seq(Nodes) /\ PointerTo(t) \in Nodes /\ Members(t) \subseteq Nodes
    BY PointerIsNull, MembersAreNodes DEF IsChain
  <1>7. H[q] # Null => z \in Members(s) /\ z \in Nodes /\ nxt[z] = Null /\ s # <<>>
    BY <1>1, <1>4, <1>5, InList, PointerIsNull
  <1>8. \A m \in P : IsChain(mem, M[m])
    BY <1>4, <1>5, ChainKept
  <1> HIDE DEF s, z
  <1>9. /\ IsChain(new, c) /\ PointerTo(c) = G[q] /\ Members(c) = Members(s) \cup Members(t)
        /\ c[Len(c)] = t[Len(t)] /\ c \in Seq(Nodes)
    <2>1. CASE H[q] = Null
      <3>1. Members(s) = {}
        BY <1>4, <2>1, PointerIsNull, EmptyChain DEF s
      <3> QED
        BY <1>6, <2>1, <3>1
    <2>2. CASE H[q] # Null
      <3>1. IsChain(mem, s) /\ IsChain(mem, t) /\ Members(s) \cap Members(t) = {} /\ s # <<>>
        BY <1>5, <1>7, <1>8, <2>2 DEF s
      <3>2. new = [mem EXCEPT ![s[Len(s)]] = PointerTo(t)]
        BY <1>3, <2>2 DEF z
      <3>3. /\ IsChain(new, s \o t) /\ PointerTo(s \o t) = PointerTo(s)
            /\ Members(s \o t) = Members(s) \cup Members(t) /\ (s \o t)[Len(s \o t)] = t[Len(t)]
        BY <3>1, <3>2, ConcatChain
      <3>4. H[q] = PointerTo(s)
        BY <1>4 DEF s
      <3> QED
        BY <2>2, <3>3, <3>4 DEF IsChain
    <2> QED
      BY <2>1, <2>2
  <1>10. /\ new \in [Nodes -> Nodes \cup {Null}]
         /\ \A n \in Nodes : (H[q] # Null => n # z) => new[n] = mem[n]
    BY <1>6, <1>7 DEF z
  <1>11. ASSUME NEW m \in P, m # q PROVE IsChain(new, M[m])
    <2>1. H[q] # Null => z \notin Members(M[m])
      BY <1>4, <1>7, <1>11 DEF s
    <2>2. \A n \in Members(M[m]) : new[n] = mem[n]
      BY <1>5, <1>10, <2>1
    <2> QED
      BY <1>8, <2>2, ChainKept
  <1> HIDE DEF c
  <1>12. K \in [P -> Seq(Nodes)] /\ K[q] = c /\ \A m \in P : m # q => K[m] = M[m]
    BY <1>2, <1>5, <1>9
  <1> HIDE DEF K
  <1>13. \A m \in P : IsChain(new, K[m]) /\ G[m] = PointerTo(K[m])
    BY <1>4, <1>9, <1>11, <1>12
  <1>14. ASSUME NEW m \in P, NEW k \in P, m # k PROVE Members(K[m]) \cap Members(K[k]) = {}
    <2>1. Members(M[m]) \cap Members(M[k]) = {}
      BY <1>4, <1>14
    <2>2. Members(M[m]) \cap Members(t) = {} /\ Members(M[k]) \cap Members(t) = {}
      BY <1>5
    <2>3. CASE m = q
      BY <1>9, <1>12, <1>14, <2>1, <2>2, <2>3 DEF s
    <2>4. CASE k = q
      BY <1>9, <1>12, <1>14, <2>1, <2>2, <2>4 DEF s
    <2> QED
      BY <1>12, <2>1, <2>3, <2>4
  <1>15. /\ Separate(P, G, new)
         /\ \A m \in P : ListOf(new, G[m]) = K[m] /\ NodesOf(new, G[m]) = Members(K[m])
    <2>1. \A m, k \in P : m # k => Members(K[m]) \cap Members(K[k]) = {}
      BY <1>14
    <2>2. G \in [P -> Nodes \cup {Null}] /\ K \in [P -> Seq(Nodes)]
      BY <1>12
    <2>3. \A m \in P : ListOf(new, G[m]) = K[m]
      BY <1>13, ListOfChain
    <2>4. \A m \in P : NodesOf(new, G[m]) = Members(K[m])
      BY <2>3 DEF NodesOf, Members
    <2> QED
      BY <1>13, <2>1, <2>2, <2>3, <2>4 DEF Separate
  <1>16. \A m \in P : m # q => NodesOf(new, G[m]) = NodesOf(nxt, H[m]) /\ LastOf(new, G[m]) = LastOf(nxt, H[m])
    BY <1>1, <1>12, <1>15 DEF LastOf
  <1>17. NodesOf(new, G[q]) = NodesOf(nxt, H[q]) \cup Members(t) /\ LastOf(new, G[q]) = t[Len(t)]
    BY <1>1, <1>9, <1>12, <1>15 DEF LastOf, s
  <1>18. \A n \in Nodes \ Members(t) : nxt[n] # Null => new[n] = nxt[n]
    BY <1>7, <1>10
  <1>19. \A n \in Members(t) : new[n] = mem[n]
    BY <1>5, <1>6, <1>7, <1>10 DEF s
  <1> QED
    BY <1>10, <1>15, <1>16, <1>17, <1>18, <1>19

\* Nobody holds a node.
LEMMA SeparateEmpty ==
  ASSUME NEW P, NEW nxt, NEW H, H = [l \in P |-> Null]
  PROVE  Separate(P, H, nxt) /\ \A l \in P : NodesOf(nxt, H[l]) = {}
  <1> DEFINE none == <<>>
             K == [l \in P |-> none]
  <1>1. IsChain(nxt, none) /\ PointerTo(none) = Null /\ Members(none) = {} /\ none \in Seq(Nodes)
    BY EmptyChain
  <1> HIDE DEF none
  <1>2. H \in [P -> Nodes \cup {Null}] /\ \A l \in P : H[l] = Null
    OBVIOUS
  <1>3. K \in [P -> Seq(Nodes)] /\ \A l \in P : K[l] = none
    BY <1>1
  <1> HIDE DEF K
  <1>4. \A l \in P : IsChain(nxt, K[l]) /\ H[l] = PointerTo(K[l]) /\ Members(K[l]) = {}
    BY ONLY <1>1, <1>2, <1>3
  <1>5. Separate(P, H, nxt) /\ \A l \in P : NodesOf(nxt, H[l]) = Members(K[l])
    BY <1>2, <1>3, <1>4, SeparateChains
  <1> QED
    BY <1>4, <1>5

\* Writes to the `next` fields of nodes that are in no list.
LEMMA SeparateKept ==
  ASSUME NEW P, NEW H, NEW nxt, Separate(P, H, nxt), NEW new,
         \A m \in P : \A n \in NodesOf(nxt, H[m]) : new[n] = nxt[n]
  PROVE  /\ Separate(P, H, new)
         /\ \A m \in P : NodesOf(new, H[m]) = NodesOf(nxt, H[m])
  <1> DEFINE M == [m \in P |-> ListOf(nxt, H[m])]
  <1>1. \A m \in P : M[m] = ListOf(nxt, H[m]) /\ NodesOf(nxt, H[m]) = Members(M[m])
    BY DEF NodesOf, Members
  <1> HIDE DEF M
  <1>3. /\ H \in [P -> Nodes \cup {Null}]
        /\ \A m \in P : IsChain(nxt, M[m]) /\ H[m] = PointerTo(M[m])
        /\ \A m, k \in P : m # k => Members(M[m]) \cap Members(M[k]) = {}
    BY <1>1 DEF Separate
  <1>4. \A m \in P : IsChain(new, M[m])
    BY <1>1, <1>3, ChainKept
  <1>6. \A m \in P : ListOf(new, H[m]) = M[m]
    BY <1>3, <1>4, ListOfChain
  <1>7. \A m \in P : NodesOf(new, H[m]) = Members(M[m])
    BY <1>6 DEF NodesOf, Members
  <1> QED
    BY <1>1, <1>3, <1>4, <1>6, <1>7 DEF Separate

\* A node that is in no list and points to the first node of list q becomes the
\* first one.
LEMMA SeparatePush ==
  ASSUME NEW P, NEW H, NEW nxt \in [Nodes -> Nodes \cup {Null}], Separate(P, H, nxt), NEW q \in P,
         NEW G \in [P -> Nodes \cup {Null}], G[q] # Null, nxt[G[q]] = H[q],
         \A m \in P : G[q] \notin NodesOf(nxt, H[m]), \A m \in P : m # q => G[m] = H[m]
  PROVE  /\ Separate(P, G, nxt)
         /\ NodesOf(nxt, G[q]) = NodesOf(nxt, H[q]) \cup {G[q]}
  <1> DEFINE n == G[q]
  <1> n \in Nodes /\ nxt[n] = H[q] /\ G[q] = n /\ \A m \in P : n \notin NodesOf(nxt, H[m])
    OBVIOUS
  <1> HIDE DEF n
  <1> DEFINE M == [m \in P |-> ListOf(nxt, H[m])]
             s == M[q]
             o == <<n>>
             c == o \o s
             K == [M EXCEPT ![q] = c]
             old == [nxt EXCEPT ![n] = Null]
  <1>1. \A m \in P : M[m] = ListOf(nxt, H[m]) /\ NodesOf(nxt, H[m]) = Members(M[m])
    BY DEF NodesOf, Members
  <1>2. DOMAIN M = P /\ M = [m \in P |-> M[m]]
    OBVIOUS
  <1> HIDE DEF M
  <1>3. /\ H \in [P -> Nodes \cup {Null}]
        /\ \A m \in P : IsChain(nxt, M[m]) /\ H[m] = PointerTo(M[m])
        /\ \A m, k \in P : m # k => Members(M[m]) \cap Members(M[k]) = {}
    BY <1>1 DEF Separate
  <1>4. \A m \in P : M[m] \in Seq(Nodes) /\ n \notin Members(M[m])
    BY <1>1, <1>3 DEF IsChain
  <1>5. o \in Seq(Nodes) /\ Len(o) = 1 /\ o[1] = n /\ o # <<>>
    OBVIOUS
  <1>6. /\ old \in [Nodes -> Nodes \cup {Null}] /\ old[n] = Null
        /\ \A x \in Nodes : x # n => old[x] = nxt[x]
        /\ nxt = [old EXCEPT ![n] = H[q]]
    OBVIOUS
  <1>7. c = o \o s
    OBVIOUS
  <1> HIDE DEF o, old, s, c
  <1>8. IsChain(old, o) /\ Members(o) = {n} /\ PointerTo(o) = n
    BY <1>5, <1>6 DEF IsChain, NoRepeats, Members, PointerTo
  <1>9. IsChain(nxt, c) /\ PointerTo(c) = n /\ Members(c) = Members(s) \cup {n} /\ c \in Seq(Nodes)
    <2>1. s \in Seq(Nodes) /\ IsChain(nxt, s) /\ H[q] = PointerTo(s) /\ n \notin Members(s)
      BY <1>3, <1>4 DEF s
    <2>2. CASE s = <<>>
      <3>1. H[q] = Null /\ Members(s) = {}
        BY <2>1, <2>2, EmptyChain
      <3>2. c = o
        BY <1>5, <1>7, <2>2
      <3>3. IsChain(nxt, o)
        BY <1>5, <3>1 DEF IsChain, NoRepeats
      <3> QED
        BY <1>5, <1>8, <3>1, <3>2, <3>3
    <2>3. CASE s # <<>>
      <3>1. \A x \in Members(s) : old[x] = nxt[x]
        BY <1>6, <2>1, MembersAreNodes
      <3>2. IsChain(old, s)
        BY <2>1, <3>1, ChainKept
      <3>3. Members(o) \cap Members(s) = {}
        BY <1>8, <2>1
      <3> old \in [Nodes -> Nodes \cup {Null}]
        BY <1>6
      <3>4. /\ IsChain([old EXCEPT ![o[Len(o)]] = PointerTo(s)], o \o s)
            /\ PointerTo(o \o s) = PointerTo(o) /\ Members(o \o s) = Members(o) \cup Members(s)
        BY <1>5, <1>8, <2>3, <3>2, <3>3, ConcatChain
      <3>5. [old EXCEPT ![o[Len(o)]] = PointerTo(s)] = nxt
        BY <1>5, <1>6, <2>1
      <3> QED
        BY <1>7, <1>8, <3>4, <3>5 DEF IsChain
    <2> QED
      BY <2>2, <2>3
  <1>10. K \in [P -> Seq(Nodes)] /\ K[q] = c /\ \A m \in P : m # q => K[m] = M[m]
    BY <1>2, <1>4, <1>9
  <1> HIDE DEF K
  <1>11. \A m \in P : IsChain(nxt, K[m]) /\ G[m] = PointerTo(K[m])
    BY <1>3, <1>9, <1>10
  <1>12. ASSUME NEW m \in P, NEW k \in P, m # k PROVE Members(K[m]) \cap Members(K[k]) = {}
    <2>1. Members(M[m]) \cap Members(M[k]) = {} /\ n \notin Members(M[m]) /\ n \notin Members(M[k])
      BY <1>3, <1>4, <1>12
    <2>2. CASE m = q
      BY <1>9, <1>10, <1>12, <2>1, <2>2 DEF s
    <2>3. CASE k = q
      BY <1>9, <1>10, <1>12, <2>1, <2>3 DEF s
    <2> QED
      BY <1>10, <2>1, <2>2, <2>3
  <1>13. /\ Separate(P, G, nxt)
         /\ \A m \in P : ListOf(nxt, G[m]) = K[m] /\ NodesOf(nxt, G[m]) = Members(K[m])
    <2>1. \A m, k \in P : m # k => Members(K[m]) \cap Members(K[k]) = {}
      BY <1>12
    <2>2. G \in [P -> Nodes \cup {Null}] /\ K \in [P -> Seq(Nodes)]
      BY <1>10
    <2>3. \A m \in P : ListOf(nxt, G[m]) = K[m]
      BY <1>11, ListOfChain
    <2>4. \A m \in P : NodesOf(nxt, G[m]) = Members(K[m])
      BY <2>3 DEF NodesOf, Members
    <2> QED
      BY <1>11, <2>1, <2>2, <2>3, <2>4 DEF Separate
  <1> QED
    BY <1>1, <1>9, <1>10, <1>13 DEF s
=============================================================================
