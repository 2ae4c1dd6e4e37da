------------------------ MODULE StackResourceProofs ------------------------
(***************************************************************************)
(* Proofs about StackResource, for frames of any sizes, any alignments and *)
(* any number of frames and chunks: frames that are alive do not overlap   *)
(* and lie in chunks that are in use, and every chunk is in use or in the  *)
(* freelist, once.                                                         *)
(***************************************************************************)
EXTENDS MCGenerators, FiniteSetTheorems, SequenceTheorems, TLAPS

\* The lists of ListProofs, here of chunks of the heap.
LP == INSTANCE ListProofs WITH Nodes <- S!Chunks, Null <- 0

\* Where the headers h lead, and what is known of the chunks in use: those of s and
\* the initial buffer.
Before(h)      == [k \in S!Chunks |-> h[k].c]
Marks(x, h, s) == {x} \cup {h[k] : k \in LP!Members(s)}

Mark  == [c : {0} \cup S!Chunks, m : Nat]
Frame == [c : {0} \cup S!Chunks, m : Nat, size : Sizes]

\* The frames of which the resource knows: deallocate has yet to find the last one.
Known == IF pc = "deallocate" THEN Append(live, arg) ELSE live

\* Chunk a of s, or the initial buffer, was not begun later than chunk b.
NotNewer(s, a, b) ==
  a = 0 \/ \E x, y \in 1 .. Len(s) : s[x] = a /\ s[y] = b /\ y <= x

\* The frames in chunk c lie one behind the other from b on, until m.
Gapless(b, frames, c, m) ==
  /\ \A i \in 1 .. Len(frames) : frames[i].c = c =>
       /\ b <= frames[i].m /\ S!EndOf(frames[i]) <= m
       /\ \/ frames[i].m = b
          \/ \E j \in 1 .. Len(frames) : frames[j].c = c /\ j < i /\ S!EndOf(frames[j]) = frames[i].m
  /\ \/ m = b
     \/ \E j \in 1 .. Len(frames) : frames[j].c = c /\ S!EndOf(frames[j]) = m
-----------------------------------------------------------------------------
(***************************************************************************)
(* The inductive invariant, for the sequence s of the chunks in use.       *)
(***************************************************************************)
Types ==
  /\ cur \in Mark /\ hdr \in [S!Chunks -> Mark]
  /\ cap \in [{0} \cup S!Chunks -> Nat]
  /\ freelist \in Seq(S!Chunks)
  /\ live \in Seq(Frame) /\ kept \in Nat /\ kept % Align = 0
  /\ pc \in {"idle", "deallocate", "reuse_memory", "~stack_resource", "destroyed"}
  /\ pc = "deallocate" => arg \in Frame
  /\ pc \in {"reuse_memory", "~stack_resource", "destroyed"} => live = <<>>

\* The headers chain the chunks in use, from the current one to the initial buffer.
Linked(x, h, s) == LP!IsChain(Before(h), s) /\ x.c = LP!PointerTo(s)

\* The others are in the freelist, empty.  Chunks are numbered as they are made.
Shared(s, fl, h, hp) ==
  /\ LP!NoRepeats(fl) /\ LP!Members(s) \cap LP!Members(fl) = {}
  /\ LP!Members(s) \cup LP!Members(fl) = hp
  /\ \A k \in LP!Members(fl) : h[k] = S!At(k, 0)
  /\ \E n \in 0 .. MaxChunks : hp = 1 .. n

\* What is used of a chunk ends in it, and frames can begin there.
Marked(x, h, s, cp) == \A u \in Marks(x, h, s) : u.m <= cp[u.c] /\ u.m % Align = 0

\* Frames lie in chunks that are in use, later ones in chunks that are not older,
\* and behind the earlier ones of the same chunk.
Placed(s, frames) ==
  /\ \A i \in 1 .. Len(frames) : /\ frames[i].c \in {0} \cup LP!Members(s)
                                 /\ frames[i].m % Align = 0
  /\ \A i, j \in 1 .. Len(frames) :
       i < j => /\ NotNewer(s, frames[i].c, frames[j].c)
                /\ frames[i].c = frames[j].c => S!EndOf(frames[i]) <= frames[j].m

\* Every byte in use is a byte of one of them.
Tiled(x, h, s, frames, b) ==
  \A u \in Marks(x, h, s) : Gapless(IF u.c = 0 THEN b ELSE 0, frames, u.c, u.m)

Good(s) ==
  /\ Types /\ Linked(cur, hdr, s) /\ Shared(s, freelist, hdr, heap) /\ Marked(cur, hdr, s, cap)
  /\ Placed(s, Known)
  /\ pc \in {"idle", "deallocate"} => Tiled(cur, hdr, s, Known, kept)
  /\ pc = "destroyed" => heap = {}

Inv == \E s : Good(s)
-----------------------------------------------------------------------------
(***************************************************************************)
(* Arithmetic: what is aligned.                                            *)
(***************************************************************************)
\* Division with remainder.
LEMMA Division ==
  ASSUME NEW n \in Nat, NEW a \in Nat \ {0}
  PROVE  n = a * (n \div a) + (n % a) /\ n % a \in 0 .. a - 1 /\ n \div a \in Nat
  OBVIOUS

\* The remainder is unique.
LEMMA Remainder ==
  ASSUME NEW a \in Nat \ {0}, NEW k \in Nat, NEW j \in Nat, NEW r \in 0 .. a - 1, k * a = j * a + r
  PROVE  r = 0
  OBVIOUS

\* A multiple of a is aligned.
LEMMA Multiple ==
  ASSUME NEW k \in Nat, NEW a \in Nat \ {0}
  PROVE  (k * a) % a = 0 /\ k * a \in Nat
  <1> DEFINE n == k * a
  <1>1. n \in Nat
    OBVIOUS
  <1>2. n = a * (n \div a) + (n % a) /\ n % a \in 0 .. a - 1 /\ n \div a \in Nat
    BY <1>1, Division
  <1>3. a * (n \div a) = (n \div a) * a
    BY <1>2
  <1>4. n = k * a
    OBVIOUS
  <1> HIDE DEF n
  <1>5. n % a = 0
    BY <1>2, <1>3, <1>4, Remainder
  <1> QED
    BY <1>1, <1>4, <1>5

\* aligned(): enough, and aligned.
LEMMA RoundUpFacts ==
  ASSUME NEW n \in Nat, NEW a \in Nat \ {0}
  PROVE  S!RoundUp(n, a) \in Nat /\ n <= S!RoundUp(n, a) /\ S!RoundUp(n, a) % a = 0
  <1> DEFINE k == (n + a - 1) \div a
  <1>1. n + a - 1 \in Nat
    OBVIOUS
  <1>2. k \in Nat /\ n + a - 1 = a * k + ((n + a - 1) % a) /\ (n + a - 1) % a \in 0 .. a - 1
    BY <1>1, Division
  <1>3. S!RoundUp(n, a) = k * a
    BY DEF S!RoundUp
  <1> HIDE DEF k
  <1>4. (k * a) % a = 0 /\ k * a \in Nat
    BY <1>2, Multiple
  <1>5. a * k = k * a
    BY <1>2
  <1>6. n <= k * a
    BY <1>2, <1>4, <1>5
  <1> QED
    BY <1>3, <1>4, <1>6

\* What lies an aligned distance behind an aligned place is aligned.
LEMMA SumAligned ==
  ASSUME NEW x \in Nat, NEW y \in Nat, NEW a \in Nat \ {0}, x % a = 0, y % a = 0
  PROVE  (x + y) % a = 0
  <1> DEFINE i == x \div a
             j == y \div a
  <1>1. x = a * i /\ i \in Nat
    BY Division
  <1>2. y = a * j /\ j \in Nat
    BY Division
  <1> HIDE DEF i, j
  <1>3. x + y = (i + j) * a /\ i + j \in Nat
    BY <1>1, <1>2
  <1>4. ((i + j) * a) % a = 0
    BY <1>3, Multiple
  <1> QED
    BY <1>3, <1>4

\* The stronger alignment implies the weaker one.
LEMMA WeakerAlignment ==
  ASSUME NEW x \in Nat, NEW b \in Nat \ {0}, NEW a \in Nat \ {0}, x % b = 0, b % a = 0
  PROVE  x % a = 0
  <1> DEFINE i == x \div b
             j == b \div a
  <1>1. x = b * i /\ i \in Nat
    BY Division
  <1>2. b = a * j /\ j \in Nat
    BY Division
  <1> HIDE DEF i, j
  <1>3. i * j \in Nat
    BY <1>1, <1>2
  <1>4. x = (i * j) * a
    BY <1>1, <1>2
  <1>5. ((i * j) * a) % a = 0
    BY <1>3, Multiple
  <1> QED
    BY <1>4, <1>5

\* What operator new and allocate make of the size of a frame.
LEMMA SizeFacts ==
  ASSUME S!ConstantsAreSane, NEW n \in Sizes
  PROVE  /\ S!OnFrame(n) \in Nat /\ n <= S!OnFrame(n) /\ S!OnFrame(n) % AlignOfR = 0
         /\ S!FrameBytes(n) = S!OnFrame(n) + SizeOfR /\ S!FrameBytes(n) \in Nat \ {0}
         /\ S!Aligned(S!FrameBytes(n)) \in Nat \ {0} /\ S!FrameBytes(n) <= S!Aligned(S!FrameBytes(n))
         /\ S!Aligned(S!FrameBytes(n)) % Align = 0
  <1>1. /\ S!OnFrame(n) \in Nat /\ n <= S!OnFrame(n) /\ S!OnFrame(n) % AlignOfR = 0
    BY RoundUpFacts DEF S!ConstantsAreSane, S!OnFrame
  <1>2. S!FrameBytes(n) = S!OnFrame(n) + SizeOfR /\ S!FrameBytes(n) \in Nat \ {0}
    BY <1>1 DEF S!ConstantsAreSane, S!FrameBytes
  <1>3. /\ S!Aligned(S!FrameBytes(n)) \in Nat /\ S!FrameBytes(n) <= S!Aligned(S!FrameBytes(n))
        /\ S!Aligned(S!FrameBytes(n)) % Align = 0
    BY <1>2, RoundUpFacts DEF S!ConstantsAreSane, S!Aligned
  <1> QED
    BY <1>1, <1>2, <1>3
-----------------------------------------------------------------------------
(***************************************************************************)
(* Chunks: the chain of headers and the freelist.                          *)
(***************************************************************************)
\* The operators of the libraries, as the instance S calls them.
LEMMA LibraryNames ==
  ASSUME NEW s
  PROVE  /\ S!ToSet(s) = ToSet(s) /\ S!Front(s) = Front(s) /\ S!Last(s) = Last(s)
         /\ \A i : S!RemoveAt(s, i) = RemoveAt(s, i)
         /\ S!Cardinality(s) = Cardinality(s)
  <1>1. S!ToSet(s) = ToSet(s) /\ S!Front(s) = Front(s) /\ S!Last(s) = Last(s)
    BY DEF S!ToSet, ToSet, S!Front, Front, S!Last, Last
  <1>2. \A i : S!RemoveAt(s, i) = RemoveAt(s, i)
    BY DEF S!RemoveAt, RemoveAt
  <1>3. S!Cardinality(s) = Cardinality(s)
    BY DEF S!Cardinality, Cardinality
  <1> QED
    BY <1>1, <1>2, <1>3

\* The assumptions of ListProofs.
LEMMA ListsApply == ASSUME S!ConstantsAreSane PROVE LP!IsFiniteSet(S!Chunks) /\ 0 \notin S!Chunks
  <1>1. IsFiniteSet(S!Chunks)
    BY FS_Interval DEF S!ConstantsAreSane, S!Chunks
  <1> QED
    BY <1>1 DEF LP!IsFiniteSet, IsFiniteSet, S!Chunks

\* The sets of the elements of a sequence.
LEMMA MembersFacts ==
  ASSUME NEW T, NEW s \in Seq(T)
  PROVE  /\ LP!Members(s) = ToSet(s) /\ LP!Members(s) \subseteq T /\ Len(s) \in Nat
         /\ \A i \in 1 .. Len(s) : s[i] \in T /\ s[i] \in LP!Members(s)
         /\ \A x \in LP!Members(s) : \E i \in 1 .. Len(s) : s[i] = x
         /\ LP!Members(s) = {} <=> s = <<>>
  <1>1. Len(s) \in Nat /\ DOMAIN s = 1 .. Len(s) /\ \A i \in 1 .. Len(s) : s[i] \in T
    OBVIOUS
  <1>2. s # <<>> => 1 \in 1 .. Len(s)
    BY <1>1
  <1> QED
    BY <1>1, <1>2 DEF LP!Members, ToSet

\* The walk of the model along a chain.
LEMMA UsedIsChain ==
  ASSUME S!ConstantsAreSane, NEW s, Linked(cur, hdr, s)
  PROVE  S!Used = s
  <1>1. S!Used = LP!ListOf(Before(hdr), cur.c)
    BY DEF S!Used, Before, S!Headers!ListOf, LP!ListOf, S!Headers!Cardinality, LP!Cardinality
  <1> QED
    BY <1>1, ListsApply, LP!ListOfChain DEF Linked

\* A chunk before the others.
LEMMA PushChain ==
  ASSUME S!ConstantsAreSane, NEW h, NEW s, LP!IsChain(Before(h), s), NEW k \in S!Chunks, k \notin LP!Members(s),
         NEW x, x.c = LP!PointerTo(s), NEW g, g[k] = x, \A j \in S!Chunks : j # k => g[j] = h[j]
  PROVE  /\ LP!IsChain(Before(g), <<k>> \o s) /\ LP!PointerTo(<<k>> \o s) = k
         /\ LP!Members(<<k>> \o s) = LP!Members(s) \cup {k}
         /\ Len(<<k>> \o s) = Len(s) + 1
         /\ \A i \in 1 .. Len(s) : (<<k>> \o s)[i + 1] = s[i]
         /\ (<<k>> \o s)[1] = k
  <1> DEFINE t == <<k>> \o s
  <1>1. s \in Seq(S!Chunks) /\ Len(s) \in Nat /\ LP!NoRepeats(s)
    BY DEF LP!IsChain
  <1>2. t \in Seq(S!Chunks) /\ Len(t) = Len(s) + 1 /\ t[1] = k /\ \A i \in 1 .. Len(s) : t[i + 1] = s[i]
    BY <1>1
  <1>3. \A i \in 1 .. Len(t) : i # 1 => i - 1 \in 1 .. Len(s) /\ i = (i - 1) + 1
    BY <1>1, <1>2
  <1>4. \A i \in 1 .. Len(s) : s[i] \in S!Chunks /\ s[i] # k
    BY <1>1 DEF LP!Members
  <1> HIDE DEF t
  <1>5. \A i \in 1 .. Len(t) : i # 1 => t[i] = s[i - 1] /\ t[i] # k
    <2> SUFFICES ASSUME NEW i \in 1 .. Len(t), i # 1 PROVE t[i] = s[i - 1] /\ t[i] # k
      OBVIOUS
    <2>1. i - 1 \in 1 .. Len(s) /\ (i - 1) + 1 = i
      BY <1>3
    <2>2. t[(i - 1) + 1] = s[i - 1]
      BY <2>1, <1>2
    <2> QED
      BY <2>1, <2>2, <1>4
  <1>6. LP!NoRepeats(t)
    <2> SUFFICES ASSUME NEW i \in 1 .. Len(t), NEW j \in 1 .. Len(t), t[i] = t[j]
                 PROVE  i = j
      BY DEF LP!NoRepeats
    <2>1. CASE i = 1 \/ j = 1
      BY <2>1, <1>2, <1>5
    <2>2. CASE i # 1 /\ j # 1
      <3>1. s[i - 1] = s[j - 1] /\ i - 1 \in 1 .. Len(s) /\ j - 1 \in 1 .. Len(s)
        BY <2>2, <1>3, <1>5
      <3>2. i - 1 = j - 1
        BY <3>1, <1>1 DEF LP!NoRepeats
      <3> QED
        BY <3>2
    <2> QED
      BY <2>1, <2>2
  <1>7. ASSUME NEW i \in 1 .. Len(t)
        PROVE  Before(g)[t[i]] = IF i = Len(t) THEN 0 ELSE t[i + 1]
    <2>1. CASE i = 1
      <3>1. Before(g)[t[i]] = x.c
        BY <2>1, <1>2 DEF Before
      <3>2. CASE s = <<>>
        BY <3>1, <3>2, <2>1, <1>2 DEF LP!PointerTo
      <3>3. CASE s # <<>>
        <4>1. Len(t) # 1 /\ t[2] = s[1]
          BY <3>3, <1>1, <1>2
        <4> QED
          BY <4>1, <3>1, <3>3, <2>1 DEF LP!PointerTo
      <3> QED
        BY <3>2, <3>3
    <2>2. CASE i # 1
      <3>1. i - 1 \in 1 .. Len(s) /\ t[i] = s[i - 1] /\ t[i] # k /\ t[i] \in S!Chunks
        BY <2>2, <1>3, <1>4, <1>5
      <3>2. Before(g)[t[i]] = Before(h)[s[i - 1]]
        BY <3>1 DEF Before
      <3>3. Before(h)[s[i - 1]] = IF i - 1 = Len(s) THEN 0 ELSE s[i - 1 + 1]
        BY <3>1 DEF LP!IsChain
      <3>4. i - 1 = Len(s) <=> i = Len(t)
        BY <1>1, <1>2
      <3>5. i # Len(t) => t[i + 1] = s[i] /\ s[i - 1 + 1] = s[i]
        BY <1>1, <1>2, <3>1
      <3> QED
        BY <3>2, <3>3, <3>4, <3>5
    <2> QED
      BY <2>1, <2>2
  <1>8. LP!PointerTo(t) = k
    BY <1>2 DEF LP!PointerTo
  <1>9. LP!Members(t) = LP!Members(s) \cup {k}
    <2>1. \A i \in 1 .. Len(s) : i + 1 \in 1 .. Len(t) /\ t[i + 1] = s[i]
      BY <1>1, <1>2
    <2>2. 1 \in 1 .. Len(t)
      BY <1>1, <1>2
    <2>3. \A i \in 1 .. Len(t) : t[i] \in LP!Members(s) \cup {k}
      BY <1>2, <1>3, <1>5 DEF LP!Members
    <2>4. LP!Members(t) \subseteq LP!Members(s) \cup {k}
      BY <2>3 DEF LP!Members
    <2>5. k \in LP!Members(t)
      BY <2>2, <1>2 DEF LP!Members
    <2>6. \A y \in LP!Members(s) : y \in LP!Members(t)
      BY <2>1 DEF LP!Members
    <2> QED
      BY <2>4, <2>5, <2>6
  <1> QED
    BY <1>2, <1>6, <1>7, <1>8, <1>9 DEF LP!IsChain, t

\* The chunk at the front is dropped.
LEMMA PopChain ==
  ASSUME S!ConstantsAreSane, NEW h, NEW s, LP!IsChain(Before(h), s), s # <<>>, NEW g,
         \A j \in S!Chunks : j # s[1] => g[j] = h[j]
  PROVE  /\ LP!IsChain(Before(g), Tail(s)) /\ LP!PointerTo(Tail(s)) = h[s[1]].c
         /\ LP!Members(Tail(s)) = LP!Members(s) \ {s[1]} /\ s[1] \in S!Chunks /\ s[1] \in LP!Members(s)
         /\ Len(Tail(s)) = Len(s) - 1 /\ Len(s) \in Nat \ {0}
         /\ \A i \in 1 .. Len(s) : i # 1 => i - 1 \in 1 .. Len(Tail(s)) /\ Tail(s)[i - 1] = s[i]
  <1>1. s \in Seq(S!Chunks) /\ Len(s) \in Nat \ {0} /\ s[1] \in S!Chunks /\ LP!PointerTo(s) = s[1]
    BY DEF LP!IsChain, LP!PointerTo
  <1>2. /\ LP!IsChain(Before(h), Tail(s))
        /\ LP!PointerTo(Tail(s)) = Before(h)[LP!PointerTo(s)]
        /\ LP!Members(Tail(s)) = LP!Members(s) \ {LP!PointerTo(s)}
    BY ListsApply, LP!TailChain
  <1>3. \A n \in LP!Members(Tail(s)) : Before(g)[n] = Before(h)[n]
    <2>1. LP!Members(s) \subseteq S!Chunks
      BY <1>1, MembersFacts
    <2> QED
      BY <2>1, <1>1, <1>2 DEF Before
  <1>4. LP!IsChain(Before(g), Tail(s))
    BY <1>2, <1>3, ListsApply, LP!ChainKept
  <1>5. Before(h)[s[1]] = h[s[1]].c
    BY <1>1 DEF Before
  <1>6. s[1] \in LP!Members(s)
    BY <1>1, MembersFacts
  <1>7. /\ Len(Tail(s)) = Len(s) - 1
        /\ \A i \in 1 .. Len(s) : i # 1 => i - 1 \in 1 .. Len(Tail(s)) /\ Tail(s)[i - 1] = s[i]
    BY <1>1
  <1> QED
    BY <1>1, <1>2, <1>4, <1>5, <1>6, <1>7

\* The chunks of the marks: each one in use has one, and that of the current chunk
\* is in no header.
LEMMA MarksFacts ==
  ASSUME S!ConstantsAreSane, NEW x \in Mark, NEW h \in [S!Chunks -> Mark], NEW s, Linked(x, h, s)
  PROVE  /\ \A k \in LP!Members(s) : k \in S!Chunks /\ h[k].c # x.c /\ h[k] \in Mark
         /\ \A u \in Marks(x, h, s) : u \in Mark /\ u.c \in {0} \cup LP!Members(s)
         /\ \A c \in {0} \cup LP!Members(s) : \E u \in Marks(x, h, s) : u.c = c
         /\ s \in Seq(S!Chunks)
         /\ x.c = 0 <=> s = <<>>
         /\ s # <<>> => s[1] = x.c /\ x.c \in LP!Members(s)
  <1>1. /\ s \in Seq(S!Chunks) /\ Len(s) \in Nat /\ LP!NoRepeats(s) /\ x.c = LP!PointerTo(s)
        /\ \A i \in 1 .. Len(s) : s[i] \in S!Chunks /\ s[i] # 0
    BY ListsApply DEF Linked, LP!IsChain
  <1>2. \A i \in 1 .. Len(s) : h[s[i]].c = IF i = Len(s) THEN 0 ELSE s[i + 1]
    BY <1>1 DEF Linked, LP!IsChain, Before
  <1>3. s # <<>> => s[1] = x.c /\ 1 \in 1 .. Len(s) /\ Len(s) \in 1 .. Len(s)
    BY <1>1 DEF LP!PointerTo
  <1>4. x.c = 0 <=> s = <<>>
    BY <1>1, <1>3 DEF LP!PointerTo
  <1>5. \A i \in 1 .. Len(s) : i # Len(s) => i + 1 \in 1 .. Len(s) /\ i + 1 # 1
    BY <1>1
  <1>6. ASSUME NEW i \in 1 .. Len(s) PROVE h[s[i]].c # x.c /\ h[s[i]].c \in {0} \cup LP!Members(s)
    <2>1. s # <<>>
      BY <1>1
    <2> QED
      BY <2>1, <1>1, <1>2, <1>3, <1>5 DEF LP!NoRepeats, LP!Members
  <1>7. \A k \in LP!Members(s) : \E i \in 1 .. Len(s) : k = s[i]
    BY DEF LP!Members
  <1>8. \A k \in LP!Members(s) : k \in S!Chunks /\ h[k] \in Mark /\ h[k].c # x.c /\ h[k].c \in {0} \cup LP!Members(s)
    BY <1>1, <1>6, <1>7
  <1>9. x.c \in {0} \cup LP!Members(s)
    BY <1>3, <1>4 DEF LP!Members
  <1>10. ASSUME NEW c \in {0} \cup LP!Members(s) PROVE \E u \in Marks(x, h, s) : u.c = c
    <2>1. \A i \in 1 .. Len(s) : h[s[i]] \in Marks(x, h, s)
      BY DEF Marks, LP!Members
    <2>2. x \in Marks(x, h, s)
      BY DEF Marks
    <2>3. CASE c = 0 /\ s = <<>>
      BY <2>2, <2>3, <1>4
    <2>4. CASE c = 0 /\ s # <<>>
      BY <2>1, <2>4, <1>2, <1>3
    <2>5. CASE c # 0
      <3>1. PICK i \in 1 .. Len(s) : c = s[i]
        BY <2>5, <1>7
      <3>2. CASE i = 1
        BY <3>1, <3>2, <2>2, <1>3
      <3>3. CASE i # 1
        <4>1. i - 1 \in 1 .. Len(s) /\ i - 1 # Len(s) /\ (i - 1) + 1 = i
          BY <3>3, <1>1
        <4>2. h[s[i - 1]].c = s[i]
          BY <4>1, <1>2
        <4> QED
          BY <4>1, <4>2, <3>1, <2>1
      <3> QED
        BY <3>2, <3>3
    <2> QED
      BY <2>3, <2>4, <2>5
  <1>11. \A u \in Marks(x, h, s) : u \in Mark /\ u.c \in {0} \cup LP!Members(s)
    BY <1>8, <1>9 DEF Marks
  <1>12. s # <<>> => x.c \in LP!Members(s)
    BY <1>3 DEF LP!Members
  <1> QED
    BY <1>1, <1>3, <1>4, <1>8, <1>10, <1>11, <1>12

\* take_atleast takes one chunk from the freelist.
LEMMA RemoveFacts ==
  ASSUME NEW s \in Seq(S!Chunks), LP!NoRepeats(s), NEW i \in 1 .. Len(s)
  PROVE  /\ RemoveAt(s, i) \in Seq(S!Chunks) /\ LP!NoRepeats(RemoveAt(s, i))
         /\ LP!Members(RemoveAt(s, i)) = LP!Members(s) \ {s[i]}
  <1> DEFINE t == RemoveAt(s, i)
  <1>1. Len(s) \in Nat /\ \A j \in 1 .. Len(s) : s[j] \in S!Chunks
    OBVIOUS
  <1> DEFINE a == SubSeq(s, 1, i - 1)
             b == SubSeq(s, i + 1, Len(s))
  <1>2. a \in Seq(S!Chunks) /\ Len(a) = i - 1 /\ \A j \in 1 .. i - 1 : a[j] = s[j]
    BY <1>1
  <1>3. b \in Seq(S!Chunks) /\ Len(b) = Len(s) - i /\ \A j \in 1 .. Len(s) - i : b[j] = s[i + j]
    BY <1>1
  <1>4. t = a \o b
    BY DEF RemoveAt
  <1> HIDE DEF a, b
  <1>5. t \in Seq(S!Chunks) /\ Len(t) = Len(s) - 1
    BY <1>1, <1>2, <1>3, <1>4
  <1>6. \A j \in 1 .. Len(s) - 1 : t[j] = IF j < i THEN s[j] ELSE s[j + 1]
    <2> SUFFICES ASSUME NEW j \in 1 .. Len(s) - 1
                 PROVE  t[j] = IF j < i THEN s[j] ELSE s[j + 1]
      OBVIOUS
    <2>1. CASE j < i
      BY <2>1, <1>1, <1>2, <1>3, <1>4
    <2>2. CASE ~(j < i)
      <3>1. j - (i - 1) \in 1 .. Len(s) - i /\ i + (j - (i - 1)) = j + 1 /\ j > i - 1 /\ j <= (i - 1) + (Len(s) - i)
        BY <2>2, <1>1
      <3>2. t[j] = b[j - (i - 1)]
        BY <3>1, <1>1, <1>2, <1>3, <1>4
      <3> QED
        BY <3>1, <3>2, <2>2, <1>3
    <2> QED
      BY <2>1, <2>2
  <1> HIDE DEF t
  <1>7. LP!NoRepeats(t)
    <2> SUFFICES ASSUME NEW j \in 1 .. Len(t), NEW k \in 1 .. Len(t), t[j] = t[k]
                 PROVE  j = k
      BY DEF LP!NoRepeats
    <2> DEFINE jj == IF j < i THEN j ELSE j + 1
               kk == IF k < i THEN k ELSE k + 1
    <2>1. jj \in 1 .. Len(s) /\ kk \in 1 .. Len(s) /\ (jj = kk => j = k)
      BY <1>1, <1>5
    <2>2. t[j] = s[jj] /\ t[k] = s[kk]
      BY <1>5, <1>6
    <2> HIDE DEF jj, kk
    <2> QED
      BY <2>1, <2>2 DEF LP!NoRepeats
  <1>8. ASSUME NEW j \in 1 .. Len(t) PROVE t[j] \in LP!Members(s) \ {s[i]}
    <2> DEFINE jj == IF j < i THEN j ELSE j + 1
    <2>1. jj \in 1 .. Len(s) /\ jj # i
      BY <1>1, <1>5
    <2>2. t[j] = s[jj]
      BY <1>5, <1>6
    <2> HIDE DEF jj
    <2> QED
      BY <2>1, <2>2 DEF LP!NoRepeats, LP!Members
  <1>9. ASSUME NEW j \in 1 .. Len(s), s[j] # s[i] PROVE s[j] \in LP!Members(t)
    <2> DEFINE n == IF j < i THEN j ELSE j - 1
    <2>1. n \in 1 .. Len(t) /\ (IF n < i THEN n ELSE n + 1) = j
      BY <1>1, <1>5, <1>9
    <2>2. t[n] = s[j]
      BY <2>1, <1>5, <1>6
    <2> HIDE DEF n
    <2> QED
      BY <2>1, <2>2 DEF LP!Members
  <1>10. LP!Members(t) \subseteq LP!Members(s) \ {s[i]}
    BY <1>8 DEF LP!Members
  <1>11. LP!Members(s) \ {s[i]} \subseteq LP!Members(t)
    <2>1. \A y \in LP!Members(s) : \E j \in 1 .. Len(s) : y = s[j]
      BY DEF LP!Members
    <2> QED
      BY <2>1, <1>9
  <1> QED
    BY <1>5, <1>7, <1>10, <1>11 DEF t
-----------------------------------------------------------------------------
(***************************************************************************)
(* Frames.                                                                 *)
(***************************************************************************)
\* Where a frame ends.
LEMMA FrameFacts ==
  ASSUME S!ConstantsAreSane, NEW a \in Frame
  PROVE  /\ a.c \in {0} \cup S!Chunks /\ a.m \in Nat /\ a.size \in Sizes
         /\ S!EndOf(a) \in Nat /\ a.m < S!EndOf(a) /\ S!EndOf(a) = a.m + S!Aligned(S!FrameBytes(a.size))
         /\ (a.m % Align = 0 => S!EndOf(a) % Align = 0)
  <1>1. a.m \in Nat /\ a.size \in Sizes /\ a.c \in {0} \cup S!Chunks
    BY DEF Frame
  <1> DEFINE len == S!Aligned(S!FrameBytes(a.size))
  <1>2. len \in Nat \ {0} /\ len % Align = 0
    BY <1>1, SizeFacts
  <1>3. S!EndOf(a) = a.m + len
    BY DEF S!EndOf
  <1>4. a.m % Align = 0 => (a.m + len) % Align = 0
    BY <1>1, <1>2, SumAligned DEF S!ConstantsAreSane
  <1> HIDE DEF len
  <1>5. S!EndOf(a) \in Nat /\ a.m < S!EndOf(a)
    BY <1>1, <1>2, <1>3
  <1> QED
    BY <1>1, <1>3, <1>4, <1>5 DEF len

\* One frame more.
LEMMA AppendFacts ==
  ASSUME NEW T, NEW f \in Seq(T), NEW a \in T
  PROVE  /\ Append(f, a) \in Seq(T) /\ Len(f) \in Nat /\ Len(Append(f, a)) = Len(f) + 1
         /\ \A i \in 1 .. Len(f) : Append(f, a)[i] = f[i] /\ f[i] \in T
         /\ Append(f, a)[Len(f) + 1] = a
         /\ \A i \in 1 .. Len(f) + 1 : i \in 1 .. Len(f) \/ i = Len(f) + 1
         /\ Front(Append(f, a)) = f
  <1>1. /\ Append(f, a) \in Seq(T) /\ Len(f) \in Nat /\ Len(Append(f, a)) = Len(f) + 1
        /\ \A i \in 1 .. Len(f) : Append(f, a)[i] = f[i] /\ f[i] \in T
        /\ Append(f, a)[Len(f) + 1] = a
        /\ \A i \in 1 .. Len(f) + 1 : i \in 1 .. Len(f) \/ i = Len(f) + 1
    OBVIOUS
  <1>2. Front(Append(f, a)) = f
    BY <1>1 DEF Front
  <1> QED
    BY <1>1, <1>2

\* The frame behind the others of its chunk, in the newest one.
LEMMA PlaceMore ==
  ASSUME S!ConstantsAreSane, NEW s \in Seq(S!Chunks), NEW f \in Seq(Frame), NEW a \in Frame, Placed(s, f),
         a.c = LP!PointerTo(s), a.m % Align = 0,
         \A i \in 1 .. Len(f) : f[i].c = a.c => S!EndOf(f[i]) <= a.m
  PROVE  Placed(s, Append(f, a))
  <1> DEFINE g == Append(f, a)
  <1>1. /\ Len(f) \in Nat /\ Len(g) = Len(f) + 1 /\ g[Len(f) + 1] = a
        /\ \A i \in 1 .. Len(f) : g[i] = f[i]
        /\ \A i \in 1 .. Len(f) + 1 : i \in 1 .. Len(f) \/ i = Len(f) + 1
    BY AppendFacts
  <1> HIDE DEF g
  <1>2. Len(s) \in Nat /\ (s = <<>> => a.c = 0) /\ (s # <<>> => a.c = s[1] /\ 1 \in 1 .. Len(s))
    BY DEF LP!PointerTo
  <1>3. a.c \in {0} \cup LP!Members(s)
    BY <1>2 DEF LP!Members
  <1>4. \A i \in 1 .. Len(f) : NotNewer(s, f[i].c, a.c)
    <2> SUFFICES ASSUME NEW i \in 1 .. Len(f), f[i].c # 0 PROVE NotNewer(s, f[i].c, a.c)
      BY DEF NotNewer
    <2>1. f[i].c \in LP!Members(s)
      BY DEF Placed
    <2>2. PICK x \in 1 .. Len(s) : s[x] = f[i].c
      BY <2>1 DEF LP!Members
    <2>3. s # <<>> /\ 1 <= x
      BY <2>2, <1>2
    <2> QED
      BY <2>2, <2>3, <1>2 DEF NotNewer
  <1>5. \A i \in 1 .. Len(g) : g[i].c \in {0} \cup LP!Members(s) /\ g[i].m % Align = 0
    BY <1>1, <1>3 DEF Placed
  <1>6. ASSUME NEW i \in 1 .. Len(g), NEW j \in 1 .. Len(g), i < j
        PROVE  NotNewer(s, g[i].c, g[j].c) /\ (g[i].c = g[j].c => S!EndOf(g[i]) <= g[j].m)
    <2>1. i \in 1 .. Len(f)
      BY <1>1, <1>6
    <2>2. CASE j \in 1 .. Len(f)
      BY <2>1, <2>2, <1>1, <1>6 DEF Placed
    <2>3. CASE j = Len(f) + 1
      BY <2>1, <2>3, <1>1, <1>4
    <2> QED
      BY <2>2, <2>3, <1>1
  <1> QED
    BY <1>5, <1>6 DEF Placed, g

\* One frame less.
LEMMA PlaceLess ==
  ASSUME NEW s, NEW f \in Seq(Frame), NEW a \in Frame, Placed(s, Append(f, a))
  PROVE  Placed(s, f)
  <1> DEFINE g == Append(f, a)
  <1>1. Len(f) \in Nat /\ Len(g) = Len(f) + 1 /\ \A i \in 1 .. Len(f) : g[i] = f[i] /\ i \in 1 .. Len(g)
    BY AppendFacts
  <1> HIDE DEF g
  <1>2. Placed(s, g)
    BY DEF g
  <1> QED
    BY <1>1, <1>2 DEF Placed

\* The frame grows the used part of its chunk.
LEMMA TileMore ==
  ASSUME S!ConstantsAreSane, NEW f \in Seq(Frame), NEW a \in Frame, NEW b \in Nat, NEW c, NEW m \in Nat,
         Gapless(b, f, c, m)
  PROVE  /\ a.c # c => Gapless(b, Append(f, a), c, m)
         /\ a.c = c /\ a.m = m => Gapless(b, Append(f, a), c, S!EndOf(a))
  <1> DEFINE g == Append(f, a)
  <1>1. /\ Len(f) \in Nat /\ Len(g) = Len(f) + 1 /\ g[Len(f) + 1] = a
        /\ \A i \in 1 .. Len(f) : g[i] = f[i] /\ i \in 1 .. Len(g) /\ i < Len(f) + 1 /\ f[i] \in Frame
        /\ \A i \in 1 .. Len(g) : i \in 1 .. Len(f) \/ i = Len(f) + 1
        /\ Len(f) + 1 \in 1 .. Len(g)
    BY AppendFacts
  <1>2. S!EndOf(a) \in Nat /\ a.m < S!EndOf(a) /\ a.m \in Nat
    BY FrameFacts
  <1>3. \A i \in 1 .. Len(f) : S!EndOf(f[i]) \in Nat
    BY <1>1, FrameFacts
  <1> HIDE DEF g
  <1>4. ASSUME a.c # c PROVE Gapless(b, g, c, m)
    BY <1>1, <1>4 DEF Gapless
  <1>5. ASSUME a.c = c, a.m = m PROVE Gapless(b, g, c, S!EndOf(a))
    <2>1. ASSUME NEW i \in 1 .. Len(g), g[i].c = c
          PROVE  /\ b <= g[i].m /\ S!EndOf(g[i]) <= S!EndOf(a)
                 /\ \/ g[i].m = b
                    \/ \E j \in 1 .. Len(g) : g[j].c = c /\ j < i /\ S!EndOf(g[j]) = g[i].m
      <3>1. CASE i \in 1 .. Len(f)
        <4>1. b <= f[i].m /\ S!EndOf(f[i]) <= m /\ g[i] = f[i]
          BY <3>1, <2>1, <1>1 DEF Gapless
        <4>2. S!EndOf(g[i]) <= S!EndOf(a)
          BY <4>1, <3>1, <1>2, <1>3, <1>5
        <4>3. f[i].m = b \/ \E j \in 1 .. Len(f) : f[j].c = c /\ j < i /\ S!EndOf(f[j]) = f[i].m
          BY <4>1, <3>1, <2>1 DEF Gapless
        <4> QED
          BY <4>1, <4>2, <4>3, <1>1
      <3>2. CASE i = Len(f) + 1
        <4>1. m = b \/ \E j \in 1 .. Len(f) : f[j].c = c /\ S!EndOf(f[j]) = m
          BY DEF Gapless
        <4>2. S!EndOf(g[i]) <= S!EndOf(a) /\ g[i].m = m
          BY <3>2, <1>1, <1>2, <1>5
        <4>3. ASSUME NEW j \in 1 .. Len(f), f[j].c = c, S!EndOf(f[j]) = m PROVE b <= m
          <5>1. b <= f[j].m
            BY <4>3 DEF Gapless
          <5>2. f[j] \in Frame
            BY <1>1
          <5>3. f[j].m \in Nat /\ f[j].m < m
            BY <5>2, <4>3, FrameFacts
          <5> QED
            BY <5>1, <5>3
        <4>4. b <= m
          BY <4>1, <4>3
        <4> QED
          BY <4>1, <4>2, <4>4, <3>2, <1>1
      <3> QED
        BY <3>1, <3>2, <1>1
    <2>2. \E j \in 1 .. Len(g) : g[j].c = c /\ S!EndOf(g[j]) = S!EndOf(a)
      BY <1>1, <1>5
    <2> QED
      BY <2>1, <2>2 DEF Gapless
  <1> QED
    BY <1>4, <1>5 DEF g

\* The last frame ends where the used part of its chunk does, and leaves it.
LEMMA TileLess ==
  ASSUME S!ConstantsAreSane, NEW s, NEW f \in Seq(Frame), NEW a \in Frame, Placed(s, Append(f, a)),
         NEW b \in Nat, NEW c, NEW m \in Nat, Gapless(b, Append(f, a), c, m)
  PROVE  /\ a.c # c => Gapless(b, f, c, m)
         /\ a.c = c => Gapless(b, f, c, a.m)
         /\ a.c = c => m = S!EndOf(a)
  <1> DEFINE g == Append(f, a)
  <1>1. /\ Len(f) \in Nat /\ Len(g) = Len(f) + 1 /\ g[Len(f) + 1] = a
        /\ \A i \in 1 .. Len(f) : g[i] = f[i] /\ i \in 1 .. Len(g) /\ i < Len(f) + 1 /\ f[i] \in Frame
        /\ \A i \in 1 .. Len(g) : i \in 1 .. Len(f) \/ i = Len(f) + 1
        /\ Len(f) + 1 \in 1 .. Len(g)
    BY AppendFacts
  <1>2. S!EndOf(a) \in Nat /\ a.m < S!EndOf(a) /\ a.m \in Nat
    BY FrameFacts
  <1>3. \A i \in 1 .. Len(f) : S!EndOf(f[i]) \in Nat
    BY <1>1, FrameFacts
  <1>4. \A i, j \in 1 .. Len(f) : j < i => j # Len(f) + 1
    BY <1>1
  <1>5. \A i \in 1 .. Len(f) : \A j \in 1 .. Len(g) : j < i => j \in 1 .. Len(f)
    BY <1>1
  <1> HIDE DEF g
  <1>6. Gapless(b, g, c, m) /\ Placed(s, g)
    BY DEF g
  <1>7. \A i \in 1 .. Len(f) : f[i].c = c =>
          /\ b <= f[i].m /\ S!EndOf(f[i]) <= m
          /\ \/ f[i].m = b
             \/ \E j \in 1 .. Len(f) : f[j].c = c /\ j < i /\ S!EndOf(f[j]) = f[i].m
    BY <1>1, <1>5, <1>6 DEF Gapless
  <1>8. ASSUME a.c # c PROVE Gapless(b, f, c, m)
    <2>1. m = b \/ \E j \in 1 .. Len(g) : g[j].c = c /\ S!EndOf(g[j]) = m
      BY <1>6 DEF Gapless
    <2>2. m = b \/ \E j \in 1 .. Len(f) : f[j].c = c /\ S!EndOf(f[j]) = m
      BY <2>1, <1>1, <1>8
    <2> QED
      BY <2>2, <1>7 DEF Gapless
  <1>9. ASSUME a.c = c PROVE Gapless(b, f, c, a.m)
    <2>1. \A i \in 1 .. Len(f) : f[i].c = c => S!EndOf(f[i]) <= a.m
      BY <1>1, <1>6, <1>9 DEF Placed
    <2>2. a.m = b \/ \E j \in 1 .. Len(g) : g[j].c = c /\ j < Len(f) + 1 /\ S!EndOf(g[j]) = a.m
      BY <1>1, <1>6, <1>9 DEF Gapless
    <2>3. a.m = b \/ \E j \in 1 .. Len(f) : f[j].c = c /\ S!EndOf(f[j]) = a.m
      BY <2>2, <1>1
    <2> QED
      BY <2>1, <2>3, <1>7 DEF Gapless
  <1>10. ASSUME a.c = c PROVE m = S!EndOf(a)
    <2>1. S!EndOf(a) <= m /\ b <= a.m
      BY <1>1, <1>6, <1>10 DEF Gapless
    <2>2. m # b
      BY <2>1, <1>2, <1>10
    <2>3. PICK j \in 1 .. Len(g) : g[j].c = c /\ S!EndOf(g[j]) = m
      BY <2>2, <1>6 DEF Gapless
    <2>4. CASE j \in 1 .. Len(f)
      <3>1. S!EndOf(f[j]) <= a.m
        BY <2>3, <2>4, <1>1, <1>6, <1>10 DEF Placed
      <3> QED
        BY <3>1, <2>1, <2>3, <2>4, <1>1, <1>2, <1>3
    <2> QED
      BY <2>3, <2>4, <1>1
  <1> QED
    BY <1>8, <1>9, <1>10 DEF g
-----------------------------------------------------------------------------
(***************************************************************************)
(* What a step does to the current chunk, the headers and the frames.      *)
(***************************************************************************)
\* The current chunk x, the headers h, the chunks s in use and the frames f.
Sound(x, h, s, f, b) ==
  /\ x \in Mark /\ h \in [S!Chunks -> Mark] /\ f \in Seq(Frame) /\ b \in Nat
  /\ Linked(x, h, s) /\ Placed(s, f) /\ Tiled(x, h, s, f, b)

\* Chunk k comes before the others, with the first n bytes in use.
Pushed(x, h, s, y, g, k, n) ==
  /\ x \in Mark /\ h \in [S!Chunks -> Mark] /\ Linked(x, h, s)
  /\ k \in S!Chunks /\ k \notin LP!Members(s) /\ y = S!At(k, n)
  /\ g[k] = x /\ \A j \in S!Chunks : j # k => g[j] = h[j]

\* The marks and the chain after a push.
LEMMA PushMarks ==
  ASSUME S!ConstantsAreSane, NEW x, NEW h, NEW s, NEW y, NEW g, NEW k, NEW n, Pushed(x, h, s, y, g, k, n),
         NEW t, t = <<k>> \o s
  PROVE  /\ Linked(y, g, t)
         /\ \A u : u \in Marks(y, g, t) <=> u = y \/ u \in Marks(x, h, s)
         /\ \A j : j \in LP!Members(t) <=> j = k \/ j \in LP!Members(s)
         /\ t \in Seq(S!Chunks)
  <1>1. /\ LP!IsChain(Before(g), <<k>> \o s) /\ LP!PointerTo(<<k>> \o s) = k
        /\ LP!Members(<<k>> \o s) = LP!Members(s) \cup {k}
    BY PushChain DEF Pushed, Linked
  <1>2. y.c = k
    BY DEF Pushed, S!At
  <1>3. \A j \in LP!Members(s) : j \in S!Chunks /\ j # k /\ g[j] = h[j]
    BY MarksFacts DEF Pushed
  <1>4. {g[j] : j \in LP!Members(s) \cup {k}} = {x} \cup {h[j] : j \in LP!Members(s)}
    BY <1>3 DEF Pushed
  <1> QED
    BY <1>1, <1>2, <1>4 DEF Linked, Marks, LP!IsChain

\* Frames stay where they are.
LEMMA PushPlaces ==
  ASSUME S!ConstantsAreSane, NEW x, NEW h, NEW s, NEW y, NEW g, NEW k, NEW n, Pushed(x, h, s, y, g, k, n), NEW f \in Seq(Frame), Placed(s, f)
  PROVE  Placed(<<k>> \o s, f)
  <1> DEFINE t == <<k>> \o s
  <1>1. /\ LP!Members(t) = LP!Members(s) \cup {k} /\ Len(t) = Len(s) + 1
        /\ \A i \in 1 .. Len(s) : t[i + 1] = s[i]
    BY PushChain DEF Pushed, Linked
  <1>2. Len(s) \in Nat
    BY DEF Linked, LP!IsChain
  <1> HIDE DEF t
  <1>3. ASSUME NEW a, NEW c, NotNewer(s, a, c) PROVE NotNewer(t, a, c)
    <2>1. CASE a = 0
      BY <2>1 DEF NotNewer
    <2>2. CASE a # 0
      <3>1. PICK i, j \in 1 .. Len(s) : s[i] = a /\ s[j] = c /\ j <= i
        BY <2>2, <1>3 DEF NotNewer
      <3>2. i + 1 \in 1 .. Len(t) /\ j + 1 \in 1 .. Len(t) /\ j + 1 <= i + 1
        BY <3>1, <1>1, <1>2
      <3>3. t[i + 1] = a /\ t[j + 1] = c
        BY <3>1, <1>1
      <3> QED
        BY <3>2, <3>3 DEF NotNewer
    <2> QED
      BY <2>1, <2>2
  <1>4. \A i \in 1 .. Len(f) : f[i].c \in {0} \cup LP!Members(t) /\ f[i].m % Align = 0
    BY <1>1 DEF Placed
  <1> QED
    BY <1>3, <1>4 DEF Placed, t

\* allocate with another chunk.
LEMMA PushSound ==
  ASSUME S!ConstantsAreSane, NEW x, NEW h, NEW s, NEW f, NEW b, Sound(x, h, s, f, b),
         NEW k, NEW size \in Sizes, NEW a, a = [c |-> k, m |-> 0, size |-> size],
         NEW y, NEW g, g \in [S!Chunks -> Mark], Pushed(x, h, s, y, g, k, S!Aligned(S!FrameBytes(size)))
  PROVE  Sound(y, g, <<k>> \o s, Append(f, a), b)
  <1> DEFINE t == <<k>> \o s
             len == S!Aligned(S!FrameBytes(size))
  <1>1. x \in Mark /\ h \in [S!Chunks -> Mark] /\ f \in Seq(Frame) /\ b \in Nat
    BY DEF Sound
  <1>2. Linked(x, h, s) /\ Placed(s, f) /\ Tiled(x, h, s, f, b)
    BY DEF Sound
  <1>3. k \in S!Chunks /\ k \notin LP!Members(s) /\ k # 0 /\ y = S!At(k, len)
    BY ListsApply DEF Pushed
  <1>4. len \in Nat \ {0} /\ len % Align = 0
    BY SizeFacts
  <1>5. a \in Frame /\ a.c = k /\ a.m = 0
    BY <1>3 DEF Frame
  <1>6. S!EndOf(a) = len
    BY <1>4, <1>5 DEF S!EndOf
  <1>7. y \in Mark /\ y.c = k /\ y.m = len
    BY <1>3, <1>4 DEF S!At, Mark
  <1>8. /\ Linked(y, g, t) /\ t \in Seq(S!Chunks)
        /\ \A u : u \in Marks(y, g, t) <=> u = y \/ u \in Marks(x, h, s)
    <2>1. Pushed(x, h, s, y, g, k, len)
      OBVIOUS
    <2> HIDE DEF len
    <2>2. t = <<k>> \o s
      OBVIOUS
    <2> HIDE DEF t
    <2> QED
      BY <2>1, <2>2, PushMarks
  <1>9. Placed(t, f)
    BY <1>1, <1>2, PushPlaces
  <1>10. \A i \in 1 .. Len(f) : f[i].c # k
    BY <1>2, <1>3 DEF Placed
  <1>11. 0 % Align = 0
    BY DEF S!ConstantsAreSane
  <1>12. Placed(t, Append(f, a))
    <2>1. a.c = LP!PointerTo(t)
      BY <1>5, <1>7, <1>8 DEF Linked
    <2> QED
      BY <2>1, <1>1, <1>5, <1>8, <1>9, <1>10, <1>11, PlaceMore
  <1>13. ASSUME NEW u \in Marks(x, h, s)
         PROVE  Gapless(IF u.c = 0 THEN b ELSE 0, Append(f, a), u.c, u.m)
    <2>1. u \in Mark /\ u.c \in {0} \cup LP!Members(s) /\ u.m \in Nat
      BY <1>1, <1>2, MarksFacts DEF Mark
    <2>2. a.c # u.c
      BY <2>1, <1>3, <1>5
    <2>3. Gapless(IF u.c = 0 THEN b ELSE 0, f, u.c, u.m)
      BY <1>2 DEF Tiled
    <2>4. (IF u.c = 0 THEN b ELSE 0) \in Nat
      BY <1>1
    <2> QED
      BY <2>1, <2>2, <2>3, <2>4, <1>1, <1>5, TileMore
  <1>14. Gapless(IF y.c = 0 THEN b ELSE 0, Append(f, a), y.c, y.m)
    <2>1. Gapless(0, f, k, 0)
      BY <1>10 DEF Gapless
    <2>2. Gapless(0, Append(f, a), k, S!EndOf(a))
      BY <2>1, <1>1, <1>5, TileMore
    <2> QED
      BY <2>2, <1>3, <1>6, <1>7
  <1>15. Tiled(y, g, t, Append(f, a), b)
    BY <1>8, <1>13, <1>14 DEF Tiled
  <1>16. Append(f, a) \in Seq(Frame)
    BY <1>1, <1>5
  <1> QED
    BY <1>1, <1>7, <1>8, <1>12, <1>15, <1>16 DEF Sound

\* allocate in the current chunk.
LEMMA HereSound ==
  ASSUME S!ConstantsAreSane, NEW x, NEW h, NEW s, NEW f, NEW b, Sound(x, h, s, f, b), x.m % Align = 0,
         NEW size \in Sizes, NEW a, a = [c |-> x.c, m |-> x.m, size |-> size],
         NEW y, y = S!At(x.c, x.m + S!Aligned(S!FrameBytes(size)))
  PROVE  Sound(y, h, s, Append(f, a), b) /\ Marks(y, h, s) = {y} \cup {h[k] : k \in LP!Members(s)}
  <1> DEFINE len == S!Aligned(S!FrameBytes(size))
  <1>1. x \in Mark /\ h \in [S!Chunks -> Mark] /\ f \in Seq(Frame) /\ b \in Nat
    BY DEF Sound
  <1>2. Linked(x, h, s) /\ Placed(s, f) /\ Tiled(x, h, s, f, b)
    BY DEF Sound
  <1>3. len \in Nat \ {0}
    BY SizeFacts
  <1>4. x.c \in {0} \cup S!Chunks /\ x.m \in Nat
    BY <1>1 DEF Mark
  <1>5. a \in Frame /\ a.c = x.c /\ a.m = x.m
    BY <1>4 DEF Frame
  <1>6. S!EndOf(a) = x.m + len
    BY DEF S!EndOf
  <1>7. y \in Mark /\ y.c = x.c /\ y.m = S!EndOf(a)
    BY <1>3, <1>4, <1>6 DEF S!At, Mark
  <1>8. Linked(y, h, s)
    BY <1>2, <1>7 DEF Linked
  <1>9. s \in Seq(S!Chunks)
    BY <1>2 DEF Linked, LP!IsChain
  <1>10. Gapless(IF x.c = 0 THEN b ELSE 0, f, x.c, x.m) /\ (IF x.c = 0 THEN b ELSE 0) \in Nat
    BY <1>1, <1>2 DEF Tiled, Marks
  <1>11. Placed(s, Append(f, a))
    <2>1. a.c = LP!PointerTo(s)
      BY <1>2, <1>5 DEF Linked
    <2>2. \A i \in 1 .. Len(f) : f[i].c = a.c => S!EndOf(f[i]) <= a.m
      BY <1>5, <1>10 DEF Gapless
    <2> QED
      BY <2>1, <2>2, <1>1, <1>2, <1>5, <1>9, PlaceMore
  <1>12. ASSUME NEW k \in LP!Members(s)
         PROVE  Gapless(IF h[k].c = 0 THEN b ELSE 0, Append(f, a), h[k].c, h[k].m)
    <2>1. h[k] \in Mark /\ h[k].c # x.c /\ h[k].m \in Nat
      BY <1>1, <1>2, MarksFacts DEF Mark
    <2>2. Gapless(IF h[k].c = 0 THEN b ELSE 0, f, h[k].c, h[k].m)
      BY <1>2 DEF Tiled, Marks
    <2>3. (IF h[k].c = 0 THEN b ELSE 0) \in Nat
      BY <1>1
    <2> QED
      BY <2>1, <2>2, <2>3, <1>1, <1>5, TileMore
  <1>13. Gapless(IF y.c = 0 THEN b ELSE 0, Append(f, a), y.c, y.m)
    <2>1. Gapless(IF x.c = 0 THEN b ELSE 0, Append(f, a), x.c, S!EndOf(a))
      BY <1>1, <1>4, <1>5, <1>10, TileMore
    <2> QED
      BY <2>1, <1>7
  <1>14. Tiled(y, h, s, Append(f, a), b)
    BY <1>12, <1>13 DEF Tiled, Marks
  <1>15. Append(f, a) \in Seq(Frame)
    BY <1>1, <1>5
  <1> QED
    BY <1>1, <1>7, <1>8, <1>11, <1>14, <1>15 DEF Sound, Marks

\* The frame a, of those known, is the last one.
EndsWith(f, e, a) == e \in Seq(Frame) /\ a \in Frame /\ f = Append(e, a)

\* deallocate in the current chunk, where the last frame lies.
LEMMA BackSound ==
  ASSUME S!ConstantsAreSane, NEW x, NEW h, NEW s, NEW f, NEW b, Sound(x, h, s, f, b),
         NEW e, NEW a, EndsWith(f, e, a), x.c = a.c, NEW y, y = S!At(x.c, a.m)
  PROVE  Sound(y, h, s, e, b) /\ x.m = S!EndOf(a) /\ a.m % Align = 0 /\ a.m < x.m
  <1>1. x \in Mark /\ h \in [S!Chunks -> Mark] /\ f \in Seq(Frame) /\ b \in Nat
    BY DEF Sound
  <1>2. Linked(x, h, s) /\ Placed(s, Append(e, a)) /\ Tiled(x, h, s, Append(e, a), b)
    BY DEF Sound, EndsWith
  <1>3. e \in Seq(Frame) /\ a \in Frame
    BY DEF EndsWith
  <1>4. x.c \in {0} \cup S!Chunks /\ x.m \in Nat /\ a.m \in Nat
    BY <1>1, <1>3 DEF Mark, Frame
  <1>5. y \in Mark /\ y.c = x.c /\ y.m = a.m
    BY <1>4 DEF S!At, Mark
  <1>6. Linked(y, h, s)
    BY <1>2, <1>5 DEF Linked
  <1>7. Gapless(IF x.c = 0 THEN b ELSE 0, Append(e, a), x.c, x.m) /\ (IF x.c = 0 THEN b ELSE 0) \in Nat
    BY <1>1, <1>2 DEF Tiled, Marks
  <1>8. Gapless(IF x.c = 0 THEN b ELSE 0, e, x.c, a.m) /\ x.m = S!EndOf(a)
    BY <1>2, <1>3, <1>4, <1>7, TileLess
  <1>9. Placed(s, e)
    BY <1>2, <1>3, PlaceLess
  <1>10. ASSUME NEW k \in LP!Members(s)
         PROVE  Gapless(IF h[k].c = 0 THEN b ELSE 0, e, h[k].c, h[k].m)
    <2>1. h[k] \in Mark /\ h[k].c # x.c /\ h[k].m \in Nat
      BY <1>1, <1>2, MarksFacts DEF Mark
    <2>2. Gapless(IF h[k].c = 0 THEN b ELSE 0, Append(e, a), h[k].c, h[k].m)
      BY <1>2 DEF Tiled, Marks
    <2>3. (IF h[k].c = 0 THEN b ELSE 0) \in Nat
      BY <1>1
    <2> QED
      BY <2>1, <2>2, <2>3, <1>2, <1>3, TileLess
  <1>11. Tiled(y, h, s, e, b)
    BY <1>5, <1>8, <1>10 DEF Tiled, Marks
  <1>12. a.m % Align = 0
    <2>1. Len(e) + 1 \in 1 .. Len(Append(e, a)) /\ Append(e, a)[Len(e) + 1] = a
      BY <1>3, AppendFacts
    <2> QED
      BY <2>1, <1>2 DEF Placed
  <1>13. a.m < S!EndOf(a)
    BY <1>3, FrameFacts
  <1> QED
    BY <1>1, <1>3, <1>5, <1>6, <1>8, <1>9, <1>11, <1>12, <1>13 DEF Sound

\* The current chunk is dropped: what is before it is the current one.
Dropped(x, h, y, g) == /\ x.c # 0 /\ y = h[x.c] /\ g \in [S!Chunks -> Mark]
                       /\ \A j \in S!Chunks : j # x.c => g[j] = h[j]

\* The headers and the marks without the chunk.
LEMMA DropMarks ==
  ASSUME S!ConstantsAreSane, NEW x \in Mark, NEW h \in [S!Chunks -> Mark], NEW s, Linked(x, h, s),
         NEW y, NEW g, Dropped(x, h, y, g)
  PROVE  /\ Linked(y, g, Tail(s)) /\ Marks(y, g, Tail(s)) = {h[k] : k \in LP!Members(s)}
         /\ LP!Members(Tail(s)) = LP!Members(s) \ {x.c} /\ x.c \in LP!Members(s) /\ x.c \in S!Chunks
         /\ y \in Mark /\ s # <<>>
  <1>1. s # <<>> /\ s[1] = x.c /\ x.c \in LP!Members(s) /\ s \in Seq(S!Chunks)
    BY MarksFacts DEF Dropped
  <1>2. /\ LP!IsChain(Before(g), Tail(s)) /\ LP!PointerTo(Tail(s)) = h[s[1]].c
        /\ LP!Members(Tail(s)) = LP!Members(s) \ {s[1]}
    BY <1>1, PopChain DEF Linked, Dropped
  <1>3. \A k \in LP!Members(s) : k \in S!Chunks
    BY <1>1, MembersFacts
  <1>4. {h[x.c]} \cup {g[k] : k \in LP!Members(s) \ {x.c}} = {h[k] : k \in LP!Members(s)}
    BY <1>1, <1>3 DEF Dropped
  <1>5. x.c \in S!Chunks /\ h[x.c] \in Mark
    BY <1>1, <1>3
  <1> QED
    BY <1>1, <1>2, <1>4, <1>5 DEF Linked, Marks, Dropped

\* A chunk without a frame is dropped.
LEMMA DropSound ==
  ASSUME S!ConstantsAreSane, NEW x, NEW h, NEW s, NEW f, NEW b, Sound(x, h, s, f, b),
         \A i \in 1 .. Len(f) : f[i].c # x.c, NEW y, NEW g, Dropped(x, h, y, g)
  PROVE  Sound(y, g, Tail(s), f, b)
  <1>1. x \in Mark /\ h \in [S!Chunks -> Mark] /\ f \in Seq(Frame) /\ b \in Nat
    BY DEF Sound
  <1>2. Linked(x, h, s) /\ Placed(s, f) /\ Tiled(x, h, s, f, b)
    BY DEF Sound
  <1>3. /\ Linked(y, g, Tail(s)) /\ Marks(y, g, Tail(s)) = {h[k] : k \in LP!Members(s)}
        /\ LP!Members(Tail(s)) = LP!Members(s) \ {x.c} /\ y \in Mark /\ s # <<>>
    BY <1>1, <1>2, DropMarks
  <1>4. s[1] = x.c
    BY <1>1, <1>2, <1>3, MarksFacts
  <1>5. Len(s) \in Nat /\ \A i \in 1 .. Len(s) : i # 1 => i - 1 \in 1 .. Len(Tail(s)) /\ Tail(s)[i - 1] = s[i]
    BY <1>2, <1>3, PopChain DEF Linked
  <1> DEFINE t == Tail(s)
  <1> HIDE DEF t
  <1>6. ASSUME NEW c, NEW d, c # x.c, d # x.c, NotNewer(s, c, d) PROVE NotNewer(t, c, d)
    <2>1. CASE c = 0
      BY <2>1 DEF NotNewer
    <2>2. CASE c # 0
      <3>1. PICK i, j \in 1 .. Len(s) : s[i] = c /\ s[j] = d /\ j <= i
        BY <2>2, <1>6 DEF NotNewer
      <3>2. i # 1 /\ j # 1
        BY <3>1, <1>4, <1>6
      <3>3. i - 1 \in 1 .. Len(t) /\ t[i - 1] = c /\ j - 1 \in 1 .. Len(t) /\ t[j - 1] = d
        BY <3>1, <3>2, <1>5 DEF t
      <3>4. j - 1 <= i - 1
        BY <3>1
      <3> QED
        BY <3>3, <3>4 DEF NotNewer
    <2> QED
      BY <2>1, <2>2
  <1>7. Placed(t, f)
    <2>1. \A i \in 1 .. Len(f) : f[i].c \in {0} \cup LP!Members(t) /\ f[i].m % Align = 0
      BY <1>2, <1>3 DEF Placed, t
    <2> QED
      BY <2>1, <1>2, <1>6 DEF Placed
  <1>8. Tiled(y, g, t, f, b)
    BY <1>2, <1>3 DEF Tiled, Marks, t
  <1> QED
    BY <1>1, <1>3, <1>7, <1>8 DEF Sound, Dropped, t

\* The search of deallocate is over, or the current chunk is empty.
LEMMA SearchSound ==
  ASSUME S!ConstantsAreSane, NEW x, NEW h, NEW s, NEW f, NEW b, Sound(x, h, s, f, b),
         NEW e, NEW a, EndsWith(f, e, a), x.c # a.c
  PROVE  x.c # 0 /\ x.m = 0 /\ \A i \in 1 .. Len(f) : f[i].c # x.c
  <1>1. x \in Mark /\ h \in [S!Chunks -> Mark] /\ f \in Seq(Frame) /\ b \in Nat
    BY DEF Sound
  <1>2. Linked(x, h, s) /\ Placed(s, f) /\ Tiled(x, h, s, f, b)
    BY DEF Sound
  <1>3. /\ Len(e) \in Nat /\ Len(f) = Len(e) + 1 /\ f[Len(f)] = a /\ Len(f) \in 1 .. Len(f)
        /\ \A i \in 1 .. Len(f) : i = Len(f) \/ i < Len(f)
    BY AppendFacts DEF EndsWith
  <1>4. a.c \in {0} \cup LP!Members(s)
    BY <1>2, <1>3 DEF Placed
  <1>5. x.c # 0 /\ s # <<>> /\ s[1] = x.c /\ s \in Seq(S!Chunks)
    <2>1. (x.c = 0 <=> s = <<>>) /\ (s # <<>> => s[1] = x.c) /\ s \in Seq(S!Chunks)
      BY <1>1, <1>2, MarksFacts
    <2>2. s = <<>> => LP!Members(s) = {}
      BY <2>1, MembersFacts
    <2> QED
      BY <2>1, <2>2, <1>4
  <1>6. LP!NoRepeats(s) /\ Len(s) \in Nat /\ 1 \in 1 .. Len(s)
    BY <1>2, <1>5 DEF Linked, LP!IsChain
  <1>7. ASSUME NEW i \in 1 .. Len(f), f[i].c = x.c PROVE FALSE
    <2>1. i < Len(f)
      BY <1>3, <1>7
    <2>2. NotNewer(s, x.c, a.c)
      BY <2>1, <1>2, <1>3, <1>7 DEF Placed
    <2>3. PICK j, k \in 1 .. Len(s) : s[j] = x.c /\ s[k] = a.c /\ k <= j
      BY <2>2, <1>5 DEF NotNewer
    <2>4. j = 1
      BY <2>3, <1>5, <1>6 DEF LP!NoRepeats
    <2>5. k = 1
      BY <2>3, <2>4
    <2> QED
      BY <2>3, <2>5, <1>5
  <1>8. Gapless(0, f, x.c, x.m)
    BY <1>2, <1>5 DEF Tiled, Marks
  <1>9. x.m = 0
    BY <1>7, <1>8 DEF Gapless
  <1> QED
    BY <1>5, <1>7, <1>9
-----------------------------------------------------------------------------
(***************************************************************************)
(* The steps.                                                              *)
(***************************************************************************)
\* What the invariant says, as long as the resource is in use.
LEMMA GoodFacts ==
  ASSUME S!ConstantsAreSane, NEW s, Good(s)
  PROVE  /\ pc \in {"idle", "deallocate"} => Sound(cur, hdr, s, Known, kept)
         /\ Known \in Seq(Frame)
         /\ Linked(cur, hdr, s) /\ Types /\ s \in Seq(S!Chunks)
  <1>1. Types /\ Linked(cur, hdr, s)
    BY DEF Good
  <1>2. Known \in Seq(Frame)
    BY <1>1 DEF Known, Types
  <1>3. s \in Seq(S!Chunks)
    BY <1>1 DEF Linked, LP!IsChain
  <1> QED
    BY <1>1, <1>2, <1>3 DEF Good, Sound, Types

\* How the invariant is established while the resource is in use.
LEMMA SoundIsGood ==
  ASSUME NEW s, NEW f, Types', Known' = f, Sound(cur', hdr', s, f, kept'),
         Shared(s, freelist', hdr', heap'), Marked(cur', hdr', s, cap'), pc' # "destroyed"
  PROVE  Good(s)'
  BY DEF Good, Sound

\* There is the initial buffer only at first.
LEMMA InitGood == ASSUME S!ConstantsAreSane, S!Init PROVE Good(<<>>)
  <1>1. /\ LP!IsChain(Before(hdr), <<>>) /\ LP!PointerTo(<<>>) = 0 /\ LP!Members(<<>>) = {}
    BY ListsApply, LP!EmptyChain
  <1>2. cur.c = 0 /\ cur.m = 0 /\ cap[cur.c] \in Nat /\ 0 % Align = 0
    BY DEF S!Init, S!At, S!ConstantsAreSane
  <1>3. Types
    <2>1. cur \in Mark /\ hdr \in [S!Chunks -> Mark]
      BY DEF S!Init, S!At, Mark, S!Chunks
    <2>2. cap \in [{0} \cup S!Chunks -> Nat]
      BY DEF S!Init, S!ConstantsAreSane
    <2>3. freelist \in Seq(S!Chunks) /\ live \in Seq(Frame) /\ kept = 0 /\ pc = "idle"
      BY DEF S!Init
    <2> QED
      BY <2>1, <2>2, <2>3, <1>2 DEF Types
  <1>4. LP!NoRepeats(<<>>)
    BY DEF LP!NoRepeats
  <1>5. Shared(<<>>, freelist, hdr, heap)
    <2>1. freelist = <<>> /\ heap = {} /\ heap = 1 .. 0 /\ 0 \in 0 .. MaxChunks
      BY DEF S!Init, S!ConstantsAreSane
    <2> QED
      BY <2>1, <1>1, <1>4 DEF Shared
  <1>6. Marks(cur, hdr, <<>>) = {cur}
    BY <1>1 DEF Marks
  <1>7. Marked(cur, hdr, <<>>, cap)
    BY <1>2, <1>6 DEF Marked
  <1>8. Known = <<>> /\ Len(<<>>) = 0 /\ kept = 0
    BY DEF S!Init, Known
  <1>9. Placed(<<>>, Known)
    BY <1>8 DEF Placed
  <1>10. Tiled(cur, hdr, <<>>, Known, kept)
    BY <1>2, <1>6, <1>8 DEF Tiled, Gapless
  <1> QED
    BY <1>1, <1>2, <1>3, <1>5, <1>7, <1>9, <1>10 DEF Good, Linked, S!Init

\* There is room in the current chunk.
LEMMA AllocateHereGood ==
  ASSUME S!ConstantsAreSane, NEW s, Good(s), NEW n \in Sizes, S!AllocateHere(n)
  PROVE  Good(s)'
  <1> DEFINE len == S!Aligned(S!FrameBytes(n))
             a   == [c |-> cur.c, m |-> cur.m, size |-> n]
  <1>1. pc = "idle" /\ pc' = "idle" /\ Known = live /\ Known' = live' /\ live' = Append(live, a)
    BY DEF S!AllocateHere, Known
  <1>2. UNCHANGED <<hdr, cap, freelist, heap, kept>> /\ cur' = S!At(cur.c, cur.m + len)
    BY DEF S!AllocateHere
  <1>3. Types /\ Sound(cur, hdr, s, live, kept) /\ Marked(cur, hdr, s, cap) /\ Shared(s, freelist, hdr, heap)
    BY <1>1, GoodFacts DEF Good
  <1>4. cur.m % Align = 0
    BY <1>3 DEF Marked, Marks
  <1>5. Sound(cur', hdr, s, Append(live, a), kept) /\ Marks(cur', hdr, s) = {cur'} \cup {hdr[k] : k \in LP!Members(s)}
    BY <1>2, <1>3, <1>4, HereSound
  <1>6. len \in Nat /\ len % Align = 0 /\ cur.m \in Nat /\ cur.c \in {0} \cup S!Chunks
    BY <1>3, SizeFacts DEF Types, Mark
  <1>7. cap[cur.c] \in Nat
    BY <1>3, <1>6 DEF Types
  <1>8. cur'.c = cur.c /\ cur'.m = cur.m + len /\ cur' \in Mark
    BY <1>2, <1>6 DEF S!At, Mark
  <1>9. cur'.m <= cap[cur'.c]
    BY <1>6, <1>7, <1>8 DEF S!AllocateHere, S!Fits
  <1>10. cur'.m % Align = 0
    BY <1>4, <1>6, <1>8, SumAligned DEF S!ConstantsAreSane
  <1>11. Marked(cur', hdr', s, cap')
    BY <1>2, <1>3, <1>5, <1>9, <1>10 DEF Marked, Marks
  <1>12. a \in Frame
    BY <1>6 DEF Frame
  <1>13. Types'
    BY <1>1, <1>2, <1>3, <1>8, <1>12 DEF Types
  <1> HIDE DEF a
  <1> QED
    BY <1>1, <1>2, <1>3, <1>5, <1>11, <1>13, SoundIsGood

\* Another chunk is begun: what is the same for a free and for a new one.
LEMMA AllocateMore ==
  ASSUME S!ConstantsAreSane, NEW s, Good(s), pc = "idle", pc' = "idle", NEW n \in Sizes, NEW k \in S!Chunks,
         k \notin LP!Members(s), hdr' = [hdr EXCEPT ![k] = cur],
         cur' = S!At(k, S!Aligned(S!FrameBytes(n))), live' = Append(live, [c |-> k, m |-> 0, size |-> n]),
         kept' = kept, cap' \in [{0} \cup S!Chunks -> Nat], \A c \in {0} \cup S!Chunks : c # k => cap'[c] = cap[c],
         S!Aligned(S!FrameBytes(n)) <= cap'[k], freelist' \in Seq(S!Chunks),
         Shared(<<k>> \o s, freelist', hdr', heap')
  PROVE  Good(<<k>> \o s)'
  <1> DEFINE len == S!Aligned(S!FrameBytes(n))
             a   == [c |-> k, m |-> 0, size |-> n]
             t   == <<k>> \o s
  <1>1. Types /\ Sound(cur, hdr, s, live, kept) /\ Marked(cur, hdr, s, cap)
    BY GoodFacts DEF Good, Known
  <1>2. cur \in Mark /\ hdr \in [S!Chunks -> Mark] /\ Linked(cur, hdr, s)
    BY <1>1 DEF Types, Sound
  <1>3. hdr' \in [S!Chunks -> Mark] /\ Pushed(cur, hdr, s, cur', hdr', k, len)
    BY <1>2 DEF Pushed
  <1>4. len \in Nat /\ len % Align = 0
    BY SizeFacts
  <1>5. cur' \in Mark /\ cur'.c = k /\ cur'.m = len
    BY <1>4 DEF S!At, Mark
  <1> HIDE DEF len
  <1>6. Sound(cur', hdr', t, Append(live, a), kept)
    BY <1>1, <1>3, PushSound DEF len
  <1>7. \A u : u \in Marks(cur', hdr', t) <=> u = cur' \/ u \in Marks(cur, hdr, s)
    <2>1. t = <<k>> \o s
      OBVIOUS
    <2> HIDE DEF t
    <2> QED
      BY ONLY <2>1, <1>3, S!ConstantsAreSane, PushMarks
  <1>8. Marked(cur', hdr', t, cap')
    <2>1. \A u \in Marks(cur, hdr, s) : u.c \in {0} \cup S!Chunks /\ u.c # k
      <3>1. \A u \in Marks(cur, hdr, s) : u.c \in {0} \cup LP!Members(s)
        BY <1>2, MarksFacts
      <3>2. LP!Members(s) \subseteq S!Chunks /\ k # 0
        BY <1>2, MarksFacts, ListsApply
      <3> QED
        BY <3>1, <3>2
    <2> HIDE DEF t
    <2> QED
      BY <2>1, <1>1, <1>4, <1>5, <1>7 DEF Marked, len
  <1>9. a \in Frame
    BY DEF Frame
  <1>10. Types'
    BY <1>1, <1>3, <1>5, <1>9 DEF Types
  <1>11. Known' = Append(live, a)
    BY DEF Known
  <1> HIDE DEF a, t
  <1>12. Shared(t, freelist', hdr', heap')
    BY DEF t
  <1>13. Good(t)'
    BY <1>6, <1>8, <1>10, <1>11, <1>12, SoundIsGood
  <1> QED
    BY <1>13 DEF t

\* The first chunk of the freelist that is large enough.
LEMMA AllocateFreeGood ==
  ASSUME S!ConstantsAreSane, NEW s, Good(s), NEW n \in Sizes, S!AllocateFromFreelist(n)
  PROVE  \E t : Good(t)'
  <1> DEFINE len == S!Aligned(S!FrameBytes(n))
             i == CHOOSE i \in S!LargeEnough(len) : \A j \in S!LargeEnough(len) : i <= j
  <1>1. pc = "idle" /\ pc' = "idle" /\ UNCHANGED <<cap, heap, kept>>
    BY DEF S!AllocateFromFreelist
  <1>2. Types /\ Shared(s, freelist, hdr, heap) /\ Linked(cur, hdr, s)
    BY DEF Good
  <1>3. freelist \in Seq(S!Chunks) /\ LP!NoRepeats(freelist)
    BY <1>2 DEF Types, Shared
  <1>4. S!LargeEnough(len) # {} /\ S!LargeEnough(len) \subseteq Nat
    BY <1>3 DEF S!AllocateFromFreelist, S!LargeEnough
  <1>5. \E j \in S!LargeEnough(len) : \A m \in S!LargeEnough(len) : j <= m
    BY <1>4, ListsApply, LP!LeastNumber
  <1>6. i \in S!LargeEnough(len)
    BY <1>5
  <1>7. i \in 1 .. Len(freelist) /\ cap[freelist[i]] >= len /\ freelist' = RemoveAt(freelist, i)
    <2>1. freelist' = S!RemoveAt(freelist, i)
      BY DEF S!AllocateFromFreelist
    <2>2. S!RemoveAt(freelist, i) = RemoveAt(freelist, i)
      BY LibraryNames
    <2> QED
      BY <1>3, <1>6, <2>1, <2>2 DEF S!LargeEnough
  <1>8. PICK k : /\ k = freelist[i] /\ hdr' = [hdr EXCEPT ![k] = cur] /\ cur' = S!At(hdr[k].c, hdr[k].m + len)
                 /\ live' = Append(live, [c |-> hdr[k].c, m |-> 0, size |-> n])
    BY DEF S!AllocateFromFreelist
  <1> HIDE DEF i
  <1>9. k \in S!Chunks /\ k \in LP!Members(freelist)
    BY <1>3, <1>7, <1>8, MembersFacts
  <1>10. hdr[k] = S!At(k, 0) /\ k \notin LP!Members(s)
    BY <1>2, <1>9 DEF Shared
  <1>11. len \in Nat
    BY SizeFacts
  <1>12. /\ freelist' \in Seq(S!Chunks) /\ LP!NoRepeats(freelist')
         /\ LP!Members(freelist') = LP!Members(freelist) \ {k}
    BY <1>3, <1>7, <1>8, RemoveFacts
  <1> HIDE DEF len
  <1>13. hdr[k].c = k /\ hdr[k].m = 0 /\ hdr[k].m + len = len
    BY <1>10, <1>11 DEF S!At
  <1>14. cur' = S!At(k, len) /\ live' = Append(live, [c |-> k, m |-> 0, size |-> n])
    BY <1>8, <1>13
  <1>15. LP!Members(<<k>> \o s) = LP!Members(s) \cup {k}
    <2>1. s \in Seq(S!Chunks) /\ LP!IsChain(Before(hdr), s) /\ cur.c = LP!PointerTo(s)
      BY <1>2, GoodFacts DEF Linked
    <2>2. hdr'[k] = cur /\ \A j \in S!Chunks : j # k => hdr'[j] = hdr[j]
      BY <1>8, <1>9, <1>2 DEF Types
    <2> QED
      BY <2>1, <2>2, <1>9, <1>10, PushChain
  <1>16. Shared(<<k>> \o s, freelist', hdr', heap')
    <2>1. \A j \in LP!Members(freelist) : j \in S!Chunks
      BY <1>3, MembersFacts
    <2>2. \A j \in LP!Members(freelist') : hdr'[j] = S!At(j, 0)
      BY <2>1, <1>2, <1>8, <1>12 DEF Shared, Types
    <2>3. LP!Members(<<k>> \o s) \cap LP!Members(freelist') = {}
      BY <1>2, <1>12, <1>15 DEF Shared
    <2>4. LP!Members(<<k>> \o s) \cup LP!Members(freelist') = heap'
      BY <1>1, <1>2, <1>9, <1>12, <1>15 DEF Shared
    <2>5. \E m \in 0 .. MaxChunks : heap' = 1 .. m
      BY <1>1, <1>2 DEF Shared
    <2> QED
      BY <2>2, <2>3, <2>4, <2>5, <1>12 DEF Shared
  <1>17. cap' \in [{0} \cup S!Chunks -> Nat] /\ len <= cap'[k] /\ \A c \in {0} \cup S!Chunks : c # k => cap'[c] = cap[c]
    <2>1. cap \in [{0} \cup S!Chunks -> Nat]
      BY <1>2 DEF Types
    <2>2. cap[k] \in Nat
      BY <2>1, <1>9
    <2> QED
      BY <2>1, <2>2, <1>1, <1>7, <1>8, <1>11
  <1>18. hdr' = [hdr EXCEPT ![k] = cur] /\ kept' = kept /\ pc = "idle" /\ pc' = "idle"
    BY <1>1, <1>8
  <1>19. k \in S!Chunks /\ k \notin LP!Members(s) /\ freelist' \in Seq(S!Chunks)
    BY <1>9, <1>10, <1>12
  <1>20. Good(<<k>> \o s)'
    BY <1>14, <1>16, <1>17, <1>18, <1>19, AllocateMore DEF len
  <1> QED
    BY <1>20

\* A new chunk.
LEMMA AllocateNewGood ==
  ASSUME S!ConstantsAreSane, NEW s, Good(s), NEW n \in Sizes, S!AllocateNew(n)
  PROVE  \E t : Good(t)'
  <1> DEFINE len == S!Aligned(S!FrameBytes(n))
  <1>1. pc = "idle" /\ pc' = "idle" /\ UNCHANGED <<freelist, kept>>
    BY DEF S!AllocateNew
  <1>2. Types /\ Shared(s, freelist, hdr, heap) /\ Linked(cur, hdr, s)
    BY DEF Good
  <1>3. PICK k \in S!Chunks :
                            /\ k = Cardinality(heap) + 1
                            /\ cap' = [cap EXCEPT ![k] = (len + cap[cur.c] + Initial) * 2]
                            /\ hdr' = [hdr EXCEPT ![k] = cur] /\ cur' = S!At(k, len)
                            /\ live' = Append(live, [c |-> k, m |-> 0, size |-> n])
                            /\ heap' = heap \cup {k}
    BY LibraryNames DEF S!AllocateNew
  <1>4. PICK m \in 0 .. MaxChunks : heap = 1 .. m
    BY <1>2 DEF Shared
  <1>5. m \in Nat /\ MaxChunks \in Nat
    BY DEF S!ConstantsAreSane
  <1>6. Cardinality(1 .. m) = m
    <2>1. 1 \in Int /\ m \in Int
      BY <1>5
    <2>2. Cardinality(1 .. m) = IF 1 > m THEN 0 ELSE m - 1 + 1
      BY <2>1, FS_Interval
    <2> QED
      BY <2>2, <1>5
  <1>7. k = m + 1 /\ k \notin heap /\ heap' = 1 .. m + 1 /\ m + 1 \in 0 .. MaxChunks
    BY <1>3, <1>4, <1>5, <1>6 DEF S!Chunks
  <1>8. k \notin LP!Members(s) /\ k \notin LP!Members(freelist)
    BY <1>2, <1>7 DEF Shared
  <1>9. len \in Nat
    BY SizeFacts
  <1>10. LP!Members(<<k>> \o s) = LP!Members(s) \cup {k}
    <2>1. s \in Seq(S!Chunks) /\ LP!IsChain(Before(hdr), s) /\ cur.c = LP!PointerTo(s)
      BY <1>2, GoodFacts DEF Linked
    <2>2. hdr'[k] = cur /\ \A j \in S!Chunks : j # k => hdr'[j] = hdr[j]
      BY <1>3, <1>2 DEF Types
    <2> QED
      BY <2>1, <2>2, <1>8, PushChain
  <1>11. Shared(<<k>> \o s, freelist', hdr', heap')
    <2>1. \A j \in LP!Members(freelist) : j \in S!Chunks /\ j # k
      BY <1>2, <1>8, MembersFacts DEF Types
    <2>2. \A j \in LP!Members(freelist') : hdr'[j] = S!At(j, 0)
      BY <2>1, <1>1, <1>2, <1>3 DEF Shared, Types
    <2>3. LP!Members(<<k>> \o s) \cap LP!Members(freelist') = {}
      BY <1>1, <1>2, <1>8, <1>10 DEF Shared
    <2>4. LP!Members(<<k>> \o s) \cup LP!Members(freelist') = heap'
      BY <1>1, <1>2, <1>3, <1>10 DEF Shared
    <2>5. \E j \in 0 .. MaxChunks : heap' = 1 .. j
      BY <1>7
    <2>6. LP!NoRepeats(freelist')
      BY <1>1, <1>2 DEF Shared
    <2> QED
      BY <2>2, <2>3, <2>4, <2>5, <2>6 DEF Shared
  <1>12. cap' \in [{0} \cup S!Chunks -> Nat] /\ len <= cap'[k] /\ \A c \in {0} \cup S!Chunks : c # k => cap'[c] = cap[c]
    <2>1. cap \in [{0} \cup S!Chunks -> Nat] /\ cur.c \in {0} \cup S!Chunks
      BY <1>2 DEF Types, Mark
    <2>2. cap[cur.c] \in Nat
      BY <2>1
    <2> DEFINE room == (len + cap[cur.c] + Initial) * 2
    <2>3. room \in Nat /\ len <= room
      BY <2>2, <1>9 DEF S!ConstantsAreSane
    <2>4. cap' = [cap EXCEPT ![k] = room] /\ k \in {0} \cup S!Chunks
      BY <1>3
    <2> HIDE DEF room, len
    <2> QED
      BY <2>1, <2>3, <2>4
  <1>13. freelist' \in Seq(S!Chunks)
    BY <1>1, <1>2 DEF Types
  <1> HIDE DEF len
  <1>14. Good(<<k>> \o s)'
    BY <1>1, <1>3, <1>8, <1>11, <1>12, <1>13, AllocateMore DEF len
  <1> QED
    BY <1>14

\* operator delete of the last frame: it is known until deallocate has found it.
LEMMA DeallocateGood ==
  ASSUME S!ConstantsAreSane, NEW s, Good(s), S!Deallocate
  PROVE  Good(s)'
  <1>1. /\ pc = "idle" /\ live # <<>> /\ pc' = "deallocate" /\ arg' = Last(live) /\ live' = Front(live)
        /\ UNCHANGED <<cur, hdr, cap, freelist, heap, kept>>
    BY LibraryNames DEF S!Deallocate
  <1>2. Types
    BY DEF Good
  <1>3. live \in Seq(Frame) /\ Len(live) \in Nat \ {0}
    BY <1>1, <1>2 DEF Types
  <1>4. /\ Front(live) \in Seq(Frame) /\ Len(Front(live)) = Len(live) - 1 /\ Last(live) \in Frame
        /\ \A i \in 1 .. Len(live) - 1 : Front(live)[i] = live[i]
        /\ Last(live) = live[Len(live)]
    <2>1. PICK m \in Nat : m = Len(live) - 1
      BY <1>3
    <2>2. Front(live) = SubSeq(live, 1, m) /\ Last(live) = live[Len(live)]
      BY <2>1 DEF Front, Last
    <2>3. 1 \in Int /\ m \in Int /\ \A i \in 1 .. m : live[i] \in Frame
      BY <1>3, <2>1
    <2>4. /\ SubSeq(live, 1, m) \in Seq(Frame)
          /\ Len(SubSeq(live, 1, m)) = IF 1 <= m THEN m - 1 + 1 ELSE 0
          /\ \A i \in 1 .. m - 1 + 1 : SubSeq(live, 1, m)[i] = live[1 + i - 1]
      BY ONLY <2>3, SubSeqProperties
    <2>5. /\ (IF 1 <= m THEN m - 1 + 1 ELSE 0) = m
          /\ \A i \in 1 .. m : i \in 1 .. m - 1 + 1 /\ 1 + i - 1 = i
      OBVIOUS
    <2>6. live[Len(live)] \in Frame
      BY <1>3
    <2> QED
      BY <2>1, <2>2, <2>4, <2>5, <2>6
  <1>5. Append(Front(live), Last(live)) = live
    <2> DEFINE f == Front(live)
               a == Last(live)
    <2>1. f \in Seq(Frame) /\ Len(f) = Len(live) - 1 /\ a \in Frame /\ a = live[Len(live)]
      BY <1>4
    <2>2. \A i \in 1 .. Len(live) - 1 : f[i] = live[i]
      BY <1>4
    <2> HIDE DEF f, a
    <2>3. Append(f, a) \in Seq(Frame) /\ Len(Append(f, a)) = Len(live)
      BY <2>1, <1>3
    <2>4. \A i \in 1 .. Len(live) : Append(f, a)[i] = live[i]
      BY <2>1, <2>2, <1>3
    <2>5. Append(f, a) = live
      BY <2>3, <2>4, <1>3
    <2> QED
      BY <2>5 DEF f, a
  <1>6. Known = live /\ Known' = live
    BY <1>1, <1>5 DEF Known
  <1>7. Types'
    BY <1>1, <1>2, <1>4 DEF Types
  <1>8. Tiled(cur, hdr, s, live, kept) /\ Placed(s, live) /\ Linked(cur, hdr, s)
    BY <1>1, <1>6 DEF Good
  <1>9. Shared(s, freelist, hdr, heap) /\ Marked(cur, hdr, s, cap)
    BY DEF Good
  <1> QED
    BY <1>1, <1>6, <1>7, <1>8, <1>9 DEF Good

\* The frames that are known while deallocate searches.
LEMMA SearchFacts ==
  ASSUME S!ConstantsAreSane, NEW s, Good(s), pc = "deallocate"
  PROVE  /\ Sound(cur, hdr, s, Known, kept) /\ EndsWith(Known, live, arg)
         /\ cur.c = arg.c => S!Found
         /\ S!Found => cur.c = arg.c /\ cur.m - S!Aligned(S!FrameBytes(arg.size)) = arg.m
         /\ ~S!Found => cur.c # 0 /\ cur.m = 0 /\ \A i \in 1 .. Len(Known) : Known[i].c # cur.c
  <1>1. Sound(cur, hdr, s, Known, kept) /\ EndsWith(Known, live, arg)
    BY GoodFacts DEF EndsWith, Known, Types
  <1>2. ASSUME cur.c = arg.c PROVE S!Found
    <2> DEFINE y == S!At(cur.c, arg.m)
    <2>1. cur.m = S!EndOf(arg)
      BY <1>1, <1>2, BackSound
    <2>2. arg \in Frame
      BY <1>1 DEF EndsWith
    <2>3. arg.m \in Nat /\ S!Aligned(S!FrameBytes(arg.size)) \in Nat
      BY <2>2, SizeFacts DEF Frame
    <2>4. cur.m - S!Aligned(S!FrameBytes(arg.size)) = arg.m
      BY <2>1, <2>3 DEF S!EndOf
    <2> QED
      BY <2>4, <1>2 DEF S!Found
  <1>3. ~S!Found => cur.c # 0 /\ cur.m = 0 /\ \A i \in 1 .. Len(Known) : Known[i].c # cur.c
    BY <1>1, <1>2, SearchSound
  <1> QED
    BY <1>1, <1>2, <1>3 DEF S!Found

\* What drop_cur_chunk does to chunks, headers and freelist.
LEMMA DropGood ==
  ASSUME S!ConstantsAreSane, NEW s, Types, Linked(cur, hdr, s), Shared(s, freelist, hdr, heap),
         Marked(cur, hdr, s, cap), cur.c # 0, S!DropCurChunk(0), heap' = heap, cap' = cap
  PROVE  /\ Dropped(cur, hdr, cur', hdr') /\ Linked(cur', hdr', Tail(s)) /\ cur' \in Mark
         /\ hdr' \in [S!Chunks -> Mark] /\ freelist' \in Seq(S!Chunks)
         /\ Shared(Tail(s), freelist', hdr', heap') /\ Marked(cur', hdr', Tail(s), cap')
  <1> DEFINE k == cur.c
  <1>1. /\ cur' = hdr[k] /\ hdr' = [hdr EXCEPT ![k] = S!At(k, 0)] /\ freelist' = <<k>> \o freelist
    BY DEF S!DropCurChunk
  <1>2. cur \in Mark /\ hdr \in [S!Chunks -> Mark] /\ freelist \in Seq(S!Chunks) /\ k \in {0} \cup S!Chunks
    BY DEF Types, Mark
  <1>3. k \in S!Chunks /\ S!At(k, 0) \in Mark
    BY <1>2 DEF S!At, Mark
  <1>4. hdr' \in [S!Chunks -> Mark]
    BY <1>1, <1>2, <1>3
  <1>5. Dropped(cur, hdr, cur', hdr')
    BY <1>1, <1>2, <1>4 DEF Dropped
  <1>6. /\ Linked(cur', hdr', Tail(s)) /\ Marks(cur', hdr', Tail(s)) = {hdr[j] : j \in LP!Members(s)}
        /\ LP!Members(Tail(s)) = LP!Members(s) \ {k} /\ k \in LP!Members(s) /\ cur' \in Mark
    BY <1>2, <1>5, DropMarks
  <1> HIDE DEF k
  <1>7. freelist' \in Seq(S!Chunks) /\ Len(freelist) \in Nat /\ Len(freelist') = Len(freelist) + 1
    BY <1>1, <1>2, <1>3
  <1>8. freelist'[1] = k /\ \A i \in 1 .. Len(freelist) : freelist'[i + 1] = freelist[i]
    BY <1>1, <1>2, <1>3
  <1>9. \A i \in 1 .. Len(freelist') : i # 1 => i - 1 \in 1 .. Len(freelist) /\ freelist'[i] = freelist[i - 1]
    <2> SUFFICES ASSUME NEW i \in 1 .. Len(freelist'), i # 1
                 PROVE  i - 1 \in 1 .. Len(freelist) /\ freelist'[i] = freelist[i - 1]
      OBVIOUS
    <2>1. i - 1 \in 1 .. Len(freelist) /\ (i - 1) + 1 = i
      BY <1>7
    <2>2. freelist'[(i - 1) + 1] = freelist[i - 1]
      BY <2>1, <1>8
    <2> QED
      BY <2>1, <2>2
  <1>10. k \notin LP!Members(freelist)
    BY <1>6 DEF Shared
  <1>11. \A i \in 1 .. Len(freelist) : freelist[i] # k
    BY <1>10 DEF LP!Members
  <1>12. LP!NoRepeats(freelist')
    <2> SUFFICES ASSUME NEW i \in 1 .. Len(freelist'), NEW j \in 1 .. Len(freelist'), freelist'[i] = freelist'[j]
                 PROVE  i = j
      BY DEF LP!NoRepeats
    <2>1. CASE i = 1 \/ j = 1
      BY <2>1, <1>8, <1>9, <1>11
    <2>2. CASE i # 1 /\ j # 1
      <3>1. freelist[i - 1] = freelist[j - 1] /\ i - 1 \in 1 .. Len(freelist) /\ j - 1 \in 1 .. Len(freelist)
        BY <2>2, <1>9
      <3>2. i - 1 = j - 1
        BY <3>1 DEF Shared, LP!NoRepeats
      <3> QED
        BY <3>2
    <2> QED
      BY <2>1, <2>2
  <1>13. \A x : x \in LP!Members(freelist') <=> x = k \/ x \in LP!Members(freelist)
    <2>1. \A i \in 1 .. Len(freelist) : i + 1 \in 1 .. Len(freelist')
      BY <1>7
    <2>2. 1 \in 1 .. Len(freelist')
      BY <1>7
    <2>3. k \in LP!Members(freelist')
      BY <2>2, <1>8 DEF LP!Members
    <2>4. ASSUME NEW x \in LP!Members(freelist) PROVE x \in LP!Members(freelist')
      <3>1. PICK i \in 1 .. Len(freelist) : x = freelist[i]
        BY DEF LP!Members
      <3> QED
        BY <3>1, <2>1, <1>8 DEF LP!Members
    <2>5. ASSUME NEW x \in LP!Members(freelist'), x # k PROVE x \in LP!Members(freelist)
      <3>1. PICK i \in 1 .. Len(freelist') : x = freelist'[i]
        BY DEF LP!Members
      <3>2. i # 1
        BY <3>1, <2>5, <1>8
      <3> QED
        BY <3>1, <3>2, <1>9 DEF LP!Members
    <2> QED
      BY <2>3, <2>4, <2>5
  <1>14. \A j \in LP!Members(freelist') : hdr'[j] = S!At(j, 0)
    <2>1. \A j \in LP!Members(freelist) : j \in S!Chunks /\ hdr[j] = S!At(j, 0)
      BY <1>2, MembersFacts DEF Shared
    <2> QED
      BY <2>1, <1>1, <1>2, <1>3, <1>13
  <1>15. Shared(Tail(s), freelist', hdr', heap')
    BY <1>6, <1>12, <1>13, <1>14 DEF Shared
  <1>16. Marked(cur', hdr', Tail(s), cap')
    BY <1>6 DEF Marked, Marks
  <1> QED
    BY <1>4, <1>5, <1>6, <1>7, <1>15, <1>16

\* The loop of deallocate.
LEMMA DeallocateDropsGood ==
  ASSUME S!ConstantsAreSane, NEW s, Good(s), S!DeallocateDrops
  PROVE  Good(Tail(s))'
  <1>1. /\ pc = "deallocate" /\ ~S!Found /\ cur.c # 0 /\ S!DropCurChunk(cur.m)
        /\ UNCHANGED <<cap, heap, live, pc, arg, kept>>
    BY DEF S!DeallocateDrops
  <1>2. /\ Sound(cur, hdr, s, Known, kept) /\ cur.m = 0
        /\ \A i \in 1 .. Len(Known) : Known[i].c # cur.c
    BY <1>1, SearchFacts
  <1>3. Types /\ Linked(cur, hdr, s) /\ Shared(s, freelist, hdr, heap) /\ Marked(cur, hdr, s, cap)
    BY DEF Good
  <1>4. S!DropCurChunk(0)
    BY <1>1, <1>2
  <1>5. /\ Dropped(cur, hdr, cur', hdr') /\ cur' \in Mark
        /\ hdr' \in [S!Chunks -> Mark] /\ freelist' \in Seq(S!Chunks)
        /\ Shared(Tail(s), freelist', hdr', heap') /\ Marked(cur', hdr', Tail(s), cap')
    BY <1>1, <1>3, <1>4, DropGood
  <1>6. Sound(cur', hdr', Tail(s), Known, kept)
    BY <1>2, <1>5, DropSound
  <1>7. Types'
    BY <1>1, <1>3, <1>5 DEF Types
  <1>8. Known' = Known /\ kept' = kept /\ pc' # "destroyed"
    BY <1>1 DEF Known
  <1> QED
    BY <1>5, <1>6, <1>7, <1>8, SoundIsGood

\* Behind the loop.
LEMMA DeallocateHereGood ==
  ASSUME S!ConstantsAreSane, NEW s, Good(s), S!DeallocateHere
  PROVE  Good(s)'
  <1>1. /\ pc = "deallocate" /\ S!Found /\ pc' = "idle"
        /\ cur' = S!At(cur.c, cur.m - S!Aligned(S!FrameBytes(arg.size)))
        /\ UNCHANGED <<hdr, cap, freelist, heap, live, kept>>
    BY DEF S!DeallocateHere
  <1>2. /\ Sound(cur, hdr, s, Known, kept) /\ EndsWith(Known, live, arg) /\ cur.c = arg.c
        /\ cur.m - S!Aligned(S!FrameBytes(arg.size)) = arg.m
    BY <1>1, SearchFacts
  <1>3. cur' = S!At(cur.c, arg.m)
    BY <1>1, <1>2
  <1>4. Sound(cur', hdr, s, live, kept) /\ arg.m % Align = 0 /\ arg.m < cur.m
    BY <1>2, <1>3, BackSound
  <1>5. Types /\ Shared(s, freelist, hdr, heap) /\ Marked(cur, hdr, s, cap)
    BY DEF Good
  <1>6. cur \in Mark /\ cur' \in Mark /\ cur'.c = cur.c /\ cur'.m = arg.m /\ cur.m \in Nat /\ arg.m \in Nat
    BY <1>2, <1>3, <1>5 DEF Types, Mark, Frame, EndsWith, S!At
  <1>7. cap[cur.c] \in Nat /\ cur.m <= cap[cur.c]
    BY <1>5, <1>6 DEF Types, Mark, Marked, Marks
  <1>8. cur'.m <= cap[cur'.c] /\ cur'.m % Align = 0
    BY <1>4, <1>6, <1>7
  <1>9. Marked(cur', hdr', s, cap')
    BY <1>1, <1>5, <1>8 DEF Marked, Marks
  <1>10. Types'
    BY <1>1, <1>5, <1>6 DEF Types
  <1>11. Known' = live
    BY <1>1 DEF Known
  <1> QED
    BY <1>1, <1>4, <1>5, <1>9, <1>10, <1>11, SoundIsGood

\* No frame, nothing to say.
LEMMA NothingPlaced == ASSUME NEW s PROVE Placed(s, <<>>)
  BY DEF Placed

\* reuse_memory() and the destructor begin.
LEMMA EndsGood ==
  ASSUME S!ConstantsAreSane, NEW s, Good(s), S!ReuseMemory \/ S!Destroy
  PROVE  Good(s)'
  <1>1. /\ pc' \in {"reuse_memory", "~stack_resource"} /\ live' = <<>>
        /\ UNCHANGED <<cur, hdr, cap, freelist, heap, arg, kept>>
    BY DEF S!ReuseMemory, S!Destroy
  <1>2. Types'
    BY <1>1 DEF Good, Types
  <1>3. Known' = <<>>
    BY <1>1 DEF Known
  <1>4. Placed(s, Known')
    BY <1>3, NothingPlaced
  <1> QED
    BY <1>1, <1>2, <1>4 DEF Good

\* The loop of reuse_memory.
LEMMA ReuseDropsGood ==
  ASSUME S!ConstantsAreSane, NEW s, Good(s), S!ReuseDrops
  PROVE  Good(Tail(s))'
  <1>1. /\ pc \in {"reuse_memory", "~stack_resource"} /\ cur.c # 0 /\ S!DropCurChunk(0)
        /\ UNCHANGED <<cap, heap, live, pc, arg, kept>>
    BY DEF S!ReuseDrops
  <1>2. Types /\ Linked(cur, hdr, s) /\ Shared(s, freelist, hdr, heap) /\ Marked(cur, hdr, s, cap)
    BY DEF Good
  <1>3. /\ Linked(cur', hdr', Tail(s)) /\ cur' \in Mark
        /\ hdr' \in [S!Chunks -> Mark] /\ freelist' \in Seq(S!Chunks)
        /\ Shared(Tail(s), freelist', hdr', heap') /\ Marked(cur', hdr', Tail(s), cap')
    BY <1>1, <1>2, DropGood
  <1>4. Types'
    BY <1>1, <1>2, <1>3 DEF Types
  <1>5. Known' = <<>>
    BY <1>1, <1>2 DEF Known, Types
  <1>6. Placed(Tail(s), Known')
    BY <1>5, NothingPlaced
  <1> QED
    BY <1>1, <1>3, <1>4, <1>6 DEF Good

\* reuse_memory is over: what it has left in use of the initial buffer is kept.
LEMMA ReuseReturnsGood ==
  ASSUME S!ConstantsAreSane, NEW s, Good(s), S!ReuseReturns
  PROVE  Good(s)'
  <1>1. /\ pc = "reuse_memory" /\ cur.c = 0 /\ pc' = "idle" /\ kept' = cur.m
        /\ UNCHANGED <<cur, hdr, cap, freelist, heap, live, arg>>
    BY DEF S!ReuseReturns
  <1>2. Types /\ Linked(cur, hdr, s) /\ Shared(s, freelist, hdr, heap) /\ Marked(cur, hdr, s, cap)
    BY DEF Good
  <1>3. s = <<>>
    BY <1>1, <1>2, MarksFacts DEF Types
  <1>4. LP!Members(s) = {} /\ Marks(cur, hdr, s) = {cur}
    BY <1>3, ListsApply, LP!EmptyChain DEF Marks
  <1>5. cur.m \in Nat /\ cur.m % Align = 0
    BY <1>2, <1>4 DEF Marked, Types, Mark
  <1>6. live = <<>> /\ Known' = <<>>
    BY <1>1, <1>2 DEF Types, Known
  <1>7. Types'
    BY <1>1, <1>2, <1>5, <1>6 DEF Types
  <1>8. Tiled(cur, hdr, s, <<>>, cur.m)
    BY <1>1, <1>4 DEF Tiled, Gapless
  <1>9. Placed(s, <<>>)
    BY NothingPlaced
  <1> QED
    BY <1>1, <1>2, <1>6, <1>7, <1>8, <1>9 DEF Good

\* freelist.drop_all()
LEMMA DropAllGood ==
  ASSUME S!ConstantsAreSane, NEW s, Good(s), S!DropAll
  PROVE  Good(s)'
  <1>1. /\ pc = "~stack_resource" /\ cur.c = 0 /\ pc' = "destroyed" /\ heap' = heap \ ToSet(freelist)
        /\ freelist' = <<>> /\ UNCHANGED <<cur, hdr, cap, live, arg, kept>>
    BY LibraryNames DEF S!DropAll
  <1>2. Types /\ Linked(cur, hdr, s) /\ Shared(s, freelist, hdr, heap) /\ Marked(cur, hdr, s, cap)
    BY DEF Good
  <1>3. s = <<>> /\ LP!Members(s) = {} /\ LP!Members(<<>>) = {}
    <2>1. s = <<>>
      BY <1>1, <1>2, MarksFacts DEF Types
    <2> QED
      BY <2>1, ListsApply, LP!EmptyChain
  <1>4. heap' = {}
    <2>1. LP!Members(freelist) = ToSet(freelist)
      BY <1>2, MembersFacts DEF Types
    <2> QED
      BY <2>1, <1>1, <1>2, <1>3 DEF Shared
  <1>5. Shared(s, freelist', hdr', heap')
    <2>1. heap' = 1 .. 0 /\ 0 \in 0 .. MaxChunks
      BY <1>4 DEF S!ConstantsAreSane
    <2>2. LP!NoRepeats(<<>>)
      BY DEF LP!NoRepeats
    <2> QED
      BY <2>1, <2>2, <1>1, <1>3, <1>4 DEF Shared
  <1>6. Types' /\ Known' = <<>>
    BY <1>1, <1>2 DEF Types, Known
  <1>7. Placed(s, Known')
    BY <1>6, NothingPlaced
  <1> QED
    BY <1>1, <1>2, <1>4, <1>5, <1>6, <1>7 DEF Good

\* Every step.
LEMMA StepGood ==
  ASSUME S!ConstantsAreSane, Inv, [S!Next]_S!vars
  PROVE  Inv'
  <1>1. PICK s : Good(s)
    BY DEF Inv
  <1>2. ASSUME NEW t, Good(t)' PROVE Inv'
    BY <1>2 DEF Inv
  <1>3. CASE UNCHANGED S!vars
    <2>1. Good(s)'
      BY <1>1, <1>3 DEF S!vars, Good, Types, Known
    <2> QED
      BY <2>1, <1>2
  <1>4. CASE \E n \in Sizes : S!AllocateHere(n) \/ S!AllocateFromFreelist(n) \/ S!AllocateNew(n)
    BY <1>1, <1>2, <1>4, AllocateHereGood, AllocateFreeGood, AllocateNewGood
  <1>5. CASE S!Deallocate
    BY <1>1, <1>2, <1>5, DeallocateGood
  <1>6. CASE S!DeallocateDrops
    BY <1>1, <1>2, <1>6, DeallocateDropsGood
  <1>7. CASE S!DeallocateHere
    BY <1>1, <1>2, <1>7, DeallocateHereGood
  <1>8. CASE S!ReuseMemory \/ S!Destroy
    BY <1>1, <1>2, <1>8, EndsGood
  <1>9. CASE S!ReuseDrops
    BY <1>1, <1>2, <1>9, ReuseDropsGood
  <1>10. CASE S!ReuseReturns
    BY <1>1, <1>2, <1>10, ReuseReturnsGood
  <1>11. CASE S!DropAll
    BY <1>1, <1>2, <1>11, DropAllGood
  <1>12. CASE S!Destroyed
    BY <1>3, <1>12 DEF S!Destroyed
  <1> QED
    BY <1>3, <1>4, <1>5, <1>6, <1>7, <1>8, <1>9, <1>10, <1>11, <1>12 DEF S!Next

\* Inv is an invariant.
LEMMA Invariance == ASSUME S!ConstantsAreSane PROVE S!Spec => []Inv
  <1>1. S!Init => Inv
    BY InitGood DEF Inv
  <1>2. Inv /\ [S!Next]_S!vars => Inv'
    BY StepGood
  <1> QED
    BY <1>1, <1>2, PTL DEF S!Spec

\* What the properties call by their names.
LEMMA GoodNames ==
  ASSUME S!ConstantsAreSane, NEW s, Good(s)
  PROVE  /\ S!Used = s /\ s \in Seq(S!Chunks) /\ S!InUse = Marks(cur, hdr, s)
         /\ ToSet(S!Used) = LP!Members(s) /\ ToSet(freelist) = LP!Members(freelist)
  <1>1. S!Used = s /\ s \in Seq(S!Chunks) /\ freelist \in Seq(S!Chunks)
    BY UsedIsChain, GoodFacts DEF Types
  <1>2. ToSet(S!Used) = LP!Members(s) /\ ToSet(freelist) = LP!Members(freelist)
    BY <1>1, MembersFacts
  <1>3. S!InUse = Marks(cur, hdr, s)
    BY <1>2, LibraryNames DEF S!InUse, Marks
  <1> QED
    BY <1>1, <1>2, <1>3

\* What the invariant says of the frames that are alive.
LEMMA IntactFromInv == ASSUME S!ConstantsAreSane, Inv PROVE LiveAllocationsAreIntact
  <1>1. PICK s : Good(s)
    BY DEF Inv
  <1>2. Types /\ live \in Seq(Frame) /\ DOMAIN live = 1 .. Len(live) /\ Len(live) \in Nat
    BY <1>1 DEF Good, Types
  <1>3. CASE live = <<>>
    BY <1>3 DEF LiveAllocationsAreIntact, S!LiveAllocationsAreIntact
  <1>4. CASE live # <<>>
    <2>1. pc \in {"idle", "deallocate"}
      BY <1>2, <1>4 DEF Types
    <2>2. Sound(cur, hdr, s, Known, kept)
      BY <2>1, <1>1, GoodFacts
    <2>3. /\ Known \in Seq(Frame)
          /\ \A i \in 1 .. Len(live) : i \in 1 .. Len(Known) /\ Known[i] = live[i] /\ live[i] \in Frame
      <3>1. CASE pc = "deallocate"
        <4>1. arg \in Frame /\ Known = Append(live, arg)
          BY <3>1, <1>2 DEF Types, Known
        <4> QED
          BY <4>1, <1>2
      <3>2. CASE pc # "deallocate"
        BY <3>2, <1>2 DEF Known
      <3> QED
        BY <3>1, <3>2
    <2>4. Placed(s, Known) /\ Tiled(cur, hdr, s, Known, kept) /\ Linked(cur, hdr, s)
      BY <2>2 DEF Sound
    <2>5. S!InUse = Marks(cur, hdr, s) /\ Marked(cur, hdr, s, cap)
      BY <1>1, GoodNames DEF Good
    <2>6. ASSUME NEW i \in 1 .. Len(live)
          PROVE  LET at == live[i].m + S!OnFrame(live[i].size)
                 IN /\ live[i].m % Align = 0 /\ at % AlignOfR = 0
                    /\ live[i].m + live[i].size <= at
                    /\ \E u \in S!InUse : u.c = live[i].c /\ at + SizeOfR <= u.m /\ u.m <= cap[u.c]
      <3> DEFINE a  == live[i]
                 of == S!OnFrame(a.size)
      <3>1. a \in Frame /\ a.m \in Nat /\ a.size \in Sizes
        BY <2>3 DEF Frame
      <3>2. a.m % Align = 0 /\ a.c \in {0} \cup LP!Members(s)
        BY <2>3, <2>4 DEF Placed
      <3>3. /\ of \in Nat /\ a.size <= of /\ of % AlignOfR = 0
            /\ S!FrameBytes(a.size) = of + SizeOfR /\ S!FrameBytes(a.size) \in Nat
            /\ S!Aligned(S!FrameBytes(a.size)) \in Nat /\ S!FrameBytes(a.size) <= S!Aligned(S!FrameBytes(a.size))
        BY <3>1, SizeFacts
      <3>4. S!EndOf(a) = a.m + S!Aligned(S!FrameBytes(a.size))
        BY DEF S!EndOf
      <3>5. SizeOfR \in Nat /\ a.size \in Nat /\ Align \in Nat \ {0} /\ AlignOfR \in Nat \ {0} /\ Align % AlignOfR = 0
        BY <3>1 DEF S!ConstantsAreSane
      <3>6. PICK u \in Marks(cur, hdr, s) : u.c = a.c
        <4>1. cur \in Mark /\ hdr \in [S!Chunks -> Mark]
          BY <1>2 DEF Types
        <4>2. \A c \in {0} \cup LP!Members(s) : \E v \in Marks(cur, hdr, s) : v.c = c
          BY <4>1, <2>4, MarksFacts
        <4>3. PICK c \in {0} \cup LP!Members(s) : c = a.c
          BY <3>2
        <4> QED
          BY <4>2, <4>3
      <3>7. u \in Mark /\ u.m \in Nat
        <4>1. cur \in Mark /\ hdr \in [S!Chunks -> Mark]
          BY <1>2 DEF Types
        <4> QED
          BY <4>1, <2>4, MarksFacts DEF Mark
      <3>8. S!EndOf(a) <= u.m
        <4>1. Gapless(IF u.c = 0 THEN kept ELSE 0, Known, u.c, u.m)
          BY <2>4 DEF Tiled
        <4>2. Known[i].c = u.c /\ i \in 1 .. Len(Known) /\ Known[i] = a
          BY <3>6, <2>3
        <4> HIDE DEF a
        <4> QED
          BY <4>1, <4>2 DEF Gapless
      <3>9. a.m % AlignOfR = 0
        BY <3>1, <3>2, <3>5, WeakerAlignment
      <3>10. (a.m + of) % AlignOfR = 0
        BY <3>1, <3>3, <3>5, <3>9, SumAligned
      <3>11. u \in S!InUse /\ u.m <= cap[u.c]
        BY <2>5 DEF Marked
      <3> HIDE DEF a, of
      <3>12. a.m + a.size <= a.m + of /\ a.m + of + SizeOfR <= u.m
        BY <3>1, <3>3, <3>4, <3>5, <3>7, <3>8
      <3> QED
        BY <3>2, <3>6, <3>10, <3>11, <3>12 DEF a, of
    <2>7. ASSUME NEW i \in 1 .. Len(live), NEW j \in 1 .. Len(live), i < j, live[i].c = live[j].c
          PROVE  live[i].m + S!FrameBytes(live[i].size) <= live[j].m
      <3>1. S!EndOf(live[i]) <= live[j].m
        BY <2>3, <2>4, <2>7 DEF Placed
      <3>2. live[i].m \in Nat /\ live[i].size \in Sizes /\ live[j].m \in Nat
        BY <2>3 DEF Frame
      <3>3. /\ S!FrameBytes(live[i].size) \in Nat /\ S!Aligned(S!FrameBytes(live[i].size)) \in Nat
            /\ S!FrameBytes(live[i].size) <= S!Aligned(S!FrameBytes(live[i].size))
        BY <3>2, SizeFacts
      <3> QED
        BY <3>1, <3>2, <3>3 DEF S!EndOf
    <2> QED
      BY <2>6, <2>7, <1>2 DEF LiveAllocationsAreIntact, S!LiveAllocationsAreIntact
  <1> QED
    BY <1>3, <1>4

\* NoGaps is Gapless.
LEMMA NoGapsFromTiled ==
  ASSUME NEW f \in Seq(Frame), NEW c, NEW m, Gapless(S!Base(c), f, c, m)
  PROVE  S!NoGaps(f, c, m)
  <1>1. DOMAIN f = 1 .. Len(f) /\ Len(f) \in Nat /\ \A j \in 1 .. Len(f) : j < Len(f) + 1
    OBVIOUS
  <1> DEFINE mine == {i \in DOMAIN f : f[i].c = c}
  <1>2. \A i : i \in mine <=> i \in 1 .. Len(f) /\ f[i].c = c
    BY <1>1
  <1> HIDE DEF mine
  <1>3. ASSUME NEW i \in mine
        PROVE  /\ f[i].m = S!Base(c) \/ \E j \in mine : j < i /\ S!EndOf(f[j]) = f[i].m
               /\ S!EndOf(f[i]) <= m
    BY <1>2 DEF Gapless
  <1>4. m = S!Base(c) \/ \E j \in mine : j < Len(f) + 1 /\ S!EndOf(f[j]) = m
    BY <1>1, <1>2 DEF Gapless
  <1> QED
    BY <1>3, <1>4 DEF S!NoGaps, mine

\* What the invariant says of the chunks.
LEMMA ConsistentFromInv == ASSUME S!ConstantsAreSane, Inv PROVE ChunksAreConsistent
  <1>1. PICK s : Good(s)
    BY DEF Inv
  <1>2. Types /\ Linked(cur, hdr, s) /\ Shared(s, freelist, hdr, heap) /\ Marked(cur, hdr, s, cap)
    BY <1>1 DEF Good
  <1>3. /\ S!Used = s /\ s \in Seq(S!Chunks) /\ S!InUse = Marks(cur, hdr, s)
        /\ ToSet(S!Used) = LP!Members(s) /\ ToSet(freelist) = LP!Members(freelist)
    BY <1>1, GoodNames
  <1>4. S!TypeOK
    <2>1. cur.m <= cap[cur.c]
      BY <1>2 DEF Marked, Marks
    <2>2. heap \subseteq S!Chunks
      BY <1>2 DEF Shared, S!Chunks, S!ConstantsAreSane
    <2>3. Mark = [c : {0} \cup S!Chunks, m : Nat] /\ Frame = [c : {0} \cup S!Chunks, m : Nat, size : Sizes]
      BY DEF Mark, Frame
    <2> QED
      BY <2>1, <2>2, <2>3, <1>2 DEF S!TypeOK, Types
  <1>5. S!ChunkIsUsedOrFree
    <2>1. S!Headers!NoRepeats(S!Used)
      BY <1>2, <1>3 DEF Linked, LP!IsChain, LP!NoRepeats, S!Headers!NoRepeats
    <2>2. S!Headers!NoRepeats(freelist)
      BY <1>2 DEF Shared, LP!NoRepeats, S!Headers!NoRepeats
    <2>3. pc = "destroyed" => heap = {}
      BY <1>1 DEF Good
    <2> QED
      BY <2>1, <2>2, <2>3, <1>2, <1>3, LibraryNames DEF S!ChunkIsUsedOrFree, Shared
  <1>6. S!SearchDropsOnlyEmptyChunks
    BY <1>1, SearchFacts DEF S!SearchDropsOnlyEmptyChunks
  <1>7. S!UsedSpaceIsLive
    <2> SUFFICES ASSUME pc = "idle", NEW u \in S!InUse PROVE S!NoGaps(live, u.c, u.m)
      BY DEF S!UsedSpaceIsLive
    <2>1. Known = live /\ live \in Seq(Frame)
      BY <1>2 DEF Known, Types
    <2>2. Gapless(IF u.c = 0 THEN kept ELSE 0, live, u.c, u.m)
      BY <2>1, <1>1, <1>3 DEF Good, Tiled
    <2> QED
      BY <2>1, <2>2, NoGapsFromTiled DEF S!Base
  <1> QED
    BY <1>4, <1>5, <1>6, <1>7 DEF ChunksAreConsistent, S!ChunksAreConsistent

\* For frames of any sizes, with any alignments: no byte of a frame that has not been
\* deleted, or of the resource behind it, is given to another frame, and all of it is
\* in a chunk that is in use, whatever was allocated, freed in the reverse order,
\* reused or taken from the freelist before.
THEOREM LiveFramesAreIntact ==
  ASSUME S!ConstantsAreSane
  PROVE  S!Spec => []LiveAllocationsAreIntact
  <1>1. Inv => LiveAllocationsAreIntact
    BY IntactFromInv
  <1> QED
    BY <1>1, Invariance, PTL

\* Headers and freelist account for every chunk once, so that ~stack_resource deletes
\* each one once and leaks none; the loop of deallocate drops empty chunks only and
\* stops; no byte in use is lost, other than what reuse_memory keeps.
THEOREM ChunksStayConsistent ==
  ASSUME S!ConstantsAreSane
  PROVE  S!Spec => []ChunksAreConsistent
  <1>1. Inv => ChunksAreConsistent
    BY ConsistentFromInv
  <1> QED
    BY <1>1, Invariance, PTL
=============================================================================
