---------------------------- MODULE GeneratorProofs ----------------------------
(***************************************************************************)
(* Proofs about generators and channels, for any number of frames, objects *)
(* and consumers: every coroutine frame has exactly one holder, the frame  *)
(* that works for a consumer reports to it, and the leaves that            *)
(* elements_of chains behind each other are the stack of RecursiveRange.   *)
(*                                                                         *)
(* A first part is about the memory of the frames alone, q or r below: it  *)
(* is a forest, the chains of its heads are disjoint and contain all the   *)
(* frames that exist, and each member function of the promise keeps it so. *)
(* The second part shows what such a change is to the abstract             *)
(* specification.  The third part, Tidy, joins it with the objects: they   *)
(* and the released handles hold the heads, one each, and the frames that  *)
(* work are those of the objects that are iterated.  The last two parts    *)
(* are the actions of Generator and of Channel, with what the links        *)
(* between frame, object and consumer say in each.                         *)
(***************************************************************************)
EXTENDS MCGenerators, FiniteSetTheorems, SequenceTheorems, TLAPS

LP == INSTANCE ListProofs WITH Nodes <- Frames, Null <- None

\* The frames of s hold each other, each once, and the last one holds none.
Path(q, s) ==
  /\ s \in Seq(Frames) /\ s # <<>>
  /\ \A i, j \in 1 .. Len(s) : s[i] = s[j] => i = j
  /\ \A i \in 1 .. Len(s) - 1 : q[s[i]].leaf = s[i + 1]
  /\ q[s[Len(s)]].leaf = None

\* The assumptions of ListProofs.
LEMMA ListsApply == LP!IsFiniteSet(Frames) /\ None \notin Frames
  BY LeafChainAssumption DEF LP!IsFiniteSet, IsFiniteSet

\* The walk of the model and that of ListProofs.
LEMMA ChainIsList == ASSUME NEW q, NEW f PROVE Chain(q, f) = LP!ListOf([x \in Frames |-> q[x].leaf], f)
  BY DEF Chain, Leaves!ListOf, LP!ListOf, Leaves!Cardinality, LP!Cardinality

\* The chain of a frame from which a path starts is this path.
LEMMA ChainOfPath ==
  ASSUME NEW q, NEW s, Path(q, s)
  PROVE  /\ Chain(q, s[1]) = s
         /\ Len(s) \in Nat \ {0} /\ s \in Seq(Frames) /\ \A i \in 1 .. Len(s) : s[i] \in Frames
  <1> DEFINE nxt == [x \in Frames |-> q[x].leaf]
  <1>1. s \in Seq(Frames) /\ Len(s) \in Nat \ {0} /\ \A i \in 1 .. Len(s) : s[i] \in Frames /\ nxt[s[i]] = q[s[i]].leaf
    BY DEF Path
  <1>2. \A i \in 1 .. Len(s) : nxt[s[i]] = IF i = Len(s) THEN None ELSE s[i + 1]
    <2>1. \A i \in 1 .. Len(s) : i = Len(s) \/ i \in 1 .. Len(s) - 1
      BY <1>1
    <2>2. \A i \in 1 .. Len(s) - 1 : i # Len(s)
      BY <1>1
    <2> HIDE DEF nxt
    <2> QED
      BY <1>1, <2>1, <2>2 DEF Path
  <1>3. LP!NoRepeats(s)
    BY DEF Path, LP!NoRepeats
  <1> HIDE DEF nxt
  <1>4. LP!IsChain(nxt, s)
    BY <1>1, <1>2, <1>3 DEF LP!IsChain
  <1>5. LP!ListOf(nxt, LP!PointerTo(s)) = s
    BY <1>4, LP!ListOfChain, ListsApply
  <1>6. LP!PointerTo(s) = s[1]
    BY DEF Path, LP!PointerTo
  <1> QED
    BY <1>1, <1>5, <1>6, ChainIsList DEF nxt

\* nullptr leads nowhere.
LEMMA ChainOfNone == ASSUME NEW q PROVE Chain(q, None) = <<>>
  <1> DEFINE nxt == [x \in Frames |-> q[x].leaf]
  <1>1. LP!IsChain(nxt, <<>>) /\ LP!PointerTo(<<>>) = None
    BY LP!EmptyChain, ListsApply
  <1>2. LP!ListOf(nxt, LP!PointerTo(<<>>)) = <<>>
    BY <1>1, LP!ListOfChain, ListsApply
  <1> QED
    BY <1>1, <1>2, ChainIsList
-----------------------------------------------------------------------------
\* What a promise may hold, as in ChainTypeOK.
Promise == [st : {"free", "suspended", "running", "done"}, root : Frames,
            worker : Frames, link : LinkTypes, leaf : Frames \cup {None}]

\* Who works in a path: the innermost frame, or its owner if it has ended.
WorkAt(q, s) == IF q[s[Len(s)]].st = "done" /\ Len(s) > 1 THEN Len(s) - 1 ELSE Len(s)

\* The frames of s are what a generator or channel with top frame h has to
\* execute: they are suspended, but for the innermost one, which may work or have
\* ended; the top frame knows the worker, the worker knows the top frame, and who
\* has not ended knows its owner.
Shape(q, h, s) ==
  /\ Path(q, s) /\ s[1] = h
  /\ \A i \in 1 .. Len(s) - 1 : q[s[i]].st = "suspended"
  /\ q[s[Len(s)]].st # "free"
  /\ q[h].worker = s[WorkAt(q, s)] /\ q[s[WorkAt(q, s)]].root = h
  /\ \A i \in 2 .. Len(s) : q[s[i]].st # "done" => q[s[i]].link = s[i - 1]

\* All frames that exist are on the chains of the frames in H, which do not meet.
Forest(q, H) ==
  /\ q \in [Frames -> Promise] /\ H \subseteq Frames
  /\ \A h \in H : Shape(q, h, Chain(q, h))
  /\ \A h, g \in H : h # g => Range(Chain(q, h)) \cap Range(Chain(q, g)) = {}
  /\ \A x \in Frames : q[x].st # "free" => \E h \in H : x \in Range(Chain(q, h))
  /\ \A x \in Frames : q[x].st = "free" => q[x].leaf = None

\* What is left to execute of a path.
Work(q, s) == IF q[s[Len(s)]].st = "done" THEN Front(s) ELSE s

\* The sequence without its last element.
LEMMA FrontFacts ==
  ASSUME NEW T, NEW s \in Seq(T), s # <<>>
  PROVE  /\ Len(s) \in Nat \ {0} /\ Front(s) \in Seq(T) /\ Len(Front(s)) = Len(s) - 1
         /\ \A i \in 1 .. Len(s) - 1 : Front(s)[i] = s[i]
  <1>1. Len(s) \in Nat \ {0}
    OBVIOUS
  <1>2. Front(s) = SubSeq(s, 1, Len(s) - 1)
    BY DEF Front
  <1>3. PICK m \in Nat : m = Len(s) - 1
    BY <1>1
  <1>4. 1 \in Int /\ m \in Int /\ \A i \in 1 .. m : s[i] \in T
    BY <1>1, <1>3
  <1>5. /\ SubSeq(s, 1, m) \in Seq(T)
        /\ Len(SubSeq(s, 1, m)) = IF 1 <= m THEN m - 1 + 1 ELSE 0
        /\ \A i \in 1 .. m - 1 + 1 : SubSeq(s, 1, m)[i] = s[1 + i - 1]
    BY ONLY <1>4, SubSeqProperties
  <1>6. /\ (IF 1 <= m THEN m - 1 + 1 ELSE 0) = m
        /\ \A i \in 1 .. m : i \in 1 .. m - 1 + 1 /\ 1 + i - 1 = i
    OBVIOUS
  <1> QED
    BY <1>1, <1>2, <1>3, <1>5, <1>6

\* The frames of a sequence are its elements.
LEMMA RangeOfPath ==
  ASSUME NEW s \in Seq(Frames)
  PROVE  Range(s) = {s[i] : i \in 1 .. Len(s)} /\ Range(s) \subseteq Frames
  BY DEF Range

\* The parts of a shape, for every frame of it.
LEMMA ShapeFacts ==
  ASSUME NEW q, NEW h, NEW s, Shape(q, h, s)
  PROVE  /\ Chain(q, h) = s /\ s \in Seq(Frames) /\ Len(s) \in Nat \ {0} /\ s[1] = h /\ h \in Frames
         /\ h \in Range(s) /\ Range(s) \subseteq Frames /\ Range(s) = {s[i] : i \in 1 .. Len(s)}
         /\ s[Len(s)] \in Range(s) /\ s[Len(s)] \in Frames
         /\ \A x \in Range(s) : q[x].st # "free"
         /\ \A x \in Range(s) : q[x].st # "suspended" => x = s[Len(s)]
         /\ WorkAt(q, s) \in 1 .. Len(s)
         /\ q[h].worker \in Range(s)
  <1>1. Path(q, s) /\ s[1] = h
    BY DEF Shape
  <1>2. /\ Chain(q, h) = s /\ Len(s) \in Nat \ {0} /\ s \in Seq(Frames) /\ \A i \in 1 .. Len(s) : s[i] \in Frames
    BY <1>1, ChainOfPath
  <1>3. Range(s) = {s[i] : i \in 1 .. Len(s)} /\ Range(s) \subseteq Frames
    BY <1>2, RangeOfPath
  <1>4. 1 \in 1 .. Len(s) /\ Len(s) \in 1 .. Len(s) /\ \A i \in 1 .. Len(s) : i = Len(s) \/ i \in 1 .. Len(s) - 1
    BY <1>2
  <1>5. WorkAt(q, s) \in 1 .. Len(s)
    BY <1>2 DEF WorkAt
  <1>6. \A i \in 1 .. Len(s) : q[s[i]].st # "free" /\ (q[s[i]].st # "suspended" => i = Len(s))
    BY <1>4 DEF Shape
  <1>7. q[h].worker = s[WorkAt(q, s)]
    BY DEF Shape
  <1> HIDE DEF WorkAt
  <1> QED
    BY <1>1, <1>2, <1>3, <1>4, <1>5, <1>6, <1>7

\* A frame of a chain is as it was, but for the link of the top frame.
SameFrame(q, r, x, h) ==
  /\ r[x].st = q[x].st /\ r[x].leaf = q[x].leaf /\ r[x].root = q[x].root /\ r[x].worker = q[x].worker
  /\ x # h => r[x].link = q[x].link

\* A path whose frames are as they were is as it was.
LEMMA ShapeKept ==
  ASSUME NEW q, NEW r, NEW h, NEW s, Shape(q, h, s), \A x \in Range(s) : SameFrame(q, r, x, h)
  PROVE  Shape(r, h, s) /\ Work(r, s) = Work(q, s)
  <1>1. /\ s \in Seq(Frames) /\ Len(s) \in Nat \ {0} /\ s[1] = h /\ Range(s) = {s[i] : i \in 1 .. Len(s)}
        /\ WorkAt(q, s) \in 1 .. Len(s) /\ h \in Range(s)
    BY ShapeFacts
  <1>2. \A i \in 1 .. Len(s) : SameFrame(q, r, s[i], h)
    BY <1>1
  <1>3. Path(q, s) /\ \A i, j \in 1 .. Len(s) : s[i] = s[j] => i = j
    BY DEF Shape, Path
  <1>4. \A i \in 2 .. Len(s) : i \in 1 .. Len(s) /\ s[i] # h
    BY <1>1, <1>3
  <1>5. Len(s) \in 1 .. Len(s) /\ \A i \in 1 .. Len(s) - 1 : i \in 1 .. Len(s)
    BY <1>1
  <1>6. Path(r, s)
    BY <1>1, <1>2, <1>3, <1>5 DEF Path, SameFrame
  <1>7. WorkAt(r, s) = WorkAt(q, s)
    BY <1>2, <1>5 DEF WorkAt, SameFrame
  <1>8. r[h].worker = q[h].worker /\ r[s[WorkAt(q, s)]].root = q[s[WorkAt(q, s)]].root
    BY <1>1, <1>2 DEF SameFrame
  <1>9. /\ \A i \in 1 .. Len(s) - 1 : r[s[i]].st = "suspended"
        /\ r[s[Len(s)]].st # "free"
        /\ \A i \in 2 .. Len(s) : r[s[i]].st # "done" => r[s[i]].link = s[i - 1]
    <2>1. /\ \A i \in 1 .. Len(s) - 1 : q[s[i]].st = "suspended"
          /\ q[s[Len(s)]].st # "free"
          /\ \A i \in 2 .. Len(s) : q[s[i]].st # "done" => q[s[i]].link = s[i - 1]
      BY DEF Shape
    <2>2. \A i \in 1 .. Len(s) : r[s[i]].st = q[s[i]].st /\ (s[i] # h => r[s[i]].link = q[s[i]].link)
      BY <1>2 DEF SameFrame
    <2> QED
      BY <1>4, <1>5, <2>1, <2>2
  <1>10. Work(r, s) = Work(q, s)
    BY <1>2, <1>5 DEF Work, SameFrame
  <1> HIDE DEF WorkAt
  <1> QED
    BY <1>1, <1>6, <1>7, <1>8, <1>9, <1>10 DEF Shape

\* K names the paths of the heads in H, and they are all there is.
Paths(q, H, K) ==
  /\ \A h \in H : Shape(q, h, K[h])
  /\ \A h, g \in H : h # g => Range(K[h]) \cap Range(K[g]) = {}
  /\ \A x \in Frames : q[x].st # "free" => \E h \in H : x \in Range(K[h])
  /\ \A x \in Frames : q[x].st = "free" => q[x].leaf = None

\* One who knows the paths need not walk along them.
LEMMA ForestFrom ==
  ASSUME NEW q \in [Frames -> Promise], NEW H \in SUBSET Frames, NEW K, Paths(q, H, K)
  PROVE  Forest(q, H) /\ \A h \in H : Chain(q, h) = K[h]
  <1>1. \A h \in H : Chain(q, h) = K[h]
    BY ShapeFacts DEF Paths
  <1> QED
    BY <1>1 DEF Forest, Paths
-----------------------------------------------------------------------------
\* The innermost frame of head h works.
Active(q, h) == q[q[h].worker].st = "running"

\* What head h has is as it was.
Kept(q, r, h) ==
  /\ Chain(r, h) = Chain(q, h) /\ Work(r, Chain(q, h)) = Work(q, Chain(q, h))
  /\ Active(r, h) <=> Active(q, h)
  /\ r[h].st = q[h].st

\* The chains of the heads in X give way to the paths K of the heads in Y; the rest
\* of the frames is as it was, or free.
Change(q, r, H, X, Y, K) ==
  /\ r \in [Frames -> Promise] /\ X \subseteq H /\ Y \subseteq Frames
  /\ \A h \in H \ X : \A x \in Range(Chain(q, h)) : SameFrame(q, r, x, h)
  /\ \A y \in Y : Shape(r, y, K[y])
  /\ \A y, z \in Y : y # z => Range(K[y]) \cap Range(K[z]) = {}
  /\ \A y \in Y, h \in H \ X : Range(K[y]) \cap Range(Chain(q, h)) = {}
  /\ \A x \in Frames : (\A h \in H \ X : x \notin Range(Chain(q, h))) =>
       /\ r[x].st # "free" => \E y \in Y : x \in Range(K[y])
       /\ r[x].st = "free" => r[x].leaf = None

\* Chains may give way to others, as Change says: the forest stays one.
LEMMA ForestChange ==
  ASSUME NEW q, NEW r, NEW H, NEW X, NEW Y, NEW K, Forest(q, H), Change(q, r, H, X, Y, K)
  PROVE  /\ Forest(r, (H \ X) \cup Y)
         /\ \A h \in H \ X : Kept(q, r, h)
  <1> DEFINE G == (H \ X) \cup Y
             L == [h \in G |-> IF h \in Y THEN K[h] ELSE Chain(q, h)]
  <1>1. H \subseteq Frames /\ G \in SUBSET Frames /\ r \in [Frames -> Promise]
    BY DEF Forest, Change
  <1>2. \A h \in H \ X : Shape(q, h, Chain(q, h))
    BY DEF Forest
  <1>3. \A h \in H \ X : Shape(r, h, Chain(q, h)) /\ Work(r, Chain(q, h)) = Work(q, Chain(q, h))
    <2> TAKE h \in H \ X
    <2> QED
      BY <1>2, ShapeKept DEF Change
  <1>4. \A h \in H \ X : h \in Range(Chain(q, h))
    BY <1>2, ShapeFacts
  <1>5. \A y \in Y : y \in Range(K[y])
    BY ShapeFacts DEF Change
  <1>6. \A h \in H \ X : h \notin Y
    BY <1>4, <1>5 DEF Change
  <1>7. (\A h \in H \ X : L[h] = Chain(q, h)) /\ \A y \in Y : L[y] = K[y]
    BY <1>6
  <1> HIDE DEF L
  <1>8. \A h \in G : Shape(r, h, L[h])
    BY <1>3, <1>7 DEF Change
  <1>9. \A h, g \in G : h # g => Range(L[h]) \cap Range(L[g]) = {}
    <2> SUFFICES ASSUME NEW h \in G, NEW g \in G, h # g PROVE Range(L[h]) \cap Range(L[g]) = {}
      OBVIOUS
    <2>1. CASE h \in H \ X /\ g \in H \ X
      BY <2>1, <1>7 DEF Forest
    <2>2. CASE h \in Y /\ g \in Y
      BY <2>2, <1>7 DEF Change
    <2>3. CASE h \in Y /\ g \in H \ X
      BY <2>3, <1>7 DEF Change
    <2>4. CASE h \in H \ X /\ g \in Y
      BY <2>4, <1>7 DEF Change
    <2> QED
      BY <2>1, <2>2, <2>3, <2>4
  <1>10. \A x \in Frames : /\ r[x].st # "free" => \E h \in G : x \in Range(L[h])
                           /\ r[x].st = "free" => r[x].leaf = None
    <2> SUFFICES ASSUME NEW x \in Frames
                 PROVE  /\ r[x].st # "free" => \E h \in G : x \in Range(L[h])
                        /\ r[x].st = "free" => r[x].leaf = None
      OBVIOUS
    <2>1. CASE \A h \in H \ X : x \notin Range(Chain(q, h))
      BY <2>1, <1>7 DEF Change
    <2>2. CASE \E h \in H \ X : x \in Range(Chain(q, h))
      <3>1. PICK h \in H \ X : x \in Range(Chain(q, h))
        BY <2>2
      <3>2. r[x].st # "free"
        BY <3>1, <1>2, <1>3, ShapeFacts
      <3> QED
        BY <3>1, <3>2, <1>7
    <2> QED
      BY <2>1, <2>2
  <1>11. Forest(r, G) /\ \A h \in G : Chain(r, h) = L[h]
    <2>1. Paths(r, G, L)
      BY <1>8, <1>9, <1>10 DEF Paths
    <2>2. G \in SUBSET Frames /\ r \in [Frames -> Promise]
      BY <1>1
    <2> HIDE DEF G
    <2> QED
      BY ONLY <2>1, <2>2, ForestFrom
  <1>12. \A h \in H \ X : (Active(r, h) <=> Active(q, h)) /\ r[h].st = q[h].st
    <2> TAKE h \in H \ X
    <2>1. h \in Range(Chain(q, h)) /\ q[h].worker \in Range(Chain(q, h))
      BY <1>2, ShapeFacts
    <2>2. \A x \in Range(Chain(q, h)) : r[x].st = q[x].st /\ r[x].worker = q[x].worker
      BY DEF Change, SameFrame
    <2> QED
      BY <2>1, <2>2 DEF Active
  <1> QED
    BY <1>3, <1>7, <1>11, <1>12 DEF Kept

\* Another chain of head h, or a first one.
Put(q, r, H, X, h, s) ==
  /\ r \in [Frames -> Promise] /\ X \subseteq H /\ Shape(r, h, s)
  /\ \A g \in H \ X : \A x \in Range(Chain(q, g)) : SameFrame(q, r, x, g)
  /\ \A g \in H \ X : Range(s) \cap Range(Chain(q, g)) = {}
  /\ \A x \in Frames : (\A g \in H \ X : x \notin Range(Chain(q, g))) =>
       /\ r[x].st # "free" => x \in Range(s)
       /\ r[x].st = "free" => r[x].leaf = None

\* One chain changes, or is new.
LEMMA ForestPut ==
  ASSUME NEW q, NEW r, NEW H, NEW X, NEW h, NEW s, Forest(q, H), Put(q, r, H, X, h, s)
  PROVE  /\ Forest(r, (H \ X) \cup {h}) /\ Chain(r, h) = s
         /\ \A g \in H \ X : Kept(q, r, g)
  <1> DEFINE Y == {h}
             K == [y \in Y |-> s]
  <1>1. Y \in SUBSET Frames /\ \A y \in Y : y = h /\ K[y] = s
    BY ShapeFacts DEF Put
  <1>2. h \in Y
    OBVIOUS
  <1> HIDE DEF Y, K
  <1>3. Change(q, r, H, X, Y, K)
    BY <1>1, <1>2 DEF Change, Put
  <1>4. /\ Forest(r, (H \ X) \cup Y)
        /\ \A g \in H \ X : Kept(q, r, g)
    <2>1. Forest(r, (H \ X) \cup Y)
      BY <1>3, ForestChange
    <2>2. \A g \in H \ X : Kept(q, r, g)
      BY <1>3, ForestChange
    <2> QED
      BY <2>1, <2>2
  <1>5. Chain(r, h) = s
    BY ShapeFacts DEF Put
  <1> QED
    BY <1>4, <1>5 DEF Y

\* The chains of the heads in X are gone.
Less(q, r, H, X) ==
  /\ r \in [Frames -> Promise] /\ X \subseteq H
  /\ \A g \in H \ X : \A x \in Range(Chain(q, g)) : SameFrame(q, r, x, g)
  /\ \A x \in Frames : (\A g \in H \ X : x \notin Range(Chain(q, g))) => r[x].st = "free" /\ r[x].leaf = None

\* Chains disappear.
LEMMA ForestLess ==
  ASSUME NEW q, NEW r, NEW H, NEW X, Forest(q, H), Less(q, r, H, X)
  PROVE  /\ Forest(r, H \ X)
         /\ \A g \in H \ X : Kept(q, r, g)
  <1> DEFINE Y == {}
             K == [y \in Y |-> <<>>]
  <1>1. Y \in SUBSET Frames /\ \A y : y \notin Y
    OBVIOUS
  <1> HIDE DEF Y, K
  <1>2. Change(q, r, H, X, Y, K)
    BY <1>1 DEF Change, Less
  <1>3. /\ Forest(r, (H \ X) \cup Y)
        /\ \A g \in H \ X : Kept(q, r, g)
    BY <1>2, ForestChange
  <1>4. (H \ X) \cup Y = H \ X
    BY <1>1
  <1> QED
    BY <1>3, <1>4
-----------------------------------------------------------------------------
\* The worker of a path, if it has not ended or is alone, goes on, stops or ends.
LEMMA ShapeActive ==
  ASSUME NEW q, NEW r, NEW h, NEW s, Shape(q, h, s), WorkAt(q, s) = Len(s),
         NEW z, z = s[Len(s)],
         \A i \in 1 .. Len(s) - 1 : SameFrame(q, r, s[i], h),
         r[z].leaf = None, r[z].root = q[z].root, r[z].worker = q[z].worker,
         z # h => r[z].link = q[z].link,
         r[z].st # "free", r[z].st = "done" => Len(s) = 1
  PROVE  Shape(r, h, s)
  <1>1. /\ s \in Seq(Frames) /\ Len(s) \in Nat \ {0} /\ s[1] = h
    BY ShapeFacts
  <1>2. Path(q, s) /\ \A i, j \in 1 .. Len(s) : s[i] = s[j] => i = j
    BY DEF Shape, Path
  <1>3. \A i \in 2 .. Len(s) : i \in 1 .. Len(s) /\ s[i] # h
    BY <1>1, <1>2
  <1>4. \A i \in 2 .. Len(s) : i = Len(s) \/ i \in 1 .. Len(s) - 1
    BY <1>1
  <1>5. Path(r, s)
    BY <1>1, <1>2 DEF Path, SameFrame
  <1>6. WorkAt(r, s) = Len(s)
    BY <1>1 DEF WorkAt
  <1>7. r[h].worker = q[h].worker
    <2>1. CASE Len(s) = 1
      BY <2>1, <1>1
    <2>2. CASE Len(s) # 1
      <3>1. 1 \in 1 .. Len(s) - 1
        BY <2>2, <1>1
      <3> QED
        BY <3>1, <1>1 DEF SameFrame
    <2> QED
      BY <2>1, <2>2
  <1>8. q[h].worker = z /\ q[z].root = h
    BY DEF Shape
  <1>9. \A i \in 1 .. Len(s) - 1 : r[s[i]].st = "suspended"
    BY DEF Shape, SameFrame
  <1>10. \A i \in 2 .. Len(s) : r[s[i]].st # "done" => r[s[i]].link = s[i - 1]
    <2> SUFFICES ASSUME NEW i \in 2 .. Len(s), r[s[i]].st # "done" PROVE r[s[i]].link = s[i - 1]
      OBVIOUS
    <2>1. CASE i = Len(s)
      <3>1. Len(s) > 1 /\ q[z].st # "done"
        BY <2>1, <1>1 DEF WorkAt
      <3>2. q[s[i]].st # "done"
        BY <2>1, <3>1
      <3>3. q[s[i]].link = s[i - 1]
        BY <3>2 DEF Shape
      <3>4. s[i] = z /\ z # h
        BY <2>1, <1>3
      <3> QED
        BY <3>3, <3>4
    <2>2. CASE i \in 1 .. Len(s) - 1
      <3>1. q[s[i]].st = "suspended"
        BY <2>2 DEF Shape
      <3>2. q[s[i]].link = s[i - 1]
        BY <3>1 DEF Shape
      <3>3. r[s[i]].link = q[s[i]].link
        BY <2>2, <1>3 DEF SameFrame
      <3> QED
        BY <3>2, <3>3
    <2> QED
      BY <2>1, <2>2, <1>4
  <1> QED
    BY <1>1, <1>5, <1>6, <1>7, <1>8, <1>9, <1>10 DEF Shape

\* The leaf z ends; its owner y is the next worker.
LEMMA ShapeSkip ==
  ASSUME NEW q, NEW r, NEW h, NEW s, Shape(q, h, s), Len(s) > 1,
         NEW y, NEW z, z = s[Len(s)], y = s[Len(s) - 1],
         \A i \in 1 .. Len(s) - 1 : /\ r[s[i]].st = q[s[i]].st /\ r[s[i]].leaf = q[s[i]].leaf
                                    /\ s[i] # h => r[s[i]].link = q[s[i]].link,
         r[h].worker = y, r[y].root = h, r[z].st = "done", r[z].leaf = None
  PROVE  Shape(r, h, s) /\ Work(r, s) = Front(s) /\ WorkAt(r, s) = Len(s) - 1
  <1>1. /\ s \in Seq(Frames) /\ Len(s) \in Nat \ {0} /\ s[1] = h
    BY ShapeFacts
  <1>2. Path(q, s) /\ \A i, j \in 1 .. Len(s) : s[i] = s[j] => i = j
    BY DEF Shape, Path
  <1>3. \A i \in 2 .. Len(s) : i \in 1 .. Len(s) /\ s[i] # h
    BY <1>1, <1>2
  <1>4. \A i \in 2 .. Len(s) : i = Len(s) \/ i \in 1 .. Len(s) - 1
    BY <1>1
  <1>5. Path(r, s)
    BY <1>1, <1>2 DEF Path
  <1>6. WorkAt(r, s) = Len(s) - 1 /\ Work(r, s) = Front(s)
    BY <1>1 DEF WorkAt, Work
  <1>7. \A i \in 1 .. Len(s) - 1 : q[s[i]].st = "suspended" /\ r[s[i]].st = "suspended"
    BY DEF Shape
  <1>8. \A i \in 2 .. Len(s) : r[s[i]].st # "done" => r[s[i]].link = s[i - 1]
    <2> SUFFICES ASSUME NEW i \in 2 .. Len(s), r[s[i]].st # "done" PROVE r[s[i]].link = s[i - 1]
      OBVIOUS
    <2>1. i \in 1 .. Len(s) - 1
      BY <1>4
    <2>2. q[s[i]].link = s[i - 1]
      BY <2>1, <1>7 DEF Shape
    <2> QED
      BY <2>1, <2>2, <1>3
  <1> QED
    BY <1>1, <1>5, <1>6, <1>7, <1>8 DEF Shape

\* The leaf at the end has ended and is destroyed; its owner y goes on.
Popped(q, r, h, s, y) ==
  /\ Len(s) > 1 /\ WorkAt(q, s) = Len(s) - 1 /\ y = s[Len(s) - 1]
  /\ \A i \in 1 .. Len(s) - 2 : SameFrame(q, r, s[i], h)
  /\ r[y].leaf = None /\ r[y].root = q[y].root /\ r[y].worker = q[y].worker
  /\ y # h => r[y].link = q[y].link
  /\ r[y].st = "running"

\* What is left of a path whose last frame is destroyed.
LEMMA ShapePop ==
  ASSUME NEW q, NEW r, NEW h, NEW s, NEW y, Shape(q, h, s), Popped(q, r, h, s, y)
  PROVE  Shape(r, h, Front(s)) /\ Work(r, Front(s)) = Front(s) /\ Range(Front(s)) \subseteq Range(s)
         /\ Work(q, s) = Front(s) /\ Range(s) = Range(Front(s)) \cup {s[Len(s)]}
         /\ s[Len(s)] \notin Range(Front(s))
  <1>1. /\ s \in Seq(Frames) /\ Len(s) \in Nat \ {0} /\ s[1] = h /\ s # <<>> /\ Range(s) = {s[i] : i \in 1 .. Len(s)}
    BY ShapeFacts
  <1>2. Path(q, s) /\ \A i, j \in 1 .. Len(s) : s[i] = s[j] => i = j
    BY DEF Shape, Path
  <1>pop. /\ Len(s) > 1 /\ WorkAt(q, s) = Len(s) - 1 /\ y = s[Len(s) - 1]
          /\ \A i \in 1 .. Len(s) - 2 : SameFrame(q, r, s[i], h)
          /\ r[y].leaf = None /\ r[y].root = q[y].root /\ r[y].worker = q[y].worker
          /\ (y # h => r[y].link = q[y].link) /\ r[y].st = "running"
    BY DEF Popped
  <1> USE <1>pop
  <1> DEFINE u == Front(s)
  <1>3. u \in Seq(Frames) /\ Len(u) = Len(s) - 1 /\ \A i \in 1 .. Len(s) - 1 : u[i] = s[i]
    BY <1>1, FrontFacts
  <1> HIDE DEF u
  <1>4. Range(u) = {u[i] : i \in 1 .. Len(u)}
    BY <1>3, RangeOfPath
  <1>5. PICK m \in Nat \ {0} : m = Len(s) - 1
    <2>1. Len(s) > 1 /\ Len(s) \in Nat
      BY <1>1
    <2>2. \A n \in Nat : n > 1 => n - 1 \in Nat \ {0}
      OBVIOUS
    <2>3. Len(s) - 1 \in Nat \ {0}
      BY ONLY <2>1, <2>2
    <2> QED
      BY <2>3, Zenon
  <1>6. Len(u) = m /\ Len(s) = m + 1 /\ m + 1 - 1 = m /\ Len(s) - 2 = m - 1 /\ u[m] = y /\ u[1] = h
    BY <1>1, <1>3, <1>5
  <1>7. \A i \in 1 .. m : u[i] = s[i] /\ i \in 1 .. Len(s)
    BY <1>3, <1>6
  <1>8. \A i \in 1 .. m - 1 : /\ SameFrame(q, r, u[i], h) /\ i \in 1 .. m /\ i + 1 \in 1 .. m
                              /\ q[u[i]].leaf = u[i + 1] /\ q[u[i]].st = "suspended"
    <2> TAKE i \in 1 .. m - 1
    <2>1. i \in 1 .. Len(s) - 2 /\ i \in 1 .. m /\ i + 1 \in 1 .. m /\ i \in 1 .. Len(s) - 1
      BY <1>6
    <2>2. q[s[i]].leaf = s[i + 1]
      BY <2>1 DEF Shape, Path
    <2>3. q[s[i]].st = "suspended"
      BY <2>1 DEF Shape
    <2> QED
      BY <2>1, <2>2, <2>3, <1>7
  <1>9. \A i, j \in 1 .. m : u[i] = u[j] => i = j
    BY <1>7, <1>2
  <1>10. Path(r, u)
    <2>1. u # <<>>
      BY <1>3, <1>5
    <2>2. \A i \in 1 .. m - 1 : r[u[i]].leaf = u[i + 1]
      BY <1>8 DEF SameFrame
    <2> QED
      BY <2>1, <2>2, <1>3, <1>6, <1>9 DEF Path
  <1>11. WorkAt(r, u) = m /\ Work(r, u) = u
    BY <1>6 DEF WorkAt, Work
  <1>12. q[h].worker = y /\ q[y].root = h
    BY DEF Shape
  <1>13. r[h].worker = q[h].worker
    <2>1. CASE m = 1
      BY <2>1, <1>6
    <2>2. CASE m # 1
      <3>1. 1 \in 1 .. m - 1
        BY <2>2
      <3> QED
        BY <3>1, <1>6, <1>8 DEF SameFrame
    <2> QED
      BY <2>1, <2>2
  <1>14. \A i \in 2 .. m : r[u[i]].link = u[i - 1]
    <2> SUFFICES ASSUME NEW i \in 2 .. m PROVE r[u[i]].link = u[i - 1]
      OBVIOUS
    <2>1. /\ i \in 1 .. m /\ i - 1 \in 1 .. m /\ 1 \in 1 .. m /\ 1 # i
          /\ i \in 1 .. Len(s) - 1 /\ i \in 2 .. Len(s) /\ (i = m \/ i \in 1 .. m - 1)
      BY <1>6
    <2>2. u[i] # h
      BY <2>1, <1>6, <1>9
    <2>3. q[s[i]].st = "suspended"
      BY <2>1 DEF Shape
    <2>4. q[s[i]].link = s[i - 1]
      BY <2>1, <2>3 DEF Shape
    <2>5. q[u[i]].link = u[i - 1]
      BY <2>1, <2>4, <1>7
    <2>6. r[u[i]].link = q[u[i]].link
      BY <2>1, <2>2, <1>6, <1>8 DEF SameFrame
    <2> QED
      BY <2>5, <2>6
  <1>15. \A i \in 1 .. m - 1 : r[u[i]].st = "suspended"
    BY <1>8 DEF SameFrame
  <1>16. Shape(r, h, u)
    BY <1>6, <1>10, <1>11, <1>12, <1>13, <1>14, <1>15 DEF Shape
  <1>17. Work(q, s) = u
    <2>1. q[s[Len(s)]].st = "done"
      BY <1>1 DEF WorkAt
    <2> QED
      BY <2>1 DEF Work, u
  <1>18. /\ \A i \in 1 .. Len(s) : i \in 1 .. m \/ i = Len(s)
         /\ Len(s) \in 1 .. Len(s) /\ \A i \in 1 .. m : i # Len(s)
    BY <1>6
  <1>19. Range(s) = Range(u) \cup {s[Len(s)]}
    BY <1>1, <1>4, <1>6, <1>7, <1>18
  <1>20. s[Len(s)] \notin Range(u)
    BY <1>2, <1>4, <1>6, <1>7, <1>18
  <1> QED
    BY <1>11, <1>16, <1>17, <1>19, <1>20 DEF u

\* One sequence behind another.
LEMMA ConcatFacts ==
  ASSUME NEW T, NEW s \in Seq(T), NEW u \in Seq(T), s # <<>>, u # <<>>
  PROVE  /\ s \o u \in Seq(T) /\ Len(s \o u) = Len(s) + Len(u) /\ s \o u # <<>>
         /\ \A i \in 1 .. Len(s) : (s \o u)[i] = s[i]
         /\ \A i \in 1 .. Len(u) : (s \o u)[Len(s) + i] = u[i]
         /\ \A k \in 1 .. Len(s \o u) : k \in 1 .. Len(s) \/ \E i \in 1 .. Len(u) : k = Len(s) + i
         /\ Front(s \o u) = s \o Front(u)
  <1>1. PICK n \in Nat, m \in Nat : n = Len(s) /\ m = Len(u) /\ n # 0 /\ m # 0
    OBVIOUS
  <1>2. s \o u \in Seq(T) /\ Len(s \o u) = n + m /\ s \o u # <<>>
    BY <1>1
  <1>3. /\ \A i \in 1 .. n : (s \o u)[i] = s[i]
        /\ \A i \in 1 .. m : (s \o u)[n + i] = u[i]
    BY <1>1
  <1>4. \A k \in 1 .. n + m : k \in 1 .. n \/ \E i \in 1 .. m : k = n + i
    <2> TAKE k \in 1 .. n + m
    <2>1. k \notin 1 .. n => k - n \in 1 .. m /\ k = n + (k - n)
      BY <1>1
    <2> QED
      BY <2>1
  <1>5. Front(s \o u) = s \o Front(u)
    <2>1. /\ Front(u) \in Seq(T) /\ Len(Front(u)) = m - 1
          /\ \A i \in 1 .. m - 1 : Front(u)[i] = u[i]
      BY <1>1, FrontFacts
    <2>2. /\ Front(s \o u) \in Seq(T) /\ Len(Front(s \o u)) = n + m - 1
          /\ \A i \in 1 .. n + m - 1 : Front(s \o u)[i] = (s \o u)[i]
      <3> DEFINE v == s \o u
      <3>1. v \in Seq(T) /\ v # <<>> /\ Len(v) = n + m
        BY <1>2
      <3> HIDE DEF v
      <3>2. /\ Front(v) \in Seq(T) /\ Len(Front(v)) = Len(v) - 1
            /\ \A i \in 1 .. Len(v) - 1 : Front(v)[i] = v[i]
        BY ONLY <3>1, FrontFacts
      <3> QED
        BY <3>1, <3>2 DEF v
    <2> DEFINE a == Front(s \o u)
               b == s \o Front(u)
    <2>3. b \in Seq(T) /\ Len(b) = n + (m - 1)
      <3>1. \A w \in Seq(T) : s \o w \in Seq(T) /\ Len(s \o w) = Len(s) + Len(w)
        OBVIOUS
      <3>2. s \o Front(u) \in Seq(T) /\ Len(s \o Front(u)) = Len(s) + Len(Front(u))
        BY <2>1, <3>1
      <3> QED
        BY <1>1, <2>1, <3>2
    <2>4. /\ \A i \in 1 .. n : b[i] = s[i]
          /\ \A i \in 1 .. m - 1 : b[n + i] = u[i]
      BY <1>1, <2>1
    <2>5. n + (m - 1) = n + m - 1 /\ n + m - 1 \in Nat
      BY <1>1
    <2>6. \A k \in 1 .. n + m - 1 : a[k] = b[k]
      <3> TAKE k \in 1 .. n + m - 1
      <3> HIDE DEF b
      <3>1. CASE k \in 1 .. n
        BY <3>1, <1>3, <2>2, <2>4
      <3>2. CASE k \notin 1 .. n
        <4>1. PICK i \in 1 .. m - 1 : k = n + i
          <5>1. k - n \in 1 .. m - 1 /\ k = n + (k - n)
            BY <3>2, <1>1
          <5> QED
            BY <5>1
        <4>2. i \in 1 .. m
          BY <1>1
        <4> QED
          BY <4>1, <4>2, <1>3, <2>2, <2>4
      <3> QED
        BY <3>1, <3>2
    <2> HIDE DEF a, b
    <2>7. a \in Seq(T) /\ Len(a) = n + m - 1 /\ Len(b) = n + m - 1
      BY <2>2, <2>3, <2>5 DEF a
    <2>8. a = b
      BY <2>3, <2>6, <2>7, SeqEqual
    <2> QED
      BY <2>8 DEF a, b
  <1> QED
    BY <1>1, <1>2, <1>3, <1>4, <1>5

\* attach_leaf.await_suspend() before it goes on with the leaf: the innermost frame
\* of s, with top frame h, takes the frame t with path u.
Joined(q, r, h, s, t, u) ==
  /\ \A x \in Range(s) \cup Range(u) :
       /\ x # s[Len(s)] => r[x].st = q[x].st /\ r[x].leaf = q[x].leaf
       /\ x # t => r[x].link = q[x].link
  /\ r[s[Len(s)]].st = "suspended" /\ r[s[Len(s)]].leaf = t /\ r[t].link = s[Len(s)]
  /\ r[q[t].worker].root = h /\ r[h].worker = q[t].worker

\* One path becomes the end of another.
LEMMA ShapeJoin ==
  ASSUME NEW q, NEW r, NEW h, NEW s, NEW t, NEW u, Shape(q, h, s), Shape(q, t, u),
         Range(s) \cap Range(u) = {}, q[s[Len(s)]].st = "running", q[t].st # "done",
         Joined(q, r, h, s, t, u)
  PROVE  /\ Shape(r, h, s \o u) /\ Work(r, s \o u) = s \o Work(q, u)
         /\ Range(s \o u) = Range(s) \cup Range(u)
         /\ r[(s \o u)[Len(s \o u)]].st = q[u[Len(u)]].st
         /\ r[h].st # "done"
  <1>1. /\ s \in Seq(Frames) /\ s[1] = h /\ s # <<>> /\ Range(s) = {s[i] : i \in 1 .. Len(s)}
        /\ u \in Seq(Frames) /\ u[1] = t /\ u # <<>> /\ Range(u) = {u[i] : i \in 1 .. Len(u)}
        /\ Len(s) \in Nat \ {0} /\ Len(u) \in Nat \ {0} /\ WorkAt(q, u) \in 1 .. Len(u)
    BY ShapeFacts
  <1>2. PICK n \in Nat \ {0}, m \in Nat \ {0} : n = Len(s) /\ m = Len(u)
    BY <1>1
  <1> DEFINE v == s \o u
  <1>3. /\ v \in Seq(Frames) /\ Len(v) = n + m /\ v # <<>> /\ Front(v) = s \o Front(u)
        /\ \A i \in 1 .. n : v[i] = s[i]
        /\ \A i \in 1 .. m : v[n + i] = u[i]
        /\ \A k \in 1 .. n + m : k \in 1 .. n \/ \E i \in 1 .. m : k = n + i
    BY <1>1, <1>2, ConcatFacts
  <1> HIDE DEF v
  <1>4. /\ \A i, j \in 1 .. n : s[i] = s[j] => i = j
        /\ \A i, j \in 1 .. m : u[i] = u[j] => i = j
        /\ \A i \in 1 .. n, j \in 1 .. m : s[i] # u[j]
    <2>1. /\ \A i, j \in 1 .. n : s[i] = s[j] => i = j
          /\ \A i, j \in 1 .. m : u[i] = u[j] => i = j
      BY <1>2 DEF Shape, Path
    <2> QED
      BY <1>1, <1>2, <2>1
  <1>5. \A i, j \in 1 .. n + m : v[i] = v[j] => i = j
    <2> SUFFICES ASSUME NEW i \in 1 .. n + m, NEW j \in 1 .. n + m, v[i] = v[j] PROVE i = j
      OBVIOUS
    <2>1. CASE i \in 1 .. n /\ j \in 1 .. n
      BY <2>1, <1>3, <1>4
    <2>2. CASE \E a, b \in 1 .. m : i = n + a /\ j = n + b
      <3>1. PICK a \in 1 .. m, b \in 1 .. m : i = n + a /\ j = n + b
        BY <2>2
      <3>2. v[n + a] = u[a] /\ v[n + b] = u[b]
        BY <1>3
      <3> QED
        BY <3>1, <3>2, <1>4
    <2>3. CASE i \in 1 .. n /\ \E b \in 1 .. m : j = n + b
      <3>1. PICK b \in 1 .. m : j = n + b
        BY <2>3
      <3>2. v[n + b] = u[b] /\ v[i] = s[i]
        BY <1>3, <2>3
      <3>3. s[i] # u[b]
        BY <1>4, <2>3
      <3> QED
        BY <3>1, <3>2, <3>3
    <2>4. CASE j \in 1 .. n /\ \E a \in 1 .. m : i = n + a
      <3>1. PICK a \in 1 .. m : i = n + a
        BY <2>4
      <3>2. v[n + a] = u[a] /\ v[j] = s[j]
        BY <2>4, <1>3
      <3> QED
        BY <2>4, <3>1, <3>2, <1>4
    <2>5. (i \in 1 .. n \/ \E a \in 1 .. m : i = n + a) /\ (j \in 1 .. n \/ \E a \in 1 .. m : j = n + a)
      BY <1>3
    <2> QED
      BY <2>1, <2>2, <2>3, <2>4, <2>5
  <1>6. Range(v) = Range(s) \cup Range(u)
    <2>1. Range(v) = {v[i] : i \in 1 .. n + m}
      BY <1>3, RangeOfPath
    <2>2. /\ \A i \in 1 .. n : i \in 1 .. n + m
          /\ \A i \in 1 .. m : n + i \in 1 .. n + m
      OBVIOUS
    <2>3. Range(v) \subseteq Range(s) \cup Range(u)
      <3> SUFFICES ASSUME NEW k \in 1 .. n + m PROVE v[k] \in Range(s) \cup Range(u)
        BY <2>1
      <3>1. CASE k \in 1 .. n
        BY <3>1, <1>1, <1>2, <1>3
      <3>2. CASE \E i \in 1 .. m : k = n + i
        <4>1. PICK i \in 1 .. m : k = n + i
          BY <3>2
        <4>2. v[k] = u[i]
          BY <4>1, <1>3
        <4> QED
          BY <4>2, <1>1, <1>2
      <3> QED
        BY <3>1, <3>2, <1>3
    <2>4. Range(s) \subseteq Range(v)
      BY <1>1, <1>2, <1>3, <2>1, <2>2
    <2>5. Range(u) \subseteq Range(v)
      <3> SUFFICES ASSUME NEW i \in 1 .. m PROVE u[i] \in Range(v)
        BY <1>1, <1>2
      <3>1. v[n + i] = u[i] /\ n + i \in 1 .. n + m
        BY <1>3, <2>2
      <3> QED
        BY <3>1, <2>1
    <2> QED
      BY <2>3, <2>4, <2>5
  <1>7. /\ \A i \in 1 .. n - 1 : s[i] # s[n] /\ i \in 1 .. n /\ i + 1 \in 1 .. n
        /\ \A j \in 1 .. m : s[n] # u[j]
        /\ n \in 1 .. n /\ 1 \in 1 .. n /\ 1 \in 1 .. m /\ m \in 1 .. m
    <2>1. /\ \A i \in 1 .. n - 1 : i # n /\ i \in 1 .. n /\ i + 1 \in 1 .. n
          /\ n \in 1 .. n /\ 1 \in 1 .. n /\ 1 \in 1 .. m /\ m \in 1 .. m
      OBVIOUS
    <2> QED
      BY <2>1, <1>4
  <1>8. /\ \A i \in 1 .. n - 1 : r[s[i]].st = "suspended" /\ r[s[i]].leaf = s[i + 1]
        /\ \A j \in 1 .. m : r[u[j]].st = q[u[j]].st /\ r[u[j]].leaf = q[u[j]].leaf
        /\ r[s[n]].st = "suspended" /\ r[s[n]].leaf = u[1]
    <2>1. \A i \in 1 .. n - 1 : q[s[i]].st = "suspended" /\ q[s[i]].leaf = s[i + 1]
      BY <1>2 DEF Shape, Path
    <2>2. /\ \A i \in 1 .. n : s[i] \in Range(s) \cup Range(u)
          /\ \A j \in 1 .. m : u[j] \in Range(s) \cup Range(u)
      BY <1>1, <1>2
    <2>3. \A x \in Range(s) \cup Range(u) : x # s[n] => r[x].st = q[x].st /\ r[x].leaf = q[x].leaf
      BY <1>2 DEF Joined
    <2>4. r[s[n]].st = "suspended" /\ r[s[n]].leaf = u[1]
      BY <1>1, <1>2 DEF Joined
    <2> QED
      BY <1>7, <2>1, <2>2, <2>3, <2>4
  <1>9. /\ \A j \in 1 .. m - 1 : q[u[j]].st = "suspended" /\ q[u[j]].leaf = u[j + 1] /\ j \in 1 .. m /\ j + 1 \in 1 .. m
        /\ q[u[m]].st # "free" /\ q[u[m]].leaf = None
    BY <1>2 DEF Shape, Path
  <1>10. \A k \in 1 .. n + m - 1 : k \in 1 .. n - 1 \/ k = n \/ \E j \in 1 .. m - 1 : k = n + j
    <2> TAKE k \in 1 .. n + m - 1
    <2>1. k \in 1 .. n - 1 \/ k = n \/ (k - n \in 1 .. m - 1 /\ k = n + (k - n))
      OBVIOUS
    <2> QED
      BY <2>1
  <1>11. \A k \in 1 .. n + m - 1 : r[v[k]].st = "suspended" /\ r[v[k]].leaf = v[k + 1]
    <2> SUFFICES ASSUME NEW k \in 1 .. n + m - 1 PROVE r[v[k]].st = "suspended" /\ r[v[k]].leaf = v[k + 1]
      OBVIOUS
    <2>1. CASE k \in 1 .. n - 1
      <3>1. v[k] = s[k] /\ v[k + 1] = s[k + 1]
        BY <2>1, <1>3, <1>7
      <3> QED
        BY <2>1, <3>1, <1>8
    <2>2. CASE k = n
      BY <2>2, <1>3, <1>7, <1>8
    <2>3. CASE \E j \in 1 .. m - 1 : k = n + j
      <3>1. PICK j \in 1 .. m - 1 : k = n + j
        BY <2>3
      <3>2. j \in 1 .. m /\ j + 1 \in 1 .. m /\ k + 1 = n + (j + 1)
        BY <3>1
      <3>3. v[k] = u[j] /\ v[k + 1] = u[j + 1]
        BY <3>1, <3>2, <1>3
      <3> QED
        BY <3>2, <3>3, <1>8, <1>9
    <2> QED
      BY <2>1, <2>2, <2>3, <1>10
  <1>12. v[n + m] = u[m] /\ r[u[m]].leaf = None /\ r[u[m]].st = q[u[m]].st /\ v[1] = h
    BY <1>1, <1>3, <1>7, <1>8, <1>9
  <1>13. Path(r, v)
    <2>1. \A i, j \in 1 .. Len(v) : v[i] = v[j] => i = j
      BY <1>3, <1>5
    <2>2. \A i \in 1 .. Len(v) - 1 : r[v[i]].leaf = v[i + 1]
      BY <1>3, <1>11
    <2>3. r[v[Len(v)]].leaf = None
      BY <1>3, <1>12
    <2> QED
      BY <1>3, <2>1, <2>2, <2>3 DEF Path
  <1>14. q[u[m]].st = "done" => m # 1
    BY <1>1
  <1>15. WorkAt(r, v) = n + WorkAt(q, u)
    BY <1>2, <1>3, <1>12, <1>14 DEF WorkAt
  <1>16. v[WorkAt(r, v)] = u[WorkAt(q, u)] /\ q[t].worker = u[WorkAt(q, u)]
    <2>1. q[t].worker = u[WorkAt(q, u)] /\ WorkAt(q, u) \in 1 .. m
      BY <1>1, <1>2 DEF Shape
    <2> HIDE DEF WorkAt
    <2> QED
      BY <1>3, <1>15, <2>1
  <1>17. r[h].worker = v[WorkAt(r, v)] /\ r[v[WorkAt(r, v)]].root = h
    BY <1>16 DEF Joined
  <1>18. \A k \in 2 .. n + m : r[v[k]].st # "done" => r[v[k]].link = v[k - 1]
    <2> SUFFICES ASSUME NEW k \in 2 .. n + m, r[v[k]].st # "done" PROVE r[v[k]].link = v[k - 1]
      OBVIOUS
    <2>1. CASE k \in 1 .. n
      <3>1. k \in 2 .. n /\ k - 1 \in 1 .. n /\ (k = n \/ k \in 1 .. n - 1)
        BY <2>1
      <3>2. q[s[k]].st # "done"
        BY <3>1, <1>2 DEF Shape
      <3>3. q[s[k]].link = s[k - 1]
        BY <3>1, <3>2, <1>2 DEF Shape
      <3>4. s[k] # t /\ s[k] \in Range(s)
        BY <2>1, <1>1, <1>2, <1>4, <1>7
      <3> QED
        BY <2>1, <3>1, <3>3, <3>4, <1>3 DEF Joined
    <2>2. CASE k = n + 1
      <3>1. v[k] = t /\ v[k - 1] = s[n]
        BY <2>2, <1>1, <1>3, <1>7
      <3> QED
        BY <3>1, <1>2 DEF Joined
    <2>3. CASE k \notin 1 .. n /\ k # n + 1
      <3>1. PICK j \in 1 .. m : k = n + j
        BY <2>3, <1>3
      <3>2. j \in 2 .. m /\ j - 1 \in 1 .. m /\ k - 1 = n + (j - 1) /\ j # 1
        BY <2>3, <3>1
      <3>3. v[k] = u[j] /\ v[k - 1] = u[j - 1]
        BY <3>1, <3>2, <1>3
      <3>4. q[u[j]].st # "done"
        BY <3>3, <1>8
      <3>5. q[u[j]].link = u[j - 1]
        BY <3>2, <3>4, <1>2 DEF Shape
      <3>6. u[j] # t /\ u[j] \in Range(u)
        BY <3>2, <1>1, <1>2, <1>4, <1>7
      <3> QED
        BY <3>3, <3>5, <3>6 DEF Joined
    <2> QED
      BY <2>1, <2>2, <2>3
  <1>19. Shape(r, h, v)
    BY <1>3, <1>9, <1>11, <1>12, <1>13, <1>17, <1>18 DEF Shape
  <1>20. Work(r, v) = s \o Work(q, u)
    BY <1>2, <1>3, <1>12 DEF Work, v
  <1>21. r[h].st # "done"
    <2>1. 1 \in 1 .. n + m - 1
      OBVIOUS
    <2> QED
      BY <2>1, <1>11, <1>12
  <1> QED
    BY <1>2, <1>3, <1>6, <1>12, <1>19, <1>20, <1>21 DEF v
-----------------------------------------------------------------------------
(***************************************************************************)
(* What the member functions do to a forest.                               *)
(***************************************************************************)
LEMMA ForestFacts ==
  ASSUME NEW q, NEW H, Forest(q, H), NEW h \in H
  PROVE  /\ Shape(q, h, Chain(q, h)) /\ q \in [Frames -> Promise] /\ H \subseteq Frames
         /\ Chain(q, h) \in Seq(Frames) /\ Len(Chain(q, h)) \in Nat \ {0} /\ Chain(q, h)[1] = h
         /\ h \in Range(Chain(q, h)) /\ q[h].worker \in Range(Chain(q, h))
         /\ Range(Chain(q, h)) \subseteq Frames
         /\ \A x \in Range(Chain(q, h)) : q[x].st # "free" /\ \A g \in H \ {h} : x \notin Range(Chain(q, g))
         /\ \A x \in Frames : (\A g \in H \ {h} : x \notin Range(Chain(q, g))) =>
              /\ q[x].st # "free" => x \in Range(Chain(q, h))
              /\ q[x].st = "free" => q[x].leaf = None
  <1>1. Shape(q, h, Chain(q, h)) /\ q \in [Frames -> Promise] /\ H \subseteq Frames
    BY DEF Forest
  <1>2. /\ \A x \in Range(Chain(q, h)) : \A g \in H \ {h} : x \notin Range(Chain(q, g))
        /\ \A x \in Frames : (\A g \in H \ {h} : x \notin Range(Chain(q, g))) =>
              /\ q[x].st # "free" => x \in Range(Chain(q, h))
              /\ q[x].st = "free" => q[x].leaf = None
    BY DEF Forest
  <1> QED
    BY <1>1, <1>2, ShapeFacts

\* A call: the new frame is a head.
LEMMA CallForest ==
  ASSUME NEW q, NEW H, Forest(q, H), NEW f \in Frames, q[f].st = "free", NEW l \in LinkTypes,
         NEW r, r = Call(q, f, l)
  PROVE  /\ Forest(r, H \cup {f}) /\ f \notin H
         /\ Chain(r, f) = <<f>> /\ Work(r, <<f>>) = <<f>> /\ ~Active(r, f)
         /\ r[f].st = "suspended" /\ r[f].link = l /\ \A x \in Frames \ {f} : r[x] = q[x]
         /\ \A g \in H : Kept(q, r, g)
  <1>1. q \in [Frames -> Promise] /\ H \subseteq Frames
    BY DEF Forest
  <1>2. /\ r[f] = [st |-> "suspended", root |-> f, worker |-> f, link |-> l, leaf |-> None]
        /\ \A x \in Frames \ {f} : r[x] = q[x]
        /\ r \in [Frames -> Promise]
    BY <1>1 DEF Call, NoFrame, Promise
  <1>3. \A g \in H : \A x \in Range(Chain(q, g)) : x # f /\ x \in Frames
    BY ForestFacts
  <1>4. f \notin H
    BY <1>3, ForestFacts
  <1> DEFINE s == <<f>>
             X == {}
  <1>5. s \in Seq(Frames) /\ Len(s) = 1 /\ s[1] = f /\ s # <<>>
    OBVIOUS
  <1>6. Range(s) = {f}
    <2>1. Range(s) = {s[i] : i \in 1 .. 1}
      BY <1>5, RangeOfPath
    <2> QED
      BY <2>1, <1>5
  <1> HIDE DEF s
  <1>7. WorkAt(r, s) = 1 /\ Work(r, s) = s
    BY <1>2, <1>5 DEF WorkAt, Work
  <1>8. Path(r, s)
    BY <1>2, <1>5 DEF Path
  <1>9. Shape(r, f, s)
    BY <1>2, <1>5, <1>7, <1>8 DEF Shape
  <1>10. Put(q, r, H, X, f, s)
    <2>1. \A g \in H : \A x \in Range(Chain(q, g)) : SameFrame(q, r, x, g)
      BY <1>2, <1>3 DEF SameFrame
    <2>2. \A g \in H : Range(s) \cap Range(Chain(q, g)) = {}
      BY <1>3, <1>6
    <2>3. \A x \in Frames : (\A g \in H : x \notin Range(Chain(q, g))) =>
            /\ r[x].st # "free" => x \in Range(s)
            /\ r[x].st = "free" => r[x].leaf = None
      BY <1>2, <1>6 DEF Forest
    <2> QED
      BY <1>2, <1>9, <2>1, <2>2, <2>3 DEF Put
  <1>11. X \in SUBSET H /\ (H \ X) \cup {f} = H \cup {f} /\ H \ X = H
    OBVIOUS
  <1> HIDE DEF X
  <1>12. Forest(r, (H \ X) \cup {f}) /\ Chain(r, f) = s /\ \A g \in H \ X : Kept(q, r, g)
    BY <1>10, ForestPut
  <1>13. ~Active(r, f)
    BY <1>2 DEF Active
  <1> QED
    BY <1>2, <1>4, <1>7, <1>11, <1>12, <1>13 DEF s

\* destroy(): the frames of the chain are gone.
LEMMA DestroyForest ==
  ASSUME NEW q, NEW H, Forest(q, H), NEW h \in H, NEW r, r = Destroy(q, h)
  PROVE  /\ Forest(r, H \ {h})
         /\ \A g \in H \ {h} : Kept(q, r, g) /\ r[g] = q[g]
  <1>1. q \in [Frames -> Promise] /\ H \subseteq Frames
    BY DEF Forest
  <1>2. \A x \in Frames : r[x] = IF x \in Range(Chain(q, h)) THEN NoFrame(x) ELSE q[x]
    BY DEF Destroy
  <1>3. \A x \in Frames : NoFrame(x) \in Promise /\ NoFrame(x).st = "free" /\ NoFrame(x).leaf = None
    BY DEF NoFrame, Promise, LinkTypes
  <1>4. r \in [Frames -> Promise]
    <2>1. r = [x \in Frames |-> IF x \in Range(Chain(q, h)) THEN NoFrame(x) ELSE q[x]]
      BY DEF Destroy
    <2> QED
      BY <1>1, <1>3, <2>1
  <1>5. \A g \in H \ {h} : \A x \in Range(Chain(q, g)) : x \in Frames /\ x \notin Range(Chain(q, h))
    BY ForestFacts
  <1>6. \A g \in H \ {h} : \A x \in Range(Chain(q, g)) : r[x] = q[x]
    BY <1>2, <1>5
  <1>7. Less(q, r, H, {h})
    <2>1. \A g \in H \ {h} : \A x \in Range(Chain(q, g)) : SameFrame(q, r, x, g)
      BY <1>6 DEF SameFrame
    <2>2. \A x \in Frames : (\A g \in H \ {h} : x \notin Range(Chain(q, g))) =>
            r[x].st = "free" /\ r[x].leaf = None
      <3> SUFFICES ASSUME NEW x \in Frames, \A g \in H \ {h} : x \notin Range(Chain(q, g))
                   PROVE  r[x].st = "free" /\ r[x].leaf = None
        OBVIOUS
      <3>1. CASE x \in Range(Chain(q, h))
        BY <3>1, <1>2, <1>3
      <3>2. CASE x \notin Range(Chain(q, h))
        BY <3>2, <1>2, ForestFacts
      <3> QED
        BY <3>1, <3>2
    <2> QED
      BY <1>4, <2>1, <2>2 DEF Less
  <1>8. Forest(r, H \ {h}) /\ \A g \in H \ {h} : Kept(q, r, g)
    BY <1>7, ForestLess
  <1>9. \A g \in H \ {h} : g \in Range(Chain(q, g))
    BY ForestFacts
  <1> QED
    BY <1>6, <1>8, <1>9

\* There is nothing to destroy for nullptr.
LEMMA DestroyNone == ASSUME NEW q \in [Frames -> Promise] PROVE Destroy(q, None) = q
  <1>1. Range(Chain(q, None)) = {}
    BY ChainOfNone DEF Range
  <1> QED
    BY <1>1 DEF Destroy

\* The promise of a head learns its consumer.
Told(q, r, h, l) == l \in LinkTypes /\ r = [q EXCEPT ![h].link = l]

\* Who learns its consumer keeps its frames.
LEMMA LinkForest ==
  ASSUME NEW q, NEW H, Forest(q, H), NEW h \in H, NEW l, NEW r, Told(q, r, h, l)
  PROVE  /\ Forest(r, H) /\ \A g \in H : Kept(q, r, g)
         /\ r[h].link = l /\ r[h].worker = q[h].worker /\ \A x \in Frames \ {h} : r[x] = q[x]
  <1>0. l \in LinkTypes /\ r = [q EXCEPT ![h].link = l]
    BY DEF Told
  <1> USE <1>0
  <1>1. q \in [Frames -> Promise] /\ H \subseteq Frames /\ h \in Frames
    BY DEF Forest
  <1>2. /\ r[h].link = l /\ r[h].st = q[h].st /\ r[h].leaf = q[h].leaf
        /\ r[h].root = q[h].root /\ r[h].worker = q[h].worker
        /\ \A x \in Frames \ {h} : r[x] = q[x]
    BY <1>1 DEF Promise
  <1>3. r \in [Frames -> Promise]
    BY <1>1 DEF Promise
  <1>4. \A g \in H : \A x \in Range(Chain(q, g)) : x \in Frames /\ (x = h => g = h)
    BY ForestFacts
  <1> DEFINE X == {}
             s == Chain(q, h)
  <1>5. X \in SUBSET H /\ {h} \in SUBSET H /\ (H \ {h}) \cup {h} = H
    OBVIOUS
  <1>6. /\ \A g \in H : \A x \in Range(Chain(q, g)) : SameFrame(q, r, x, g)
        /\ \A x \in Frames : r[x].st = q[x].st /\ r[x].leaf = q[x].leaf
    BY <1>2, <1>4 DEF SameFrame
  <1>7. Shape(q, h, s)
    BY DEF Forest
  <1>8. Shape(r, h, s) /\ Work(r, s) = Work(q, s)
    <2>1. \A x \in Range(s) : SameFrame(q, r, x, h)
      BY <1>6
    <2> HIDE DEF s
    <2> QED
      BY ONLY <1>7, <2>1, ShapeKept
  <1>9. Put(q, r, H, {h}, h, s)
    <2>1. \A g \in H \ {h} : Range(s) \cap Range(Chain(q, g)) = {}
      BY DEF Forest
    <2>2. \A x \in Frames : (\A g \in H \ {h} : x \notin Range(Chain(q, g))) =>
            /\ r[x].st # "free" => x \in Range(s)
            /\ r[x].st = "free" => r[x].leaf = None
      BY <1>6, ForestFacts
    <2> QED
      BY <1>3, <1>6, <1>8, <2>1, <2>2 DEF Put
  <1> HIDE DEF s
  <1>10. Forest(r, (H \ {h}) \cup {h}) /\ Chain(r, h) = s /\ \A g \in H \ {h} : Kept(q, r, g)
    BY <1>9, ForestPut
  <1>11. Active(r, h) <=> Active(q, h)
    <2>1. q[h].worker \in Frames
      BY <1>1 DEF Promise
    <2> QED
      BY <1>2, <1>6, <2>1 DEF Active
  <1>12. Kept(q, r, h)
    BY <1>2, <1>8, <1>10, <1>11 DEF Kept, s
  <1> QED
    BY <1>2, <1>5, <1>10, <1>12

\* Only the frames of head h have changed: s is left of them.
Local(q, r, h, s) ==
  /\ r \in [Frames -> Promise] /\ Shape(r, h, s) /\ Range(s) \subseteq Range(Chain(q, h))
  /\ \A x \in Frames \ Range(Chain(q, h)) : r[x] = q[x]
  /\ \A x \in Range(Chain(q, h)) \ Range(s) : r[x].st = "free" /\ r[x].leaf = None

\* A step within one chain leaves the others alone.
LEMMA LocalForest ==
  ASSUME NEW q, NEW r, NEW H, NEW h, NEW s, Forest(q, H), h \in H, Local(q, r, h, s)
  PROVE  Forest(r, H) /\ Chain(r, h) = s /\ \A g \in H \ {h} : Kept(q, r, g) /\ r[g] = q[g]
  <1> DEFINE u == Chain(q, h)
  <1>1. /\ \A x \in Range(u) : q[x].st # "free" /\ \A g \in H \ {h} : x \notin Range(Chain(q, g))
        /\ \A x \in Frames : (\A g \in H \ {h} : x \notin Range(Chain(q, g))) =>
              /\ q[x].st # "free" => x \in Range(u)
              /\ q[x].st = "free" => q[x].leaf = None
    BY ForestFacts
  <1>2. \A g \in H \ {h} : g \in Range(Chain(q, g)) /\ Range(Chain(q, g)) \subseteq Frames
    BY ForestFacts
  <1> HIDE DEF u
  <1>3. \A g \in H \ {h} : \A x \in Range(Chain(q, g)) : x \in Frames \ Range(u)
    BY <1>1, <1>2
  <1>4. /\ \A x \in Frames \ Range(u) : r[x] = q[x]
        /\ \A x \in Range(u) \ Range(s) : r[x].st = "free" /\ r[x].leaf = None
        /\ Range(s) \subseteq Range(u)
    BY DEF Local, u
  <1>5. \A g \in H \ {h} : \A x \in Range(Chain(q, g)) : SameFrame(q, r, x, g)
    BY <1>3, <1>4 DEF SameFrame
  <1>6. \A g \in H \ {h} : Range(s) \cap Range(Chain(q, g)) = {}
    BY <1>1, <1>4
  <1>7. Shape(r, h, s)
    BY DEF Local
  <1>8. \A x \in Range(s) : r[x].st # "free"
    BY <1>7, ShapeFacts
  <1>9. \A x \in Frames : (\A g \in H \ {h} : x \notin Range(Chain(q, g))) =>
          /\ r[x].st # "free" => x \in Range(s)
          /\ r[x].st = "free" => r[x].leaf = None
    <2> SUFFICES ASSUME NEW x \in Frames, \A g \in H \ {h} : x \notin Range(Chain(q, g))
                 PROVE  /\ r[x].st # "free" => x \in Range(s)
                        /\ r[x].st = "free" => r[x].leaf = None
      OBVIOUS
    <2>1. CASE x \in Range(s)
      BY <2>1, <1>8
    <2>2. CASE x \in Range(u) \ Range(s)
      BY <2>2, <1>4
    <2>3. CASE x \notin Range(u)
      BY <2>3, <1>1, <1>4
    <2> QED
      BY <2>1, <2>2, <2>3, <1>4
  <1>10. r \in [Frames -> Promise] /\ {h} \subseteq H
    BY DEF Local
  <1> DEFINE X == {h}
  <1>11. Put(q, r, H, X, h, s)
    BY <1>5, <1>6, <1>7, <1>9, <1>10 DEF Put
  <1> HIDE DEF X
  <1>12. Forest(r, (H \ X) \cup {h}) /\ Chain(r, h) = s /\ \A g \in H \ X : Kept(q, r, g)
    BY <1>11, ForestPut
  <1>13. (H \ X) \cup {h} = H /\ H \ X = H \ {h}
    BY DEF X
  <1> QED
    BY <1>2, <1>3, <1>4, <1>12, <1>13

\* A frame that runs is the innermost one of its chain and knows its head.
LEMMA HeadOf ==
  ASSUME NEW q, NEW H, Forest(q, H), NEW f \in Frames, q[f].st = "running",
         NEW h, h = q[f].root, NEW s, s = Chain(q, h)
  PROVE  /\ h \in H /\ f \in Range(s) /\ f = s[Len(s)] /\ q[h].worker = f /\ Active(q, h) /\ Work(q, s) = s
         /\ WorkAt(q, s) = Len(s) /\ q[f].leaf = None
         /\ f = h => Len(s) = 1
         /\ f # h => Len(s) > 1 /\ q[f].link = s[Len(s) - 1] /\ q[h].st = "suspended"
  <1>1. PICK g \in H : f \in Range(Chain(q, g))
    BY DEF Forest
  <1> DEFINE u == Chain(q, g)
  <1>2. Shape(q, g, u)
    BY DEF Forest
  <1> HIDE DEF u
  <1>3. /\ u \in Seq(Frames) /\ Len(u) \in Nat \ {0} /\ u[1] = g /\ f = u[Len(u)]
    BY <1>1, <1>2, ShapeFacts DEF u
  <1>4. WorkAt(q, u) = Len(u) /\ Work(q, u) = u
    BY <1>3 DEF WorkAt, Work
  <1>5. q[g].worker = f /\ q[f].root = g /\ q[f].leaf = None
    BY <1>2, <1>3, <1>4 DEF Shape, Path
  <1>6. g = h /\ u = s
    BY <1>5 DEF u
  <1>7. f = h => Len(u) = 1
    <2>1. \A i, j \in 1 .. Len(u) : u[i] = u[j] => i = j
      BY <1>2 DEF Shape, Path
    <2>2. 1 \in 1 .. Len(u) /\ Len(u) \in 1 .. Len(u)
      BY <1>3
    <2> QED
      BY <1>3, <1>6, <2>1, <2>2
  <1>8. f # h => Len(u) > 1 /\ q[f].link = u[Len(u) - 1] /\ q[h].st = "suspended"
    <2> SUFFICES ASSUME f # h PROVE Len(u) > 1 /\ q[f].link = u[Len(u) - 1] /\ q[h].st = "suspended"
      OBVIOUS
    <2>1. Len(u) # 1
      BY <1>3, <1>6
    <2>2. Len(u) \in 2 .. Len(u) /\ Len(u) > 1 /\ 1 \in 1 .. Len(u) - 1
      <3>1. \A n \in Nat \ {0} : n # 1 => n \in 2 .. n /\ n > 1 /\ 1 \in 1 .. n - 1
        OBVIOUS
      <3> QED
        BY <1>3, <2>1, <3>1
    <2> QED
      BY <1>2, <1>3, <1>6, <2>2, Zenon DEF Shape
  <1>9. Active(q, h)
    BY <1>5, <1>6 DEF Active
  <1> QED
    BY <1>1, <1>3, <1>4, <1>5, <1>6, <1>7, <1>8, <1>9

\* The frame that runs yields a value, or is a root and ends.
Stopped(q, r, f, h, v) ==
  /\ f \in Frames /\ q[f].st = "running" /\ h = q[f].root
  /\ v \in {"suspended", "done"} /\ (v = "done" => f = h)
  /\ r = [q EXCEPT ![f].st = v]

\* The chain after a co_yield, or after the end of its root.
LEMMA StopForest ==
  ASSUME NEW q, NEW H, Forest(q, H), NEW r, NEW f, NEW h, NEW v, Stopped(q, r, f, h, v)
  PROVE  /\ Forest(r, H) /\ ~Active(r, h) /\ Chain(r, h) = Chain(q, h)
         /\ Work(r, Chain(q, h)) = IF v = "done" THEN <<>> ELSE Chain(q, h)
         /\ r[h].st = IF f = h THEN v ELSE "suspended"
         /\ \A g \in H \ {h} : Kept(q, r, g)
         /\ \A x \in Frames : r[x].link = q[x].link
  <1>0. /\ f \in Frames /\ q[f].st = "running" /\ h = q[f].root
        /\ v \in {"suspended", "done"} /\ (v = "done" => f = h)
        /\ r = [q EXCEPT ![f].st = v]
    BY DEF Stopped
  <1> USE <1>0
  <1>1. q \in [Frames -> Promise] /\ H \subseteq Frames
    BY DEF Forest
  <1>2. /\ r[f].st = v /\ \A x \in Frames \ {f} : r[x] = q[x]
        /\ r[f].link = q[f].link /\ r[f].root = q[f].root /\ r[f].worker = q[f].worker /\ r[f].leaf = q[f].leaf
    BY <1>1 DEF Promise
  <1>3. r \in [Frames -> Promise]
    BY <1>1 DEF Promise
  <1> DEFINE s == Chain(q, h)
  <1>4. /\ h \in H /\ f \in Range(s) /\ f = s[Len(s)] /\ q[h].worker = f /\ Work(q, s) = s
        /\ WorkAt(q, s) = Len(s) /\ q[f].leaf = None
        /\ f = h => Len(s) = 1
        /\ f # h => Len(s) > 1 /\ q[h].st = "suspended"
    BY HeadOf
  <1>5. Shape(q, h, s)
    BY <1>4, Zenon DEF Forest
  <1> HIDE DEF s
  <1>6. s \in Seq(Frames) /\ Len(s) \in Nat \ {0} /\ Range(s) \subseteq Frames
    BY <1>5, ShapeFacts
  <1>7. \A i \in 1 .. Len(s) - 1 : s[i] \in Frames \ {f}
    <2>1. \A i, j \in 1 .. Len(s) : s[i] = s[j] => i = j
      BY <1>5 DEF Shape, Path
    <2>2. \A i \in 1 .. Len(s) - 1 : i # Len(s) /\ i \in 1 .. Len(s) /\ Len(s) \in 1 .. Len(s)
      BY <1>6
    <2> QED
      BY <1>4, <1>6, <2>1, <2>2
  <1>8. \A i \in 1 .. Len(s) - 1 : SameFrame(q, r, s[i], h)
    BY <1>2, <1>7 DEF SameFrame
  <1>9. Shape(r, h, s)
    <2>1. r[f].leaf = None
      BY <1>2, <1>4
    <2>2. r[f].st # "free"
      BY <1>2
    <2>3. r[f].st = "done" => Len(s) = 1
      BY <1>2, <1>4
    <2>4. f # h => r[f].link = q[f].link
      BY <1>2
    <2>5. r[f].root = q[f].root /\ r[f].worker = q[f].worker /\ WorkAt(q, s) = Len(s) /\ f = s[Len(s)]
      BY <1>2, <1>4
    <2> QED
      BY ONLY <1>5, <1>8, <2>1, <2>2, <2>3, <2>4, <2>5, ShapeActive
  <1>10. Local(q, r, h, s)
    BY <1>2, <1>3, <1>4, <1>9, Zenon DEF Local, s
  <1>11. Forest(r, H) /\ Chain(r, h) = s /\ \A g \in H \ {h} : Kept(q, r, g)
    <2>1. Forest(q, H) /\ h \in H
      BY <1>4
    <2> QED
      BY ONLY <2>1, <1>10, LocalForest
  <1>13. r[h].worker = f /\ ~Active(r, h)
    BY <1>1, <1>2, <1>4 DEF Active
  <1>14. Work(r, s) = IF v = "done" THEN <<>> ELSE s
    <2>1. CASE v = "done"
      <3>1. Len(Front(s)) = 0 /\ Front(s) \in Seq(Frames)
        <4>1. s # <<>>
          BY <1>6
        <4> QED
          BY <2>1, <4>1, <1>4, <1>6, FrontFacts
      <3>2. Front(s) = <<>>
        BY <3>1
      <3> QED
        BY <1>2, <1>4, <2>1, <3>2 DEF Work
    <2>2. CASE v # "done"
      BY <1>2, <1>4, <2>2 DEF Work
    <2> QED
      BY <2>1, <2>2
  <1> QED
    BY <1>1, <1>2, <1>4, <1>11, <1>13, <1>14, Zenon DEF s

\* promise.skip_this_leaf() for the leaf f, which ends: the owner is the worker.
Skipped(q, r, f) ==
  /\ r \in [Frames -> Promise]
  /\ \A x \in Frames \ {f} : r[x].st = q[x].st /\ r[x].leaf = q[x].leaf /\ r[x].link = q[x].link
  /\ \A x \in Frames \ {f, q[f].link, q[f].root} : r[x] = q[x]
  /\ r[f].st = "done" /\ r[f].leaf = q[f].leaf
  /\ r[q[f].link].root = q[f].root /\ r[q[f].root].worker = q[f].link

\* The chain after the end of a leaf: one frame less to execute.
LEMMA SkipForest ==
  ASSUME NEW q, NEW H, Forest(q, H), NEW f \in Frames, q[f].st = "running",
         NEW h, h = q[f].root, f # h, NEW r, Skipped(q, r, f)
  PROVE  /\ Forest(r, H) /\ ~Active(r, h) /\ Chain(r, h) = Chain(q, h)
         /\ Work(r, Chain(q, h)) = Front(Chain(q, h)) /\ WorkAt(r, Chain(q, h)) = Len(Chain(q, h)) - 1
         /\ r[h].st = "suspended" /\ r[h].worker = q[f].link
         /\ \A g \in H \ {h} : Kept(q, r, g)
         /\ \A g \in H : r[g].link = q[g].link
  <1>1. q \in [Frames -> Promise] /\ H \subseteq Frames
    BY DEF Forest
  <1> DEFINE s == Chain(q, h)
             y == q[f].link
  <1>2. /\ h \in H /\ f \in Range(s) /\ f = s[Len(s)] /\ q[h].worker = f
        /\ q[f].leaf = None /\ Len(s) > 1 /\ y = s[Len(s) - 1] /\ q[h].st = "suspended"
    BY HeadOf
  <1>3. Shape(q, h, s)
    BY <1>2 DEF Forest
  <1> HIDE DEF s
  <1>4. s \in Seq(Frames) /\ Len(s) \in Nat \ {0} /\ Range(s) \subseteq Frames /\ Range(s) = {s[i] : i \in 1 .. Len(s)}
    BY <1>3, ShapeFacts
  <1>5. Len(s) - 1 \in 1 .. Len(s) /\ Len(s) - 1 \in 1 .. Len(s) - 1
    <2>1. Len(s) > 1 /\ Len(s) \in Nat
      BY <1>2, <1>4
    <2> QED
      BY <2>1
  <1>6. \A i \in 1 .. Len(s) - 1 : s[i] \in Frames \ {f}
    <2>1. \A i, j \in 1 .. Len(s) : s[i] = s[j] => i = j
      BY <1>3 DEF Shape, Path
    <2>2. \A i \in 1 .. Len(s) - 1 : i # Len(s) /\ i \in 1 .. Len(s) /\ Len(s) \in 1 .. Len(s)
      BY <1>4
    <2> QED
      BY <1>2, <1>4, <2>1, <2>2
  <1>7. y \in Range(s) /\ y \in Frames \ {f} /\ h \in Frames \ {f} /\ h \in Range(s)
    <2>1. y \in Frames \ {f}
      BY <1>2, <1>5, <1>6
    <2>2. y \in Range(s)
      BY <1>2, <1>4, <1>5
    <2>3. h \in Range(s)
      BY <1>3, ShapeFacts
    <2> QED
      BY <1>1, <1>2, <2>1, <2>2, <2>3
  <1> HIDE DEF y
  <1>8. /\ r[h].worker = y /\ r[y].root = h /\ r[f].st = "done" /\ r[f].leaf = None
        /\ \A x \in Frames \ {f, y, h} : r[x] = q[x]
        /\ \A x \in Frames \ {f} : r[x].st = q[x].st /\ r[x].leaf = q[x].leaf /\ r[x].link = q[x].link
    BY <1>2 DEF Skipped, y
  <1>9. Shape(r, h, s) /\ Work(r, s) = Front(s) /\ WorkAt(r, s) = Len(s) - 1
    <2>1. \A i \in 1 .. Len(s) - 1 : /\ r[s[i]].st = q[s[i]].st /\ r[s[i]].leaf = q[s[i]].leaf
                                     /\ s[i] # h => r[s[i]].link = q[s[i]].link
      BY <1>6, <1>8
    <2> QED
      BY <1>2, <1>3, <1>8, <2>1, ShapeSkip
  <1>10. Local(q, r, h, s)
    <2>1. r \in [Frames -> Promise]
      BY DEF Skipped
    <2> QED
      BY <1>2, <1>7, <1>8, <1>9, <2>1, Zenon DEF Local, s
  <1>11. Forest(r, H) /\ Chain(r, h) = s /\ \A g \in H \ {h} : Kept(q, r, g)
    BY <1>2, <1>10, LocalForest
  <1>13. ~Active(r, h)
    <2>1. r[y].st = "suspended"
      BY <1>2, <1>3, <1>5, <1>7, <1>8 DEF Shape
    <2> QED
      BY <1>8, <2>1 DEF Active
  <1>14. \A g \in H : g # f
    <2> SUFFICES ASSUME f \in H PROVE FALSE
      OBVIOUS
    <2>1. f \in Range(Chain(q, f))
      BY ForestFacts
    <2> QED
      BY <1>2, <2>1 DEF Forest, s
  <1>15. \A g \in H : r[g].link = q[g].link
    BY <1>1, <1>8, <1>14
  <1> QED
    BY <1>2, <1>7, <1>8, <1>9, <1>11, <1>13, <1>15, Zenon DEF s, y

\* A frame that goes on without a leaf is a frame still.
LEMMA RunningPromise ==
  ASSUME NEW a \in Promise
  PROVE  [a EXCEPT !.st = "running", !.leaf = None] \in Promise
  <1> DEFINE b == [a EXCEPT !.st = "running"]
  <1>1. b \in Promise
    BY DEF Promise
  <1> HIDE DEF b
  <1>2. [b EXCEPT !.leaf = None] \in Promise
    BY <1>1 DEF Promise
  <1> QED
    BY <1>2 DEF b

\* The worker of head h goes on; a leaf of it that has ended is destroyed first.
LEMMA ResumeForest ==
  ASSUME NEW q, NEW H, Forest(q, H), NEW h \in H, ~Active(q, h), q[h].st # "done",
         NEW r, r = Resume(q, q[h].worker)
  PROVE  /\ Forest(r, H) /\ Active(r, h) /\ r[h].st # "done"
         /\ Chain(r, h) = Work(q, Chain(q, h)) /\ Work(r, Chain(r, h)) = Chain(r, h)
         /\ \A g \in H \ {h} : Kept(q, r, g)
         /\ \A g \in H : r[g].link = q[g].link
  <1> DEFINE s == Chain(q, h)
             w == q[h].worker
             e == q[w].leaf
  <1>1. q \in [Frames -> Promise] /\ H \subseteq Frames /\ h \in Frames
    BY DEF Forest
  <1>2. Shape(q, h, s)
    BY DEF Forest
  <1> HIDE DEF s
  <1>3. /\ s \in Seq(Frames) /\ Len(s) \in Nat \ {0} /\ s[1] = h /\ h \in Range(s)
        /\ Range(s) \subseteq Frames /\ Range(s) = {s[i] : i \in 1 .. Len(s)}
        /\ WorkAt(q, s) \in 1 .. Len(s) /\ w \in Range(s)
    BY <1>2, ShapeFacts
  <1>4. w = s[WorkAt(q, s)] /\ q[w].root = h
    BY <1>2 DEF Shape
  <1>5. \A i, j \in 1 .. Len(s) : s[i] = s[j] => i = j
    BY <1>2 DEF Shape, Path
  <1>6. w \in Frames
    BY <1>3
  <1> HIDE DEF w, e
  <1>7. r = [Destroy(q, e) EXCEPT ![w].st = "running", ![w].leaf = None]
    BY DEF Resume, w, e
  <1>8. CASE WorkAt(q, s) = Len(s)
    <2>1. w = s[Len(s)] /\ q[w].leaf = None /\ e = None
      BY <1>2, <1>4, <1>8 DEF Shape, Path, e
    <2>2. r = [q EXCEPT ![w].st = "running", ![w].leaf = None]
      BY <1>1, <1>7, <2>1, DestroyNone
    <2>3. /\ r[w].st = "running" /\ r[w].leaf = None /\ r[w].root = q[w].root /\ r[w].worker = q[w].worker
          /\ r[w].link = q[w].link /\ \A x \in Frames \ {w} : r[x] = q[x]
      BY <1>1, <1>6, <2>2 DEF Promise
    <2>4. r \in [Frames -> Promise]
      <3>1. [q[w] EXCEPT !.st = "running", !.leaf = None] \in Promise
        BY <1>1, <1>6, RunningPromise
      <3>2. r = [q EXCEPT ![w] = [q[w] EXCEPT !.st = "running", !.leaf = None]]
        BY <1>1, <1>6, <2>2 DEF Promise
      <3> QED
        BY <1>1, <3>1, <3>2
    <2>5. \A i \in 1 .. Len(s) - 1 : s[i] \in Frames \ {w}
      <3>1. \A i \in 1 .. Len(s) - 1 : i # Len(s) /\ i \in 1 .. Len(s) /\ Len(s) \in 1 .. Len(s)
        BY <1>3
      <3> QED
        BY <1>3, <1>5, <2>1, <3>1
    <2>6. \A i \in 1 .. Len(s) - 1 : SameFrame(q, r, s[i], h)
      BY <2>3, <2>5 DEF SameFrame
    <2>7. Shape(r, h, s)
      <3>1. r[w].st # "free" /\ (r[w].st = "done" => Len(s) = 1) /\ (w # h => r[w].link = q[w].link)
        BY <2>3
      <3> QED
        BY <1>2, <1>8, <2>1, <2>3, <2>6, <3>1, ShapeActive
    <2>8. Local(q, r, h, s)
      BY <1>3, <2>3, <2>4, <2>7 DEF Local, s
    <2>9. Forest(r, H) /\ Chain(r, h) = s /\ \A g \in H \ {h} : Kept(q, r, g)
      <3>1. Forest(q, H) /\ h \in H
        OBVIOUS
      <3> QED
        BY ONLY <2>8, <3>1, LocalForest
    <2>10. Work(q, s) = s /\ Work(r, s) = s
      <3>1. q[w].st # "done"
        <4>1. CASE Len(s) = 1
          BY <4>1, <1>3, <2>1
        <4>2. CASE Len(s) # 1
          <5>1. \A n \in Nat \ {0} : n # 1 => n > 1 /\ n # n - 1
            OBVIOUS
          <5>2. Len(s) > 1 /\ Len(s) # Len(s) - 1
            BY <1>3, <4>2, <5>1
          <5> QED
            BY <1>8, <2>1, <5>2 DEF WorkAt
        <4> QED
          BY <4>1, <4>2
      <3> QED
        BY <2>1, <2>3, <3>1 DEF Work
    <2>11. r[h].worker = w /\ r[w].st = "running"
      BY <1>1, <2>3 DEF w
    <2>12. r[h].st # "done"
      BY <1>1, <2>3
    <2>13. \A g \in H : r[g].link = q[g].link
      BY <1>1, <2>3
    <2> QED
      BY <2>9, <2>10, <2>11, <2>12, <2>13 DEF Active, s
  <1>9. CASE WorkAt(q, s) # Len(s)
    <2>1. Len(s) > 1 /\ WorkAt(q, s) = Len(s) - 1 /\ q[s[Len(s)]].st = "done"
      BY <1>9 DEF WorkAt
    <2>2. PICK n \in Nat : n = Len(s) /\ n > 1
      BY <1>3, <2>1
    <2>3. n \in 1 .. n /\ n - 1 \in 1 .. n /\ n - 1 \in 1 .. n - 1 /\ n - 1 + 1 = n /\ n # n - 1
      BY <2>2
    <2>4. w = s[n - 1] /\ e = s[n] /\ e # w /\ e \in Frames /\ e \in Range(s)
      <3>1. w = s[n - 1]
        BY <1>4, <2>1, <2>2
      <3>2. q[s[n - 1]].leaf = s[n]
        BY <1>2, <2>2, <2>3 DEF Shape, Path
      <3>3. e = s[n]
        BY <3>1, <3>2 DEF e
      <3> QED
        BY <1>3, <1>5, <2>2, <2>3, <3>1, <3>3
    <2>5. Range(Chain(q, e)) = {e}
      <3> DEFINE t == <<e>>
      <3>1. t \in Seq(Frames) /\ Len(t) = 1 /\ t[1] = e /\ t # <<>>
        BY <2>4
      <3> HIDE DEF t
      <3>2. q[e].leaf = None
        BY <1>2, <2>2, <2>4 DEF Shape, Path
      <3>3. Path(q, t)
        BY <3>1, <3>2 DEF Path
      <3>4. Chain(q, e) = t
        BY <3>1, <3>3, ChainOfPath
      <3>5. Range(t) = {t[i] : i \in 1 .. 1}
        BY <3>1, RangeOfPath
      <3> QED
        BY <3>1, <3>4, <3>5
    <2> DEFINE d == Destroy(q, e)
    <2>6. d = [x \in Frames |-> IF x = e THEN NoFrame(x) ELSE q[x]]
      BY <2>5 DEF Destroy
    <2>7. d \in [Frames -> Promise] /\ d[e] = NoFrame(e) /\ \A x \in Frames \ {e} : d[x] = q[x]
      <3>1. NoFrame(e) \in Promise
        BY <2>4 DEF NoFrame, Promise, LinkTypes
      <3> QED
        BY <1>1, <2>4, <2>6, <3>1
    <2> HIDE DEF d
    <2>8. r = [d EXCEPT ![w].st = "running", ![w].leaf = None]
      BY <1>7 DEF d
    <2>9. /\ r[w].st = "running" /\ r[w].leaf = None /\ r[w].root = q[w].root /\ r[w].worker = q[w].worker
          /\ r[w].link = q[w].link /\ \A x \in Frames \ {w, e} : r[x] = q[x]
      BY <1>6, <2>4, <2>7, <2>8 DEF Promise
    <2>10. r \in [Frames -> Promise]
      <3>1. [d[w] EXCEPT !.st = "running", !.leaf = None] \in Promise
        BY <1>6, <2>7, RunningPromise
      <3>2. r = [d EXCEPT ![w] = [d[w] EXCEPT !.st = "running", !.leaf = None]]
        BY <1>6, <2>7, <2>8 DEF Promise
      <3> QED
        BY <2>7, <3>1, <3>2
    <2>11. r[e].st = "free" /\ r[e].leaf = None
      BY <1>6, <2>4, <2>7, <2>8 DEF NoFrame
    <2>12. \A i \in 1 .. n - 2 : s[i] \in Frames \ {w, e}
      <3>1. \A i \in 1 .. n - 2 : i # n /\ i # n - 1 /\ i \in 1 .. n
        BY <2>2
      <3> QED
        BY <1>3, <1>5, <2>2, <2>3, <2>4, <3>1
    <2>13. \A i \in 1 .. Len(s) - 2 : SameFrame(q, r, s[i], h)
      BY <2>2, <2>9, <2>12 DEF SameFrame
    <2>14. /\ Shape(r, h, Front(s)) /\ Work(r, Front(s)) = Front(s) /\ Range(Front(s)) \subseteq Range(s)
           /\ Work(q, s) = Front(s) /\ Range(s) = Range(Front(s)) \cup {s[Len(s)]}
           /\ s[Len(s)] \notin Range(Front(s))
      <3>1. w = s[Len(s) - 1]
        BY <2>2, <2>4
      <3>2. Popped(q, r, h, s, w)
        BY <2>1, <2>9, <2>13, <3>1 DEF Popped
      <3> QED
        BY ONLY <1>2, <3>2, ShapePop
    <2>15. Local(q, r, h, Front(s))
      <3>1. \A x \in Frames \ Range(s) : r[x] = q[x]
        BY <1>3, <2>4, <2>9
      <3>2. \A x \in Range(s) \ Range(Front(s)) : r[x].st = "free" /\ r[x].leaf = None
        BY <2>2, <2>4, <2>11, <2>14
      <3> QED
        BY <2>10, <2>14, <3>1, <3>2 DEF Local, s
    <2>16. Forest(r, H) /\ Chain(r, h) = Front(s) /\ \A g \in H \ {h} : Kept(q, r, g) /\ r[g] = q[g]
      <3>1. Forest(q, H) /\ h \in H
        OBVIOUS
      <3> QED
        BY ONLY <2>15, <3>1, LocalForest
    <2>17. h # e
      <3>1. 1 \in 1 .. n /\ 1 # n
        BY <2>2
      <3> QED
        BY <1>3, <1>5, <2>2, <2>3, <2>4, <3>1
    <2>18. r[h].worker = w /\ r[w].st = "running" /\ r[h].link = q[h].link
      BY <1>1, <2>9, <2>17 DEF w
    <2>19. r[h].st # "done"
      BY <1>1, <2>9, <2>17
    <2> QED
      BY <2>14, <2>16, <2>18, <2>19 DEF Active, s
  <1> QED
    BY <1>8, <1>9

\* promise.skip_this_leaf()
LEMMA SkipEffects ==
  ASSUME NEW q, NEW H, Forest(q, H), NEW f \in Frames, q[f].st = "running", q[f].root # f,
         NEW a, a = SkipThisLeaf(q, f), NEW h, h = q[f].root, NEW y, y = q[f].link
  PROVE  /\ a \in [Frames -> Promise] /\ h \in Frames /\ y \in Frames /\ y # f /\ h \in H /\ q[y].leaf = f
         /\ \A x \in Frames : a[x].st = q[x].st /\ a[x].leaf = q[x].leaf /\ a[x].link = q[x].link
         /\ \A x \in Frames \ {y, h} : a[x] = q[x]
         /\ a[y].root = h /\ a[h].worker = y
  <1>1. q \in [Frames -> Promise] /\ H \subseteq Frames
    BY DEF Forest
  <1> DEFINE s == Chain(q, h)
  <1>2. h \in H /\ f = s[Len(s)] /\ Len(s) > 1 /\ y = s[Len(s) - 1]
    BY HeadOf
  <1>3. Shape(q, h, s)
    BY <1>2 DEF Forest
  <1> HIDE DEF s
  <1>4. s \in Seq(Frames) /\ Len(s) \in Nat \ {0}
    BY <1>3, ShapeFacts
  <1>5. PICK n \in Nat : n = Len(s) /\ n > 1
    BY <1>2, <1>4
  <1>6. n - 1 \in 1 .. n /\ n \in 1 .. n /\ n - 1 \in 1 .. n - 1 /\ n - 1 # n /\ n - 1 + 1 = n
    BY <1>5
  <1>7. y \in Frames /\ y # f /\ q[y].leaf = f
    <2>1. \A i, j \in 1 .. n : s[i] = s[j] => i = j
      BY <1>3, <1>5 DEF Shape, Path
    <2>2. q[s[n - 1]].leaf = s[n]
      BY <1>3, <1>5, <1>6 DEF Shape, Path
    <2> QED
      BY <1>2, <1>4, <1>5, <1>6, <2>1, <2>2
  <1>8. h \in Frames
    BY <1>1, <1>2
  <1> DEFINE b == [q EXCEPT ![y].root = h]
  <1>9. /\ b \in [Frames -> Promise]
        /\ \A x \in Frames : /\ b[x].st = q[x].st /\ b[x].worker = q[x].worker /\ b[x].leaf = q[x].leaf
                             /\ b[x].link = q[x].link /\ b[x].root = (IF x = y THEN h ELSE q[x].root)
                             /\ x # y => b[x] = q[x]
    BY <1>1, <1>7, <1>8 DEF Promise
  <1>10. a = [b EXCEPT ![h].worker = y]
    BY DEF SkipThisLeaf
  <1> HIDE DEF b
  <1>11. /\ a \in [Frames -> Promise]
         /\ \A x \in Frames : /\ a[x].st = b[x].st /\ a[x].root = b[x].root /\ a[x].leaf = b[x].leaf
                              /\ a[x].link = b[x].link /\ a[x].worker = (IF x = h THEN y ELSE b[x].worker)
                              /\ x # h => a[x] = b[x]
    <2>1. b \in [Frames -> Promise] /\ h \in Frames /\ y \in Frames
      BY <1>7, <1>8, <1>9
    <2> QED
      BY ONLY <1>10, <2>1 DEF Promise
  <1> QED
    BY <1>2, <1>7, <1>8, <1>9, <1>11

\* co_return of the leaf f: the owner goes on and destroys it.
LEMMA ReturnForest ==
  ASSUME NEW q, NEW H, Forest(q, H), NEW f \in Frames, q[f].st = "running",
         NEW h, h = q[f].root, f # h, NEW r, r = Resume(SkipThisLeaf(q, f), q[f].link)
  PROVE  /\ Forest(r, H) /\ Active(r, h) /\ r[h].st # "done" /\ h \in H
         /\ Chain(r, h) = Front(Chain(q, h)) /\ Work(r, Chain(r, h)) = Chain(r, h)
         /\ \A g \in H \ {h} : Kept(q, r, g)
         /\ \A g \in H : r[g].link = q[g].link
  <1> DEFINE a == SkipThisLeaf(q, f)
             y == q[f].link
             d == [a EXCEPT ![f].st = "done"]
  <1>1. /\ a \in [Frames -> Promise] /\ h \in Frames /\ y \in Frames /\ y # f /\ h \in H /\ q[y].leaf = f
        /\ \A x \in Frames : a[x].st = q[x].st /\ a[x].leaf = q[x].leaf /\ a[x].link = q[x].link
        /\ \A x \in Frames \ {y, h} : a[x] = q[x]
        /\ a[y].root = h /\ a[h].worker = y
    BY SkipEffects
  <1> HIDE DEF a, y
  <1>2. /\ d \in [Frames -> Promise]
        /\ \A x \in Frames : /\ d[x].link = a[x].link /\ d[x].root = a[x].root /\ d[x].worker = a[x].worker
                             /\ d[x].leaf = a[x].leaf /\ d[x].st = (IF x = f THEN "done" ELSE a[x].st)
                             /\ x # f => d[x] = a[x]
    <2>1. a \in [Frames -> Promise] /\ f \in Frames
      BY <1>1
    <2> QED
      BY ONLY <2>1 DEF Promise, d
  <1> HIDE DEF d
  <1>3. Skipped(q, d, f)
    BY <1>1, <1>2 DEF Skipped, y
  <1>4. /\ Forest(d, H) /\ ~Active(d, h) /\ Chain(d, h) = Chain(q, h)
        /\ Work(d, Chain(q, h)) = Front(Chain(q, h))
        /\ d[h].st = "suspended" /\ d[h].worker = y
        /\ \A g \in H \ {h} : Kept(q, d, g)
        /\ \A g \in H : d[g].link = q[g].link
    BY <1>3, SkipForest DEF y
  <1>5. r = Resume(d, d[h].worker)
    <2>1. d[y].leaf = f /\ a[y].leaf = f /\ d[h].worker = y
      BY <1>1, <1>2, <1>4
    <2>2. [x \in Frames |-> d[x].leaf] = [x \in Frames |-> a[x].leaf]
      BY <1>2
    <2>3. Chain(d, f) = Chain(a, f)
      BY <2>2 DEF Chain
    <2>4. f \in Range(Chain(d, f))
      <3> DEFINE t == <<f>>
      <3>1. t \in Seq(Frames) /\ Len(t) = 1 /\ t[1] = f /\ t # <<>>
        OBVIOUS
      <3> HIDE DEF t
      <3>2. d[f].leaf = None
        BY <1>1, <1>2, HeadOf
      <3>3. Path(d, t)
        BY <3>1, <3>2 DEF Path
      <3>4. Chain(d, f) = t
        BY <3>1, <3>3, ChainOfPath
      <3>5. Range(t) = {t[i] : i \in 1 .. 1}
        BY <3>1, RangeOfPath
      <3> QED
        BY <3>1, <3>4, <3>5
    <2>5. \A x \in Frames : x \notin Range(Chain(d, f)) => d[x] = a[x]
      BY <1>2, <2>4
    <2>6. Destroy(d, f) = Destroy(a, f)
      BY <2>3, <2>5 DEF Destroy
    <2> QED
      BY <2>1, <2>6, Zenon DEF Resume, a, y
  <1>6. /\ Forest(r, H) /\ Active(r, h) /\ r[h].st # "done"
        /\ Chain(r, h) = Work(d, Chain(d, h)) /\ Work(r, Chain(r, h)) = Chain(r, h)
        /\ \A g \in H \ {h} : Kept(d, r, g)
        /\ \A g \in H : r[g].link = d[g].link
    <2>1. h \in H /\ d[h].st # "done"
      BY <1>1, <1>4
    <2> QED
      BY <1>4, <1>5, <2>1, ResumeForest
  <1>7. \A g \in H \ {h} : Kept(q, r, g)
    BY <1>4, <1>6 DEF Kept
  <1> QED
    BY <1>1, <1>4, <1>6, <1>7

\* co_yield elements_of(...): the path of t, with what it has left to do, becomes
\* the end of the path of f.
CanAttach(q, H, f, h, t) ==
  /\ Forest(q, H) /\ f \in Frames /\ q[f].st = "running" /\ h = q[f].root
  /\ t \in H /\ t # h /\ ~Active(q, t) /\ q[t].st # "done"

\* elements_of: one chain becomes the end of another, whose worker runs.
LEMMA AttachForest ==
  ASSUME NEW q, NEW H, NEW f, NEW h, NEW t, NEW r, CanAttach(q, H, f, h, t), r = AttachLeaf(q, f, t)
  PROVE  /\ Forest(r, H \ {t}) /\ Active(r, h) /\ r[h].st # "done" /\ h \in H
         /\ Chain(r, h) = Chain(q, h) \o Work(q, Chain(q, t)) /\ Work(r, Chain(r, h)) = Chain(r, h)
         /\ \A g \in H \ {h, t} : Kept(q, r, g)
         /\ \A g \in H \ {t} : r[g].link = q[g].link
  <1> DEFINE s == Chain(q, h)
             u == Chain(q, t)
             w == q[t].worker
             a1 == [q EXCEPT ![w].root = h]
             a2 == [a1 EXCEPT ![t].link = f]
             a3 == [a2 EXCEPT ![h].worker = w]
             a4 == [a3 EXCEPT ![f].leaf = t]
             a == [a4 EXCEPT ![f].st = "suspended"]
             v == s \o u
             X == {h, t}
  <1>0. /\ Forest(q, H) /\ f \in Frames /\ q[f].st = "running" /\ h = q[f].root
        /\ t \in H /\ t # h /\ ~Active(q, t) /\ q[t].st # "done"
    BY DEF CanAttach
  <1> USE <1>0
  <1>1. q \in [Frames -> Promise] /\ H \subseteq Frames /\ t \in Frames
    BY DEF Forest
  <1>2. h \in H /\ f \in Range(s) /\ f = s[Len(s)] /\ q[h].worker = f
    BY HeadOf
  <1>3. Shape(q, h, s) /\ Shape(q, t, u) /\ Range(s) \cap Range(u) = {}
    BY <1>2, Zenon DEF Forest
  <1>4. /\ h \in Frames /\ w \in Frames /\ w \in Range(u) /\ t \in Range(u) /\ h \in Range(s)
        /\ Range(s) \subseteq Frames /\ Range(u) \subseteq Frames
    <2>1. /\ h \in Range(s) /\ Range(s) \subseteq Frames
      BY <1>3, ShapeFacts
    <2>2. t \in Range(u) /\ Range(u) \subseteq Frames /\ w \in Range(u)
      BY <1>3, ShapeFacts
    <2> QED
      BY <2>1, <2>2
  <1>5. f # t /\ f # w /\ h # w
    BY <1>2, <1>3, <1>4, Zenon
  <1>6. f \in LinkTypes
    BY DEF LinkTypes
  <1>7. r = Resume(a, w)
    BY Zenon DEF AttachLeaf
  <1> HIDE DEF s, u, w
  <1>8. /\ a1 \in [Frames -> Promise]
        /\ \A x \in Frames : /\ a1[x].st = q[x].st /\ a1[x].worker = q[x].worker /\ a1[x].leaf = q[x].leaf
                             /\ a1[x].link = q[x].link /\ a1[x].root = (IF x = w THEN h ELSE q[x].root)
                             /\ x # w => a1[x] = q[x]
    BY <1>1, <1>4 DEF Promise
  <1> HIDE DEF a1
  <1>9. /\ a2 \in [Frames -> Promise]
        /\ \A x \in Frames : /\ a2[x].st = a1[x].st /\ a2[x].root = a1[x].root /\ a2[x].worker = a1[x].worker
                             /\ a2[x].leaf = a1[x].leaf /\ a2[x].link = (IF x = t THEN f ELSE a1[x].link)
                             /\ x # t => a2[x] = a1[x]
    <2>1. a1 \in [Frames -> Promise] /\ t \in Frames /\ f \in LinkTypes
      BY <1>1, <1>6, <1>8
    <2> QED
      BY ONLY <2>1 DEF Promise, a2
  <1> HIDE DEF a2
  <1>10. /\ a3 \in [Frames -> Promise]
         /\ \A x \in Frames : /\ a3[x].st = a2[x].st /\ a3[x].root = a2[x].root /\ a3[x].leaf = a2[x].leaf
                              /\ a3[x].link = a2[x].link /\ a3[x].worker = (IF x = h THEN w ELSE a2[x].worker)
                              /\ x # h => a3[x] = a2[x]
    <2>1. a2 \in [Frames -> Promise] /\ h \in Frames /\ w \in Frames
      BY <1>4, <1>9
    <2> QED
      BY ONLY <2>1 DEF Promise, a3
  <1> HIDE DEF a3
  <1>11. /\ a4 \in [Frames -> Promise]
         /\ \A x \in Frames : /\ a4[x].st = a3[x].st /\ a4[x].root = a3[x].root /\ a4[x].worker = a3[x].worker
                              /\ a4[x].link = a3[x].link /\ a4[x].leaf = (IF x = f THEN t ELSE a3[x].leaf)
                              /\ x # f => a4[x] = a3[x]
    <2>1. a3 \in [Frames -> Promise] /\ f \in Frames /\ t \in Frames
      BY <1>1, <1>10
    <2> QED
      BY ONLY <2>1 DEF Promise, a4
  <1> HIDE DEF a4
  <1>12. /\ a \in [Frames -> Promise]
         /\ \A x \in Frames : /\ a[x].link = a4[x].link /\ a[x].root = a4[x].root /\ a[x].worker = a4[x].worker
                              /\ a[x].leaf = a4[x].leaf /\ a[x].st = (IF x = f THEN "suspended" ELSE a4[x].st)
                              /\ x # f => a[x] = a4[x]
    BY <1>11 DEF Promise
  <1> HIDE DEF a
  <1>13. \A x \in Frames : /\ a[x].st = (IF x = f THEN "suspended" ELSE q[x].st)
                           /\ a[x].leaf = (IF x = f THEN t ELSE q[x].leaf)
                           /\ a[x].link = (IF x = t THEN f ELSE q[x].link)
                           /\ a[x].root = (IF x = w THEN h ELSE q[x].root)
                           /\ a[x].worker = (IF x = h THEN w ELSE q[x].worker)
    BY <1>8, <1>9, <1>10, <1>11, <1>12
  <1>14. \A x \in Frames \ {f, t, w, h} : a[x] = q[x]
    BY <1>8, <1>9, <1>10, <1>11, <1>12
  <1>15. Joined(q, a, h, s, t, u)
    <2>1. /\ \A x \in Range(s) \cup Range(u) :
               /\ x # f => a[x].st = q[x].st /\ a[x].leaf = q[x].leaf
               /\ x # t => a[x].link = q[x].link
          /\ a[f].st = "suspended" /\ a[f].leaf = t /\ a[t].link = f /\ a[w].root = h /\ a[h].worker = w
      BY <1>1, <1>4, <1>13
    <2> QED
      BY <1>2, <2>1 DEF Joined, w
  <1>16. /\ Shape(a, h, v) /\ Work(a, v) = s \o Work(q, u)
         /\ Range(v) = Range(s) \cup Range(u) /\ a[h].st # "done"
    <2>1. q[s[Len(s)]].st = "running" /\ q[t].st # "done"
      BY <1>2
    <2> QED
      BY ONLY <1>3, <1>15, <2>1, ShapeJoin DEF v
  <1> HIDE DEF v
  <1>17. Put(q, a, H, X, h, v)
    <2>1. \A g \in H \ X : \A x \in Range(Chain(q, g)) : x \in Frames /\ x \notin Range(s) /\ x \notin Range(u)
      <3> SUFFICES ASSUME NEW g \in H \ X, NEW x \in Range(Chain(q, g))
                   PROVE  x \in Frames /\ x \notin Range(s) /\ x \notin Range(u)
        OBVIOUS
      <3>1. Forest(q, H) /\ g \in H /\ h \in H /\ t \in H /\ g # h /\ g # t
        BY <1>2
      <3>2. x \in Frames /\ \A k \in H \ {g} : x \notin Range(Chain(q, k))
        BY ONLY <3>1, ForestFacts, x \in Range(Chain(q, g))
      <3> QED
        BY <3>1, <3>2 DEF s, u
    <2>2. \A g \in H \ X : \A x \in Range(Chain(q, g)) : SameFrame(q, a, x, g)
      <3>1. \A g \in H \ X : \A x \in Range(Chain(q, g)) : x \in Frames \ {f, t, w, h}
        BY <1>2, <1>4, <2>1
      <3> HIDE DEF X
      <3> QED
        BY <1>14, <3>1 DEF SameFrame
    <2>3. \A g \in H \ X : Range(v) \cap Range(Chain(q, g)) = {}
      BY <1>16, <2>1
    <2>4. \A x \in Frames : (\A g \in H \ X : x \notin Range(Chain(q, g))) =>
            /\ a[x].st # "free" => x \in Range(v)
            /\ a[x].st = "free" => a[x].leaf = None
      <3> SUFFICES ASSUME NEW x \in Frames, \A g \in H \ X : x \notin Range(Chain(q, g))
                   PROVE  /\ a[x].st # "free" => x \in Range(v)
                          /\ a[x].st = "free" => a[x].leaf = None
        OBVIOUS
      <3>1. q[x].st # "free" => x \in Range(s) \cup Range(u)
        BY DEF Forest, s, u
      <3>2. q[x].st = "free" => q[x].leaf = None
        BY DEF Forest
      <3> QED
        BY <1>2, <1>13, <1>16, <3>1, <3>2
    <2>5. X \subseteq H
      BY <1>2
    <2> QED
      BY <1>12, <1>16, <2>2, <2>3, <2>4, <2>5 DEF Put
  <1> HIDE DEF X
  <1>18. Forest(a, (H \ X) \cup {h}) /\ Chain(a, h) = v /\ \A g \in H \ X : Kept(q, a, g)
    <2>1. Forest(q, H)
      OBVIOUS
    <2> QED
      BY ONLY <1>17, <2>1, ForestPut
  <1> DEFINE G == H \ {t}
  <1>19. (H \ X) \cup {h} = G /\ H \ X = H \ {h, t} /\ G \ {h} = H \ {h, t} /\ h \in G
    BY <1>2 DEF X
  <1> HIDE DEF G
  <1>20. Forest(a, G)
    BY <1>18, <1>19
  <1>21. a[h].worker = w /\ ~Active(a, h)
    BY <1>4, <1>5, <1>13 DEF Active, w
  <1>22. /\ Forest(r, G) /\ Active(r, h) /\ r[h].st # "done"
         /\ Chain(r, h) = Work(a, Chain(a, h)) /\ Work(r, Chain(r, h)) = Chain(r, h)
         /\ \A g \in G \ {h} : Kept(a, r, g)
         /\ \A g \in G : r[g].link = a[g].link
    <2>1. r = Resume(a, a[h].worker)
      BY <1>7, <1>21
    <2>2. h \in G /\ ~Active(a, h) /\ a[h].st # "done"
      BY <1>16, <1>19, <1>21
    <2> QED
      BY ONLY <1>20, <2>1, <2>2, ResumeForest
  <1>23. \A g \in H \ {h, t} : Kept(q, r, g)
    BY <1>18, <1>19, <1>22 DEF Kept
  <1>24. \A g \in G : a[g].link = q[g].link
    BY <1>1, <1>13 DEF G
  <1> QED
    BY <1>2, <1>16, <1>18, <1>22, <1>23, <1>24, Zenon DEF G, s, u
-----------------------------------------------------------------------------
(***************************************************************************)
(* The state: who holds the heads, who is iterated, and what is seen of it *)
(* through the refinement mapping.                                         *)
(***************************************************************************)
Busy  == ({iter} \cup {awaits[c] : c \in Consumers}) \ {None}
Heads == ({top[o] : o \in alive} \cup released) \ {None}
Stack == [o \in Objects |-> StackOf(top[o])]
Value == [o \in Objects |-> IF top[o] = None THEN None ELSE current[o]]
Loose == {StackOf(f) : f \in released} \ {<<>>}

\* The steps of RecursiveRange, through the mapping.
LEMMA AbsCreate ==
  ASSUME NEW o \in Objects, NEW f \in Frames, Stack[o] = <<>>,
         Stack' = [Stack EXCEPT ![o] = <<f>>], Value' = [Value EXCEPT ![o] = None],
         Busy' = Busy, Loose' = Loose
  PROVE  Abstract!Next
  BY DEF Abstract!Next, Abstract!Create, Stack, Value, Busy, Loose

\* An iteration begins.
LEMMA AbsAdvance ==
  ASSUME NEW o \in Objects, o \notin Busy, Stack[o] # <<>>,
         Stack' = Stack, Value' = Value, Busy' = Busy \cup {o}, Loose' = Loose
  PROVE  Abstract!Next
  BY DEF Abstract!Next, Abstract!Advance, Stack, Value, Busy, Loose

\* The innermost coroutine produces a value.
LEMMA AbsProduce ==
  ASSUME NEW o \in Objects, o \in Busy, Stack' = Stack, Value' = [Value EXCEPT ![o] = Last(Stack[o])],
         Busy' = Busy \ {o}, Loose' = Loose
  PROVE  Abstract!Next
  BY DEF Abstract!Next, Abstract!Produce, Stack, Value, Busy, Loose, Last, Abstract!Last

\* The innermost coroutine calls for the elements of h.
LEMMA AbsNest ==
  ASSUME NEW o \in Objects, NEW h \in Objects, o \in Busy, h \notin Busy,
         Stack' = [Stack EXCEPT ![o] = Stack[o] \o Stack[h], ![h] = <<>>],
         Value' = [Value EXCEPT ![h] = None], Busy' = Busy, Loose' = Loose
  PROVE  Abstract!Next
  BY DEF Abstract!Next, Abstract!Nest, Stack, Value, Busy, Loose

\* The innermost coroutine finishes.
LEMMA AbsFinish ==
  ASSUME NEW o \in Objects, o \in Busy, Stack' = [Stack EXCEPT ![o] = Front(Stack[o])],
         IF Len(Stack[o]) > 1 THEN Value' = Value /\ Busy' = Busy
         ELSE Value' = [Value EXCEPT ![o] = None] /\ Busy' = Busy \ {o},
         Loose' = Loose
  PROVE  Abstract!Next
  BY DEF Abstract!Next, Abstract!Finish, Stack, Value, Busy, Loose, Front, Abstract!Front

\* The innermost coroutine fails.
LEMMA AbsFail ==
  ASSUME NEW o \in Objects, o \in Busy, Stack' = [Stack EXCEPT ![o] = Front(Stack[o])],
         Value' = [Value EXCEPT ![o] = None], Busy' = Busy \ {o}, Loose' = Loose
  PROVE  Abstract!Next
  BY DEF Abstract!Next, Abstract!Fail, Stack, Value, Busy, Loose, Front, Abstract!Front

\* Two ranges are exchanged.
LEMMA AbsExchange ==
  ASSUME NEW a \in Objects, NEW b \in Objects, a \notin Busy, b \notin Busy,
         Stack' = [Stack EXCEPT ![a] = Stack[b], ![b] = Stack[a]],
         Value' = [Value EXCEPT ![a] = Value[b], ![b] = Value[a]], Busy' = Busy, Loose' = Loose
  PROVE  Abstract!Next
  BY DEF Abstract!Next, Abstract!Exchange, Stack, Value, Busy, Loose

\* A range is dropped, another one may take its place.
LEMMA AbsDrop ==
  ASSUME NEW o \in Objects, NEW b \in Objects, o \notin Busy, b \notin Busy,
         \/ o = b /\ Stack' = [Stack EXCEPT ![o] = <<>>] /\ Value' = [Value EXCEPT ![o] = None]
         \/ /\ Stack' = [Stack EXCEPT ![o] = Stack[b], ![b] = <<>>]
            /\ Value' = [Value EXCEPT ![o] = Value[b], ![b] = None],
         Busy' = Busy, Loose' = Loose
  PROVE  Abstract!Next
  BY DEF Abstract!Next, Abstract!Drop, Stack, Value, Busy, Loose

\* A range is taken from its object.
LEMMA AbsRelease ==
  ASSUME NEW o \in Objects, o \notin Busy, Loose' = Loose \cup ({Stack[o]} \ {<<>>}),
         Stack' = [Stack EXCEPT ![o] = <<>>], Value' = [Value EXCEPT ![o] = None], Busy' = Busy
  PROVE  Abstract!Next
  BY DEF Abstract!Next, Abstract!Release, Stack, Value, Busy, Loose

\* An object takes a range that nobody had.
LEMMA AbsAdopt ==
  ASSUME NEW o \in Objects, NEW s \in Loose \cup {<<>>}, o \notin Busy, Stack[o] = <<>>,
         Loose' = Loose \ {s}, Stack' = [Stack EXCEPT ![o] = s],
         NEW v \in Frames \cup {None}, Value' = [Value EXCEPT ![o] = v], Busy' = Busy
  PROVE  Abstract!Next
  BY DEF Abstract!Next, Abstract!Adopt, Stack, Value, Busy, Loose

\* A range that nobody has is destroyed.
LEMMA AbsDiscard ==
  ASSUME NEW s \in Loose, Loose' = Loose \ {s}, Stack' = Stack, Value' = Value, Busy' = Busy
  PROVE  Abstract!Next
  BY DEF Abstract!Next, Abstract!Discard, Stack, Value, Busy, Loose

\* Nothing to see for the abstract specification.
LEMMA AbsStutter ==
  ASSUME Loose' = Loose, Stack' = Stack, Value' = Value, Busy' = Busy
  PROVE  UNCHANGED Abstract!vars
  BY DEF Abstract!vars, Stack, Value, Busy, Loose
-----------------------------------------------------------------------------
\* Every head has one holder, which is alive; reset() has a released handle.
Holders ==
  /\ alive \subseteq Objects /\ released \subseteq Frames
  /\ top \in [Objects -> Frames \cup {None}] /\ current \in [Objects -> Frames \cup {None}]
  /\ \A o \in Objects \ alive : top[o] = None
  /\ \A a, b \in Objects : top[a] = top[b] /\ top[a] # None => a = b
  /\ \A o \in Objects : top[o] \notin released
  /\ clearing # None => /\ clearing.obj \in alive
                        /\ clearing.then = "reset" => clearing.handle \in released

\* The frames that work are those of the objects that are being iterated, and
\* none of these is being cleared.
Workers ==
  /\ Busy \subseteq alive
  /\ \A o \in Busy : top[o] # None /\ Active(p, top[o])
  /\ \A h \in Heads : Active(p, h) => \E o \in Busy : top[o] = h
  /\ clearing # None => clearing.obj \notin Busy

Tidy == Holders /\ Forest(p, Heads) /\ Workers

\* StackOf, for any memory.
StackIn(q, f) ==
  LET s == Chain(q, f) IN IF s # <<>> /\ q[Last(s)].st = "done" THEN Front(s) ELSE s

\* An empty object has nothing to execute.
LEMMA StackInNone == ASSUME NEW q PROVE StackIn(q, None) = <<>>
  BY ChainOfNone DEF StackIn

\* The stack of a head is what is left of its path.
LEMMA StackInForest ==
  ASSUME NEW q, NEW H, Forest(q, H), NEW h \in H
  PROVE  /\ StackIn(q, h) = Work(q, Chain(q, h)) /\ StackIn(q, h) \in Seq(Frames)
         /\ StackIn(q, h) # <<>> => StackIn(q, h)[1] = h
         /\ StackIn(q, h) = <<>> <=> q[h].st = "done"
  <1> DEFINE s == Chain(q, h)
  <1>1. Shape(q, h, s)
    BY DEF Forest
  <1> HIDE DEF s
  <1>2. /\ s \in Seq(Frames) /\ Len(s) \in Nat \ {0} /\ s[1] = h /\ s # <<>>
    BY <1>1, ShapeFacts
  <1>3. Last(s) = s[Len(s)]
    BY DEF Last
  <1>4. StackIn(q, h) = Work(q, s)
    BY <1>2, <1>3 DEF StackIn, Work, s
  <1>5. CASE q[s[Len(s)]].st = "done"
    <2>1. Work(q, s) = Front(s)
      BY <1>5 DEF Work
    <2>2. /\ Front(s) \in Seq(Frames) /\ Len(Front(s)) = Len(s) - 1
          /\ \A i \in 1 .. Len(s) - 1 : Front(s)[i] = s[i]
      BY <1>2, FrontFacts
    <2>3. CASE Len(s) = 1
      <3>1. Front(s) = <<>>
        BY <2>2, <2>3
      <3> QED
        BY <1>2, <1>4, <1>5, <2>1, <2>3, <3>1 DEF s
    <2>4. CASE Len(s) # 1
      <3>1. \A n \in Nat \ {0} : n # 1 => 1 \in 1 .. n - 1 /\ n - 1 # 0
        OBVIOUS
      <3>2. 1 \in 1 .. Len(s) - 1 /\ Len(s) - 1 # 0
        BY <1>2, <2>4, <3>1
      <3>3. q[h].st = "suspended"
        BY <1>1, <1>2, <3>2 DEF Shape
      <3>4. Front(s) # <<>> /\ Front(s)[1] = h
        BY <1>2, <2>2, <3>2
      <3> QED
        BY <1>4, <2>1, <2>2, <3>3, <3>4 DEF s
    <2> QED
      BY <2>3, <2>4
  <1>6. CASE q[s[Len(s)]].st # "done"
    <2>1. Work(q, s) = s
      BY <1>6 DEF Work
    <2>2. q[h].st # "done"
      <3>1. h \in Range(s) /\ (q[h].st # "suspended" => h = s[Len(s)])
        BY <1>1, ShapeFacts
      <3> QED
        BY <1>6, <3>1
    <2> QED
      BY <1>2, <1>4, <2>1, <2>2 DEF s
  <1> QED
    BY <1>5, <1>6

\* A head that is as it was has the stack it had.
LEMMA StackInKept ==
  ASSUME NEW q, NEW r, NEW H, NEW G, NEW h, Forest(q, H), Forest(r, G), h \in H, h \in G, Kept(q, r, h)
  PROVE  StackIn(r, h) = StackIn(q, h)
  BY StackInForest DEF Kept

\* The mapping, in terms of memory.
LEMMA StackIs ==
  /\ Stack = [o \in Objects |-> StackIn(p, top[o])]
  /\ Stack' = [o \in Objects |-> StackIn(p', top'[o])]
  /\ Loose = {StackIn(p, f) : f \in released} \ {<<>>}
  /\ Loose' = {StackIn(p', f) : f \in released'} \ {<<>>}
  BY DEF Stack, Loose, StackOf, StackIn

\* What the invariant says of one object.
LEMMA HeadFacts ==
  ASSUME Tidy
  PROVE  /\ Heads \subseteq Frames
         /\ \A o \in Objects : top[o] # None => top[o] \in Heads /\ o \in alive
         /\ \A h \in released : h \in Heads /\ h # None
         /\ \A h \in Heads : h \in released \/ \E o \in alive : top[o] = h
  BY LeafChainAssumption DEF Tidy, Holders, Heads

\* A step of what o iterates: no object changes its frame.
LEMMA StepAt ==
  ASSUME Tidy, NEW o \in alive, NEW h, h = top[o], h # None,
         alive' = alive, top' = top, clearing' = clearing, released' = released,
         current' \in [Objects -> Frames \cup {None}],
         Forest(p', Heads), \A g \in Heads \ {h} : Kept(p, p', g),
         \/ Active(p', h) /\ Busy' = Busy \cup {o} /\ clearing = None
         \/ Active(p', h) /\ Busy' = Busy /\ o \in Busy
         \/ ~Active(p', h) /\ Busy' = Busy \ {o}
  PROVE  Tidy' /\ Stack' = [Stack EXCEPT ![o] = StackIn(p', h)] /\ Loose' = Loose
  <1>1. Holders'
    BY DEF Tidy, Holders
  <1>2. Heads' = Heads
    BY DEF Heads
  <1>3. h \in Heads /\ o \in Objects
    BY HeadFacts DEF Tidy, Holders
  <1>4. \A a \in Objects : top[a] = h => a = o
    BY <1>3 DEF Tidy, Holders
  <1>5. \A a \in Busy \ {o} : a \in alive /\ top[a] # None /\ top[a] \in Heads \ {h} /\ Active(p, top[a])
    BY <1>4, HeadFacts DEF Tidy, Workers, Holders
  <1>6. Workers'
    <2>1. Busy' \subseteq alive
      BY DEF Tidy, Workers
    <2>2. \A a \in Busy' : top[a] # None /\ Active(p', top[a])
      BY <1>5 DEF Kept
    <2>3. \A g \in Heads : Active(p', g) => \E a \in Busy' : top[a] = g
      <3> SUFFICES ASSUME NEW g \in Heads, Active(p', g) PROVE \E a \in Busy' : top[a] = g
        OBVIOUS
      <3>1. CASE g = h
        BY <3>1
      <3>2. CASE g # h
        <4>1. Active(p, g)
          BY <3>2 DEF Kept
        <4>2. PICK a \in Busy : top[a] = g
          BY <4>1 DEF Tidy, Workers
        <4> QED
          BY <3>2, <4>2
      <3> QED
        BY <3>1, <3>2
    <2>4. clearing # None => clearing.obj \notin Busy'
      BY DEF Tidy, Workers
    <2> QED
      BY <1>2, <2>1, <2>2, <2>3, <2>4 DEF Workers, Active
  <1>7. Tidy'
    BY <1>1, <1>2, <1>6 DEF Tidy
  <1>8. \A g \in Heads \ {h} : StackIn(p', g) = StackIn(p, g)
    BY StackInKept DEF Tidy
  <1>9. \A a \in Objects \ {o} : StackIn(p', top[a]) = StackIn(p, top[a])
    BY <1>4, <1>8, HeadFacts, StackInNone
  <1>10. \A f \in released : StackIn(p', f) = StackIn(p, f)
    BY <1>3, <1>8, HeadFacts DEF Tidy, Holders
  <1>11. Loose' = Loose
    BY <1>10, StackIs
  <1>12. Stack' = [Stack EXCEPT ![o] = StackIn(p', h)]
    BY <1>3, <1>9, StackIs
  <1> QED
    BY <1>7, <1>11, <1>12

\* A step that moves frames between objects, or destroys some.
LEMMA MoveStep ==
  ASSUME Tidy, Holders', Heads' \subseteq Heads, Forest(p', Heads'), \A g \in Heads' : Kept(p, p', g),
         Busy' = Busy, Busy \subseteq alive', \A o \in Busy : top'[o] = top[o],
         clearing' # None => clearing'.obj \notin Busy
  PROVE  Tidy' /\ \A g \in Heads' : StackIn(p', g) = StackIn(p, g)
  <1>1. \A o \in Busy : o \in Objects /\ top'[o] # None /\ top'[o] \in Heads' /\ Active(p, top'[o])
    <2>1. \A o \in Busy : top[o] # None /\ Active(p, top[o])
      BY DEF Tidy, Workers
    <2>2. \A o \in Busy : o \in alive' /\ o \in Objects
      BY DEF Holders
    <2> QED
      BY <2>1, <2>2 DEF Heads
  <1>2. \A o \in Busy' : top'[o] # None /\ Active(p', top'[o])
    BY <1>1 DEF Kept
  <1>3. \A g \in Heads' : Active(p', g) => \E o \in Busy' : top'[o] = g
    <2> SUFFICES ASSUME NEW g \in Heads', Active(p', g) PROVE \E o \in Busy' : top'[o] = g
      OBVIOUS
    <2>1. Active(p, g) /\ g \in Heads
      BY DEF Kept
    <2>2. PICK o \in Busy : top[o] = g
      BY <2>1 DEF Tidy, Workers
    <2> QED
      BY <2>2
  <1>4. Workers'
    BY <1>2, <1>3 DEF Workers, Active
  <1>5. \A g \in Heads' : StackIn(p', g) = StackIn(p, g)
    BY StackInKept DEF Tidy
  <1> QED
    BY <1>4, <1>5 DEF Tidy

\* Other than in the links of heads, nothing changes.
Relinked(q, r, H) == Forest(r, H) /\ \A g \in H : Kept(q, r, g)

\* A step of the abstract specification, or none.
AbstractStep == Abstract!Next \/ UNCHANGED Abstract!vars

\* Nothing has changed in the same memory.
LEMMA KeptSame == ASSUME NEW q, NEW H, Forest(q, H) PROVE Relinked(q, q, H)
  BY DEF Relinked, Kept

\* A coroutine is called and its object constructed.
LEMMA CreateStep ==
  ASSUME Tidy, clearing = None, NEW o \in Objects \ alive, NEW f \in Frames, Free(f), NEW l \in LinkTypes,
         alive' = alive \cup {o}, top' = [top EXCEPT ![o] = f], current' = [current EXCEPT ![o] = None],
         clearing' = clearing, released' = released, p' = Call(p, f, l), Busy' = Busy
  PROVE  /\ Tidy' /\ Abstract!Next /\ p'[f].link = l /\ Heads' = Heads \cup {f}
         /\ \A h \in Heads : h # f /\ p'[h].link = p[h].link
  <1>1. Forest(p, Heads) /\ p[f].st = "free"
    BY DEF Tidy, Free
  <1>2. /\ Forest(p', Heads \cup {f}) /\ f \notin Heads
        /\ Chain(p', f) = <<f>> /\ Work(p', <<f>>) = <<f>> /\ ~Active(p', f)
        /\ p'[f].st = "suspended" /\ p'[f].link = l /\ \A x \in Frames \ {f} : p'[x] = p[x]
        /\ \A g \in Heads : Kept(p, p', g)
    BY <1>1, CallForest
  <1>3. /\ top[o] = None /\ o \notin Busy /\ top'[o] = f /\ f # None
        /\ \A a \in Objects \ {o} : top'[a] = top[a]
    BY LeafChainAssumption DEF Tidy, Holders, Workers
  <1>4. Heads' = Heads \cup {f}
    BY <1>3 DEF Heads, Tidy, Holders
  <1>5. Holders'
    <2>1. \A a \in Objects : top[a] # f
      BY <1>2, <1>3, HeadFacts
    <2>2. f \notin released
      BY <1>2, HeadFacts
    <2> QED
      BY <1>3, <2>1, <2>2 DEF Tidy, Holders
  <1>6. Workers'
    <2>1. \A a \in Busy : top'[a] = top[a] /\ top[a] \in Heads /\ top[a] # None /\ Active(p, top[a])
      BY <1>3, HeadFacts DEF Tidy, Workers, Holders
    <2>2. Busy' \subseteq alive'
      BY DEF Tidy, Workers
    <2>3. \A a \in Busy' : top'[a] # None /\ Active(p', top'[a])
      BY <1>2, <2>1 DEF Kept
    <2>4. \A h \in Heads' : Active(p', h) => \E a \in Busy' : top'[a] = h
      <3> SUFFICES ASSUME NEW h \in Heads', Active(p', h) PROVE \E a \in Busy' : top'[a] = h
        OBVIOUS
      <3>1. h \in Heads /\ Active(p, h)
        BY <1>2, <1>4 DEF Kept
      <3>2. PICK a \in Busy : top[a] = h
        BY <3>1 DEF Tidy, Workers
      <3> QED
        BY <2>1, <3>2
    <2> QED
      BY <2>2, <2>3, <2>4 DEF Workers, Active
  <1>7. Tidy'
    BY <1>2, <1>4, <1>5, <1>6 DEF Tidy
  <1>8. \A g \in Heads : StackIn(p', g) = StackIn(p, g)
    <2> TAKE g \in Heads
    <2>1. g \in Heads \cup {f} /\ Kept(p, p', g)
      BY <1>2
    <2> QED
      BY <1>1, <1>2, <2>1, StackInKept
  <1>9. StackIn(p', f) = <<f>>
    <2>1. f \in Heads \cup {f}
      OBVIOUS
    <2> QED
      BY <1>2, <2>1, StackInForest
  <1>10. /\ \A a \in Objects \ {o} : StackIn(p', top'[a]) = StackIn(p, top[a])
         /\ \A g \in released : StackIn(p', g) = StackIn(p, g)
    BY <1>3, <1>8, HeadFacts, StackInNone
  <1>11. Stack' = [Stack EXCEPT ![o] = <<f>>] /\ Stack[o] = <<>>
    BY <1>3, <1>9, <1>10, StackIs, StackInNone
  <1>12. Value' = [Value EXCEPT ![o] = None]
    <2>1. current'[o] = None /\ \A a \in Objects \ {o} : current'[a] = current[a]
      BY DEF Tidy, Holders
    <2> QED
      BY <1>3, <2>1 DEF Value
  <1>13. Loose' = Loose
    BY <1>10, StackIs
  <1>14. Abstract!Next
    BY <1>11, <1>12, <1>13, AbsCreate
  <1> QED
    BY <1>2, <1>4, <1>7, <1>14, HeadFacts

\* The elements of h are yielded.
LEMMA YieldElementsStep ==
  ASSUME Tidy, NEW f \in Frames, NEW h \in Objects, h \notin Busy, YieldElements(f, h), Busy' = Busy
  PROVE  /\ Tidy' /\ Abstract!Next
         /\ \A g \in Heads' : g \in Heads /\ p'[g].link = p[g].link
         /\ \A a \in Objects \ {h} : top'[a] = top[a]
         /\ top'[h] = None
  <1> DEFINE r == p[f].root
             t == top[h]
  <1>1. /\ Forest(p, Heads) /\ p[f].st = "running" /\ h \in alive /\ clearing = None
        /\ top' = [top EXCEPT ![h] = None] /\ current' = [current EXCEPT ![h] = None]
        /\ alive' = alive /\ clearing' = clearing /\ released' = released
        /\ p' = IF Empty(h) THEN Destroy(p, t) ELSE AttachLeaf(p, f, t)
    BY DEF Tidy, YieldElements, Running
  <1>2. r \in Heads /\ Active(p, r) /\ Work(p, Chain(p, r)) = Chain(p, r) /\ StackIn(p, r) = Chain(p, r)
    BY <1>1, HeadOf, StackInForest
  <1>3. PICK o \in Busy : top[o] = r
    BY <1>2 DEF Tidy, Workers
  <1>4. /\ o \in Objects /\ o \in alive /\ o # h
        /\ top'[h] = None /\ \A a \in Objects \ {h} : top'[a] = top[a]
    BY <1>1, <1>3 DEF Tidy, Workers, Holders
  <1>5. Holders'
    <2>1. None \notin Frames
      BY LeafChainAssumption
    <2>2. top' \in [Objects -> Frames \cup {None}] /\ current' \in [Objects -> Frames \cup {None}]
      BY <1>1 DEF Tidy, Holders
    <2>3. \A a \in Objects \ alive : top'[a] = None
      BY <1>4 DEF Tidy, Holders
    <2>4. \A a, b \in Objects : top'[a] = top'[b] /\ top'[a] # None => a = b
      BY <1>4 DEF Tidy, Holders
    <2>5. \A a \in Objects : top'[a] \notin released
      BY <1>4, <2>1 DEF Tidy, Holders
    <2>6. alive \subseteq Objects /\ released \subseteq Frames
      BY DEF Tidy, Holders
    <2> QED
      BY <1>1, <2>2, <2>3, <2>4, <2>5, <2>6 DEF Holders
  <1>6. Heads' = Heads \ {t}
    <2>1. \A a \in Objects \ {h} : top[a] = t => top[a] = None
      BY DEF Tidy, Holders
    <2>2. t \notin released
      BY DEF Tidy, Holders
    <2>3. None \notin Frames
      BY LeafChainAssumption
    <2>4. alive \subseteq Objects
      BY DEF Tidy, Holders
    <2> HIDE DEF t
    <2>5. \A x : x \in Heads' <=> x # None /\ (x \in released \/ \E a \in alive : x = top'[a])
      BY <1>1 DEF Heads
    <2>6. \A x : x \in Heads <=> x # None /\ (x \in released \/ \E a \in alive : x = top[a])
      BY DEF Heads
    <2>7. ASSUME NEW x \in Heads' PROVE x \in Heads \ {t}
      <3>1. CASE x \in released
        BY <2>2, <2>5, <2>6, <3>1
      <3>2. CASE \E a \in alive : x = top'[a]
        <4>1. PICK a \in alive : x = top'[a]
          BY <3>2
        <4>2. a # h
          BY <1>4, <2>5, <4>1
        <4>3. x = top[a] /\ a \in Objects \ {h}
          BY <1>4, <2>4, <4>1, <4>2
        <4>4. x # None
          BY <2>5
        <4> QED
          BY <2>1, <2>6, <4>1, <4>3, <4>4
      <3> QED
        BY <2>5, <3>1, <3>2
    <2>8. ASSUME NEW x \in Heads \ {t} PROVE x \in Heads'
      <3>1. CASE x \in released
        BY <2>5, <2>6, <3>1
      <3>2. CASE \E a \in alive : x = top[a]
        <4>1. PICK a \in alive : x = top[a]
          BY <3>2
        <4>2. a # h
          BY <4>1 DEF t
        <4>3. x = top'[a]
          BY <1>4, <2>4, <4>1, <4>2
        <4> QED
          BY <2>5, <2>6, <4>1, <4>3
      <3> QED
        BY <2>6, <3>1, <3>2
    <2> QED
      BY <2>7, <2>8
  <1>7. \A a \in Busy : top'[a] = top[a] /\ a \in alive' /\ top[a] # t
    BY <1>1, <1>4 DEF Tidy, Workers, Holders
  <1>8. Value' = [Value EXCEPT ![h] = None]
    <2>1. \A a \in Objects \ {h} : current'[a] = current[a]
      BY <1>1 DEF Tidy, Holders
    <2> QED
      BY <1>4, <2>1 DEF Value
  <1> HIDE DEF t, r
  <1>9. CASE Empty(h)
    <2>1. Relinked(p, p', Heads \ {t}) /\ \A g \in Heads \ {t} : p'[g] = p[g]
      <3>1. CASE t = None
        <4>1. p' = p
          BY <1>1, <1>9, <3>1, DestroyNone DEF Forest
        <4>2. Heads \ {t} = Heads
          BY <3>1 DEF Heads
        <4> QED
          BY <1>1, <4>1, <4>2, KeptSame
      <3>2. CASE t # None
        <4>1. t \in Heads
          BY <1>1, <3>2, HeadFacts DEF t
        <4> QED
          BY <1>1, <1>9, <4>1, DestroyForest DEF Relinked
      <3> QED
        BY <3>1, <3>2
    <2>2. Heads' \subseteq Heads /\ Forest(p', Heads') /\ \A g \in Heads' : Kept(p, p', g)
      BY <1>6, <2>1 DEF Relinked
    <2>3. Tidy' /\ \A g \in Heads' : StackIn(p', g) = StackIn(p, g)
      BY <1>1, <1>5, <1>7, <2>2, MoveStep
    <2>4. \A a \in Objects \ {h} : StackIn(p', top'[a]) = StackIn(p, top[a])
      <3> TAKE a \in Objects \ {h}
      <3>1. CASE top[a] = None
        BY <1>4, <3>1, StackInNone
      <3>2. CASE top[a] # None
        <4>1. top[a] \in Heads /\ top[a] # t
          BY <3>2, HeadFacts DEF Tidy, Holders, t
        <4> QED
          BY <1>4, <1>6, <2>3, <4>1
      <3> QED
        BY <3>1, <3>2
    <2>5. StackIn(p, t) = <<>>
      <3>1. CASE t = None
        BY <3>1, StackInNone
      <3>2. CASE t # None
        <4>1. t \in Heads /\ p[t].st = "done"
          BY <1>9, <3>2, HeadFacts DEF t, Empty
        <4> QED
          BY <1>1, <4>1, StackInForest
      <3> QED
        BY <3>1, <3>2
    <2>6. StackIn(p', None) = <<>>
      BY StackInNone
    <2>7. StackIn(p, r) \o <<>> = StackIn(p, r)
      BY <1>1, <1>2, StackInForest
    <2>8. Stack' = [Stack EXCEPT ![o] = Stack[o] \o Stack[h], ![h] = <<>>]
      BY <1>3, <1>4, <2>4, <2>5, <2>6, <2>7, StackIs DEF t
    <2>9. \A g \in released : StackIn(p', g) = StackIn(p, g)
      <3>1. \A g \in released : g \in Heads'
        BY <1>6, HeadFacts DEF Tidy, Holders, t
      <3> QED
        BY <2>3, <3>1
    <2>10. Loose' = Loose
      BY <1>1, <2>9, StackIs
    <2>11. Abstract!Next
      BY <1>3, <1>4, <1>8, <2>8, <2>10, AbsNest
    <2> QED
      BY <1>4, <1>6, <2>1, <2>3, <2>11
  <1>10. CASE ~Empty(h)
    <2>1. t # None /\ p[t].st # "done" /\ t \in Heads
      BY <1>1, <1>10, HeadFacts DEF t, Empty
    <2>2. t # r
      BY <1>3, <1>4, <2>1 DEF Tidy, Holders, t
    <2>3. ~Active(p, t)
      <3> SUFFICES ASSUME Active(p, t) PROVE FALSE
        OBVIOUS
      <3>1. PICK a \in Busy : top[a] = t
        BY <2>1 DEF Tidy, Workers
      <3>2. a \in Objects /\ a # h
        BY DEF Tidy, Workers, Holders
      <3> QED
        BY <2>1, <3>1, <3>2 DEF Tidy, Holders, t
    <2>4. /\ Forest(p', Heads \ {t}) /\ Active(p', r)
          /\ Chain(p', r) = Chain(p, r) \o Work(p, Chain(p, t)) /\ Work(p', Chain(p', r)) = Chain(p', r)
          /\ \A g \in Heads \ {r, t} : Kept(p, p', g)
          /\ \A g \in Heads \ {t} : p'[g].link = p[g].link
      <3>1. p' = AttachLeaf(p, f, t) /\ r = p[f].root
        BY <1>1, <1>10 DEF r
      <3>2. CanAttach(p, Heads, f, r, t)
        BY <1>1, <2>1, <2>2, <2>3, <3>1 DEF CanAttach
      <3> QED
        BY ONLY <3>1, <3>2, AttachForest
    <2>5. Workers'
      <3>1. Busy' \subseteq alive'
        BY <1>7
      <3>2. \A a \in Busy' : top'[a] # None /\ Active(p', top'[a])
        <4> SUFFICES ASSUME NEW a \in Busy PROVE top'[a] # None /\ Active(p', top'[a])
          OBVIOUS
        <4>1. top'[a] = top[a] /\ top[a] # None /\ Active(p, top[a]) /\ top[a] # t /\ top[a] \in Heads
          BY <1>7, HeadFacts DEF Tidy, Workers, Holders
        <4> QED
          BY <2>4, <4>1 DEF Kept
      <3>3. \A g \in Heads' : Active(p', g) => \E a \in Busy' : top'[a] = g
        <4> SUFFICES ASSUME NEW g \in Heads', Active(p', g) PROVE \E a \in Busy' : top'[a] = g
          OBVIOUS
        <4>1. CASE g = r
          BY <1>3, <1>7, <4>1
        <4>2. CASE g # r
          <5>1. Active(p, g) /\ g \in Heads
            BY <1>6, <2>4, <4>2 DEF Kept
          <5>2. PICK a \in Busy : top[a] = g
            BY <5>1 DEF Tidy, Workers
          <5> QED
            BY <1>7, <5>2
        <4> QED
          BY <4>1, <4>2
      <3> QED
        BY <1>1, <3>1, <3>2, <3>3 DEF Workers, Active
    <2>6. Tidy'
      BY <1>5, <1>6, <2>4, <2>5 DEF Tidy
    <2>7. \A g \in Heads \ {r, t} : StackIn(p', g) = StackIn(p, g)
      <3> TAKE g \in Heads \ {r, t}
      <3>1. g \in Heads /\ g \in Heads \ {t} /\ Kept(p, p', g)
        BY <2>4
      <3> QED
        BY <1>1, <2>4, <3>1, StackInKept
    <2>8. StackIn(p', r) = StackIn(p, r) \o StackIn(p, t)
      <3>1. r \in Heads \ {t}
        BY <1>2, <2>2
      <3>2. StackIn(p', r) = Work(p', Chain(p', r))
        BY <2>4, <3>1, StackInForest
      <3>3. StackIn(p, t) = Work(p, Chain(p, t))
        BY <1>1, <2>1, StackInForest
      <3> QED
        BY <1>2, <2>4, <3>2, <3>3
    <2>9. \A a \in Objects \ {h, o} : StackIn(p', top'[a]) = StackIn(p, top[a])
      <3> TAKE a \in Objects \ {h, o}
      <3>1. CASE top[a] = None
        BY <1>4, <3>1, StackInNone
      <3>2. CASE top[a] # None
        <4>1. top[a] \in Heads \ {r, t}
          BY <1>3, <1>4, <3>2, HeadFacts DEF Tidy, Holders, t
        <4> QED
          BY <1>4, <2>7, <4>1
      <3> QED
        BY <3>1, <3>2
    <2>10. StackIn(p', None) = <<>>
      BY StackInNone
    <2>11. Stack' = [Stack EXCEPT ![o] = Stack[o] \o Stack[h], ![h] = <<>>]
      BY <1>3, <1>4, <2>8, <2>9, <2>10, StackIs DEF t
    <2>12. \A g \in released : StackIn(p', g) = StackIn(p, g)
      <3>1. \A g \in released : g \in Heads \ {r, t}
        BY <1>3, <1>4, HeadFacts DEF Tidy, Holders, t
      <3> QED
        BY <2>7, <3>1
    <2>13. Loose' = Loose
      BY <1>1, <2>12, StackIs
    <2>14. Abstract!Next
      BY <1>3, <1>4, <1>8, <2>11, <2>13, AbsNest
    <2> QED
      BY <1>4, <1>6, <2>4, <2>6, <2>14
  <1> QED
    BY <1>9, <1>10

\* Who is a head.
LEMMA HeadsAre ==
  /\ \A x : x \in Heads <=> x # None /\ (x \in released \/ \E a \in alive : x = top[a])
  /\ \A x : x \in Heads' <=> x # None /\ (x \in released' \/ \E a \in alive' : x = top'[a])
  BY DEF Heads

\* A default constructed object is empty.
LEMMA ConstructStep ==
  ASSUME Tidy, NEW o \in Objects, Construct(o), Busy' = Busy
  PROVE  Tidy' /\ UNCHANGED Abstract!vars /\ Heads' = Heads
  <1>1. /\ o \notin alive /\ alive' = alive \cup {o} /\ current' = [current EXCEPT ![o] = None]
        /\ top' = top /\ p' = p /\ clearing' = clearing /\ released' = released /\ clearing = None
    BY DEF Construct
  <1>2. top[o] = None
    BY <1>1 DEF Tidy, Holders
  <1>3. Holders'
    BY <1>1, <1>2 DEF Tidy, Holders
  <1>4. Heads' = Heads
    BY <1>1, <1>2 DEF Heads
  <1>5. Forest(p', Heads') /\ \A g \in Heads' : Kept(p, p', g)
    BY <1>1, <1>4, KeptSame DEF Tidy, Relinked
  <1>6. Busy \subseteq alive' /\ \A a \in Busy : top'[a] = top[a]
    BY <1>1 DEF Tidy, Workers
  <1>7. Tidy'
    BY <1>1, <1>3, <1>4, <1>5, <1>6, MoveStep
  <1>8. Stack' = Stack /\ Loose' = Loose
    BY <1>1, StackIs
  <1>9. Value' = Value
    <2>1. \A a \in Objects \ {o} : current'[a] = current[a]
      BY <1>1 DEF Tidy, Holders
    <2> QED
      BY <1>1, <1>2, <2>1 DEF Value
  <1> QED
    BY <1>4, <1>7, <1>8, <1>9, AbsStutter

\* swap(): two objects exchange their frames.
LEMMA SwapStep ==
  ASSUME Tidy, NEW a \in alive, NEW b \in alive, a \notin Busy, b \notin Busy, clearing = None,
         top' = Exchanged(top, a, b), current' = Exchanged(current, a, b),
         alive' = alive, clearing' = clearing, released' = released, Busy' = Busy,
         Relinked(p, p', Heads)
  PROVE  /\ Tidy' /\ Abstract!Next /\ Heads' = Heads /\ a \in Objects /\ b \in Objects
         /\ top'[a] = top[b] /\ top'[b] = top[a] /\ \A x \in Objects \ {a, b} : top'[x] = top[x]
  <1>1. a \in Objects /\ b \in Objects
    BY DEF Tidy, Holders
  <1>2. /\ top'[a] = top[b] /\ top'[b] = top[a] /\ \A x \in Objects \ {a, b} : top'[x] = top[x]
        /\ top' \in [Objects -> Frames \cup {None}]
    BY <1>1 DEF Tidy, Holders, Exchanged
  <1>3. /\ current'[a] = current[b] /\ current'[b] = current[a]
        /\ \A x \in Objects \ {a, b} : current'[x] = current[x]
        /\ current' \in [Objects -> Frames \cup {None}]
    BY <1>1 DEF Tidy, Holders, Exchanged
  <1>4. Holders'
    <2>1. \A x \in Objects \ alive : top'[x] = None
      BY <1>2 DEF Tidy, Holders
    <2>2. \A x, y \in Objects : top'[x] = top'[y] /\ top'[x] # None => x = y
      BY <1>1, <1>2 DEF Tidy, Holders
    <2>3. \A x \in Objects : top'[x] \notin released
      BY <1>1, <1>2 DEF Tidy, Holders
    <2>4. alive \subseteq Objects /\ released \subseteq Frames
      BY DEF Tidy, Holders
    <2> QED
      BY <1>2, <1>3, <2>1, <2>2, <2>3, <2>4 DEF Holders
  <1>5. Heads' = Heads
    <2>1. alive \subseteq Objects
      BY DEF Tidy, Holders
    <2>2. ASSUME NEW x PROVE (\E y \in alive : x = top'[y]) <=> (\E y \in alive : x = top[y])
      BY <1>2, <2>1
    <2> QED
      BY <2>2, HeadsAre
  <1>6. Busy \subseteq alive' /\ \A x \in Busy : top'[x] = top[x]
    BY <1>2 DEF Tidy, Workers, Holders
  <1>7. Tidy' /\ \A g \in Heads' : StackIn(p', g) = StackIn(p, g)
    BY <1>4, <1>5, <1>6, MoveStep DEF Relinked
  <1>8. \A x \in Objects : StackIn(p', top[x]) = StackIn(p, top[x])
    BY <1>5, <1>7, HeadFacts, StackInNone
  <1>9. \A f \in released : StackIn(p', f) = StackIn(p, f)
    BY <1>5, <1>7, HeadFacts
  <1>10. Stack' = [Stack EXCEPT ![a] = Stack[b], ![b] = Stack[a]]
    BY <1>1, <1>2, <1>8, StackIs
  <1>11. Value' = [Value EXCEPT ![a] = Value[b], ![b] = Value[a]]
    BY <1>1, <1>2, <1>3 DEF Value
  <1>12. Loose' = Loose
    BY <1>9, StackIs
  <1>13. Abstract!Next
    BY <1>1, <1>10, <1>11, <1>12, AbsExchange
  <1> QED
    BY <1>1, <1>2, <1>5, <1>7, <1>13

\* clear() begins: nothing is destroyed so far.
LEMMA ClearBeginsStep ==
  ASSUME Tidy, NEW o, NEW then, NEW k, o \notin Busy, ClearBegins(o, then, k), Busy' = Busy
  PROVE  Tidy' /\ UNCHANGED Abstract!vars /\ Heads' = Heads
  <1>1. /\ o \in alive /\ (then = "reset" => k \in released)
        /\ clearing' = [obj |-> o, then |-> then, handle |-> k]
        /\ alive' = alive /\ top' = top /\ current' = current /\ p' = p /\ released' = released
    BY DEF ClearBegins
  <1>2. clearing'.obj = o /\ clearing'.then = then /\ clearing'.handle = k
    BY <1>1
  <1>3. Holders'
    BY <1>1, <1>2 DEF Tidy, Holders
  <1>4. Heads' = Heads
    BY <1>1 DEF Heads
  <1>5. Forest(p', Heads') /\ \A g \in Heads' : Kept(p, p', g)
    BY <1>1, <1>4, KeptSame DEF Tidy, Relinked
  <1>6. Busy \subseteq alive' /\ \A a \in Busy : top'[a] = top[a]
    BY <1>1 DEF Tidy, Workers
  <1>7. Tidy'
    BY <1>2, <1>3, <1>4, <1>5, <1>6, MoveStep
  <1>8. Stack' = Stack /\ Loose' = Loose /\ Value' = Value
    BY <1>1, StackIs DEF Value
  <1> QED
    BY <1>4, <1>7, <1>8, AbsStutter

\* One round of clear(): the frame in the object is destroyed, and the object
\* b, which the destructors of its locals have reached, gives its frame up to it.
LEMMA ClearRoundStep ==
  ASSUME Tidy, NEW b, b \notin Busy, NEW q, ClearRound(b, q), Busy' = Busy, NEW o, o = clearing.obj,
         Relinked(Destroy(p, top[o]), q, Heads \ {top[o]})
  PROVE  /\ Tidy' /\ Abstract!Next /\ Heads' = Heads \ {top[o]} /\ o \in Objects /\ b \in Objects
         /\ b = o => top'[o] = None
         /\ b # o => top'[o] = top[b] /\ top'[b] = None
         /\ \A x \in Objects \ {o, b} : top'[x] = top[x]
  <1> DEFINE t == top[o]
  <1>1. /\ clearing # None /\ b \in alive /\ t # None
        /\ top' = Exchanged([top EXCEPT ![o] = None], o, b) /\ current' = Exchanged(current, o, b)
        /\ p' = q /\ alive' = alive /\ clearing' = clearing /\ released' = released
    BY DEF ClearRound
  <1>2. o \in alive /\ o \in Objects /\ b \in Objects /\ o \notin Busy /\ t \in Heads /\ t \notin released
    BY <1>1, HeadFacts DEF Tidy, Holders, Workers
  <1>3. /\ b = o => top'[o] = None
        /\ b # o => top'[o] = top[b] /\ top'[b] = None
        /\ \A x \in Objects \ {o, b} : top'[x] = top[x]
        /\ top' \in [Objects -> Frames \cup {None}]
    BY <1>1, <1>2 DEF Tidy, Holders, Exchanged
  <1>4. /\ current'[o] = current[b] /\ current'[b] = current[o]
        /\ \A x \in Objects \ {o, b} : current'[x] = current[x]
        /\ current' \in [Objects -> Frames \cup {None}]
    BY <1>1, <1>2 DEF Tidy, Holders, Exchanged
  <1>5. \A x \in Objects \ {o} : top[x] # t
    BY <1>1, <1>2 DEF Tidy, Holders
  <1> HIDE DEF t
  <1>6. Holders'
    <2>1. \A x \in Objects \ alive : top'[x] = None
      BY <1>1, <1>2, <1>3 DEF Tidy, Holders
    <2>2. \A x, y \in Objects : top'[x] = top'[y] /\ top'[x] # None => x = y
      BY <1>2, <1>3 DEF Tidy, Holders
    <2>3. \A x \in Objects : top'[x] \notin released
      <3>1. None \notin released
        BY LeafChainAssumption DEF Tidy, Holders
      <3> QED
        BY <1>2, <1>3, <3>1 DEF Tidy, Holders
    <2>4. /\ alive \subseteq Objects /\ released \subseteq Frames
          /\ clearing.obj \in alive /\ (clearing.then = "reset" => clearing.handle \in released)
      BY <1>1 DEF Tidy, Holders
    <2> QED
      BY <1>1, <1>3, <1>4, <2>1, <2>2, <2>3, <2>4 DEF Holders
  <1>7. Heads' = Heads \ {t}
    <2>1. alive \subseteq Objects /\ top[o] = t
      BY DEF Tidy, Holders, t
    <2>2. ASSUME NEW x, x # None
          PROVE  (\E y \in alive : x = top'[y]) <=> (x # t /\ \E y \in alive : x = top[y])
      <3>1. ASSUME NEW y \in alive, x = top'[y] PROVE x # t /\ \E z \in alive : x = top[z]
        <4>1. CASE y = o
          BY <1>1, <1>2, <1>3, <1>5, <2>2, <3>1, <4>1
        <4>2. CASE y # o
          BY <1>3, <1>5, <2>1, <2>2, <3>1, <4>2
        <4> QED
          BY <4>1, <4>2
      <3>2. ASSUME NEW y \in alive, x = top[y], x # t PROVE \E z \in alive : x = top'[z]
        <4>1. y # o /\ y \in Objects
          BY <2>1, <3>2
        <4>2. CASE y = b
          BY <1>2, <1>3, <3>2, <4>1, <4>2
        <4>3. CASE y # b
          BY <1>3, <3>2, <4>1, <4>3
        <4> QED
          BY <4>2, <4>3
      <3> QED
        BY <3>1, <3>2
    <2>3. ASSUME NEW x PROVE x \in Heads' <=> x \in Heads /\ x # t
      <3>1. x \in Heads' <=> x # None /\ (x \in released \/ \E y \in alive : x = top'[y])
        BY <1>1, HeadsAre
      <3>2. x \in Heads <=> x # None /\ (x \in released \/ \E y \in alive : x = top[y])
        BY HeadsAre
      <3> QED
        BY <1>2, <2>2, <3>1, <3>2
    <2> QED
      BY <2>3
  <1>8. Forest(p', Heads') /\ Heads' \subseteq Heads /\ \A g \in Heads' : Kept(p, p', g)
    <2> DEFINE d == Destroy(p, t)
    <2>1. Forest(d, Heads \ {t}) /\ \A g \in Heads \ {t} : Kept(p, d, g)
      BY <1>2, DestroyForest DEF Tidy
    <2>2. Forest(q, Heads \ {t}) /\ \A g \in Heads \ {t} : Kept(d, q, g)
      BY DEF Relinked, t
    <2> HIDE DEF d
    <2>3. \A g \in Heads \ {t} : Kept(p, q, g)
      BY <2>1, <2>2 DEF Kept
    <2> QED
      BY <1>1, <1>7, <2>2, <2>3
  <1>9. Busy \subseteq alive' /\ (\A x \in Busy : top'[x] = top[x]) /\ clearing'.obj \notin Busy
    BY <1>1, <1>2, <1>3 DEF Tidy, Workers, Holders
  <1>10. Tidy' /\ \A g \in Heads' : StackIn(p', g) = StackIn(p, g)
    BY <1>6, <1>8, <1>9, MoveStep
  <1>11. \A x \in Objects \ {o} : StackIn(p', top[x]) = StackIn(p, top[x])
    <2> TAKE x \in Objects \ {o}
    <2>1. CASE top[x] = None
      BY <2>1, StackInNone
    <2>2. CASE top[x] # None
      <3>1. top[x] \in Heads'
        BY <1>5, <1>7, <2>2, HeadFacts
      <3> QED
        BY <1>10, <3>1
    <2> QED
      BY <2>1, <2>2
  <1>12. Loose' = Loose
    <2>1. \A f \in released : f \in Heads'
      BY <1>2, <1>7, HeadFacts
    <2> QED
      BY <1>1, <1>10, <2>1, StackIs
  <1>13. StackIn(p', None) = <<>>
    BY StackInNone
  <1>14. Abstract!Next
    <2>1. CASE b = o
      <3>1. Stack' = [Stack EXCEPT ![o] = <<>>]
        BY <1>2, <1>3, <1>11, <1>13, <2>1, StackIs
      <3>2. Value' = [Value EXCEPT ![o] = None]
        BY <1>2, <1>3, <1>4, <2>1 DEF Value
      <3> QED
        BY <1>2, <1>12, <2>1, <3>1, <3>2, AbsDrop
    <2>2. CASE b # o
      <3>1. Stack' = [Stack EXCEPT ![o] = Stack[b], ![b] = <<>>]
        BY <1>2, <1>3, <1>11, <1>13, <2>2, StackIs
      <3>2. Value' = [Value EXCEPT ![o] = Value[b], ![b] = None]
        BY <1>2, <1>3, <1>4, <2>2 DEF Value
      <3> QED
        BY <1>2, <1>12, <3>1, <3>2, AbsDrop
    <2> QED
      BY <2>1, <2>2
  <1> QED
    BY <1>2, <1>3, <1>7, <1>10, <1>14 DEF t

\* What is left of two heads differs, unless nothing is left.
LEMMA StacksDiffer ==
  ASSUME NEW q, NEW H, Forest(q, H), NEW g \in H, NEW h \in H, StackIn(q, g) = StackIn(q, h), g # h
  PROVE  StackIn(q, g) = <<>>
  BY StackInForest

\* clear() is over; its caller finishes what it was called for.
LEMMA ClearDoneStep ==
  ASSUME Tidy, ClearDone, Busy' = Busy, NEW o, o = clearing.obj
  PROVE  /\ Tidy' /\ AbstractStep /\ Heads' = Heads /\ o \in Objects /\ clearing # None /\ top[o] = None
         /\ p' = p /\ \A x \in Objects \ {o} : top'[x] = top[x]
         /\ clearing.then = "reset" => top'[o] = clearing.handle
         /\ clearing.then # "reset" => top'[o] = None
  <1>1. clearing # None /\ top[o] = None /\ clearing' = None /\ p' = p
    BY DEF ClearDone, ClearEnds
  <1>2. o \in alive /\ o \in Objects /\ o \notin Busy /\ (clearing.then = "reset" => clearing.handle \in released)
    BY <1>1 DEF Tidy, Holders, Workers
  <1>3. /\ Stack[o] = <<>> /\ Value[o] = None
    BY <1>1, <1>2, StackIs, StackInNone DEF Value
  <1>4. CASE clearing.then = "clear" /\ UNCHANGED <<alive, top, current, released>>
    <2>1. Holders' /\ Heads' = Heads
      BY <1>1, <1>4 DEF Tidy, Holders, Heads
    <2>2. Forest(p', Heads') /\ \A g \in Heads' : Kept(p, p', g)
      BY <1>1, <2>1, KeptSame DEF Tidy, Relinked
    <2>3. Busy \subseteq alive' /\ \A a \in Busy : top'[a] = top[a]
      BY <1>4 DEF Tidy, Workers
    <2>4. Tidy'
      BY <1>1, <2>1, <2>2, <2>3, MoveStep
    <2>5. Stack' = Stack /\ Loose' = Loose /\ Value' = Value
      BY <1>1, <1>4, StackIs DEF Value
    <2> QED
      BY <1>1, <1>2, <1>4, <2>1, <2>4, <2>5, AbsStutter DEF AbstractStep
  <1>5. CASE /\ clearing.then = "destroy" /\ alive' = alive \ {o}
             /\ top' = [top EXCEPT ![o] = None] /\ current' = [current EXCEPT ![o] = None]
             /\ released' = released
    <2>1. top' = top
      BY <1>1, <1>2, <1>5 DEF Tidy, Holders
    <2>2. Holders' /\ Heads' = Heads
      BY <1>1, <1>2, <1>5, <2>1 DEF Tidy, Holders, Heads
    <2>3. Forest(p', Heads') /\ \A g \in Heads' : Kept(p, p', g)
      BY <1>1, <2>2, KeptSame DEF Tidy, Relinked
    <2>4. Busy \subseteq alive' /\ \A a \in Busy : top'[a] = top[a]
      BY <1>2, <1>5, <2>1 DEF Tidy, Workers
    <2>5. Tidy'
      BY <1>1, <2>2, <2>3, <2>4, MoveStep
    <2>6. Stack' = Stack /\ Loose' = Loose
      BY <1>1, <1>5, <2>1, StackIs
    <2>7. Value' = Value
      <3>1. \A a \in Objects \ {o} : current'[a] = current[a]
        BY <1>5 DEF Tidy, Holders
      <3> QED
        BY <1>1, <2>1, <3>1 DEF Value
    <2> QED
      BY <1>1, <1>2, <1>5, <2>1, <2>2, <2>5, <2>6, <2>7, AbsStutter DEF AbstractStep
  <1>6. CASE /\ clearing.then = "reset" /\ top' = [top EXCEPT ![o] = clearing.handle]
             /\ released' = released \ {clearing.handle} /\ alive' = alive /\ current' = current
    <2> DEFINE k == clearing.handle
    <2>1. k \in released /\ k \in Frames /\ k \in Heads /\ k # None
      BY <1>2, <1>6, HeadFacts DEF Tidy, Holders
    <2>2. top'[o] = k /\ \A x \in Objects \ {o} : top'[x] = top[x]
      BY <1>2, <1>6 DEF Tidy, Holders
    <2> HIDE DEF k
    <2>3. Holders'
      <3>1. top' \in [Objects -> Frames \cup {None}] /\ current' \in [Objects -> Frames \cup {None}]
        BY <1>6, <2>1 DEF Tidy, Holders, k
      <3>2. \A x \in Objects \ alive : top'[x] = None
        BY <1>2, <2>2 DEF Tidy, Holders
      <3>3. \A x \in Objects : top[x] # k
        BY <2>1 DEF Tidy, Holders
      <3>4. \A x, y \in Objects : top'[x] = top'[y] /\ top'[x] # None => x = y
        BY <2>2, <3>3 DEF Tidy, Holders
      <3>5. \A x \in Objects : top'[x] \notin released'
        BY <1>6, <2>2 DEF Tidy, Holders, k
      <3>6. alive \subseteq Objects /\ released' \subseteq Frames
        BY <1>6 DEF Tidy, Holders
      <3> QED
        BY <1>1, <1>6, <3>1, <3>2, <3>4, <3>5, <3>6 DEF Holders
    <2>4. Heads' = Heads
      <3>1. alive \subseteq Objects
        BY DEF Tidy, Holders
      <3>2. ASSUME NEW x, x # None
            PROVE  (x \in released' \/ \E y \in alive : x = top'[y]) <=> (x \in released \/ \E y \in alive : x = top[y])
        <4>1. CASE x = k
          BY <1>2, <2>1, <2>2, <4>1
        <4>2. CASE x # k
          <5>1. x \in released' <=> x \in released
            BY <1>6, <4>2 DEF k
          <5>2. ASSUME NEW y \in alive PROVE x = top'[y] <=> x = top[y]
            BY <1>1, <2>2, <3>1, <3>2, <4>2
          <5> QED
            BY <5>1, <5>2
        <4> QED
          BY <4>1, <4>2
      <3> QED
        BY <1>6, <3>2, HeadsAre
    <2>5. Forest(p', Heads') /\ \A g \in Heads' : Kept(p, p', g)
      BY <1>1, <2>4, KeptSame DEF Tidy, Relinked
    <2>6. Busy \subseteq alive' /\ \A a \in Busy : top'[a] = top[a]
      BY <1>2, <1>6, <2>2 DEF Tidy, Workers, Holders
    <2>7. Tidy'
      BY <1>1, <2>3, <2>4, <2>5, <2>6, MoveStep
    <2> DEFINE s == StackIn(p, k)
    <2>8. Stack' = [Stack EXCEPT ![o] = s]
      BY <1>1, <1>2, <2>2, StackIs
    <2>9. s \in Loose \cup {<<>>}
      BY <2>1, StackIs
    <2>10. Loose' = Loose \ {s}
      <3>1. \A f \in released : f # k /\ StackIn(p, f) # <<>> => StackIn(p, f) # s
        <4> TAKE f \in released
        <4>1. f \in Heads
          BY HeadFacts
        <4> QED
          BY <2>1, <4>1, StacksDiffer DEF Tidy
      <3>2. released' = released \ {k}
        BY <1>6 DEF k
      <3>3. Loose = {StackIn(p, f) : f \in released} \ {<<>>} /\ Loose' = {StackIn(p, f) : f \in released'} \ {<<>>}
        BY <1>1, StackIs
      <3> HIDE DEF s
      <3>4. ASSUME NEW u \in Loose' PROVE u \in Loose \ {s}
        BY <3>1, <3>2, <3>3
      <3>5. ASSUME NEW u \in Loose \ {s} PROVE u \in Loose'
        BY <3>2, <3>3 DEF s
      <3> QED
        BY <3>4, <3>5
    <2>11. current[o] \in Frames \cup {None} /\ Value' = [Value EXCEPT ![o] = current[o]]
      BY <1>2, <1>6, <2>1, <2>2 DEF Value, Tidy, Holders
    <2> HIDE DEF s
    <2>12. Abstract!Next
      BY <1>2, <1>3, <2>8, <2>9, <2>10, <2>11, AbsAdopt
    <2> QED
      BY <1>1, <1>2, <1>6, <2>2, <2>4, <2>7, <2>12 DEF AbstractStep, k
  <1> QED
    BY <1>4, <1>5, <1>6 DEF ClearDone, ClearEnds

\* release(): the handle is the caller's.
LEMMA ReleaseStep ==
  ASSUME Tidy, NEW o, o \notin Busy, Release(o), Busy' = Busy
  PROVE  /\ Tidy' /\ Abstract!Next /\ Heads' = Heads /\ o \in Objects /\ p' = p
         /\ top'[o] = None /\ \A x \in Objects \ {o} : top'[x] = top[x]
  <1> DEFINE t == top[o]
  <1>1. /\ clearing = None /\ o \in alive /\ t # None /\ released' = released \cup {t}
        /\ top' = [top EXCEPT ![o] = None]
        /\ alive' = alive /\ current' = current /\ p' = p /\ clearing' = clearing
    BY DEF Release
  <1>2. o \in Objects /\ t \in Frames /\ t \in Heads /\ t \notin released
    BY <1>1, HeadFacts DEF Tidy, Holders
  <1>3. top'[o] = None /\ \A x \in Objects \ {o} : top'[x] = top[x] /\ top[x] # t
    BY <1>1, <1>2 DEF Tidy, Holders
  <1> HIDE DEF t
  <1>4. Holders'
    <2>1. top' \in [Objects -> Frames \cup {None}] /\ current' \in [Objects -> Frames \cup {None}]
      BY <1>1 DEF Tidy, Holders
    <2>2. \A x \in Objects \ alive : top'[x] = None
      BY <1>3 DEF Tidy, Holders
    <2>3. \A x, y \in Objects : top'[x] = top'[y] /\ top'[x] # None => x = y
      BY <1>3 DEF Tidy, Holders
    <2>4. \A x \in Objects : top'[x] \notin released'
      <3>1. None \notin released'
        BY <1>1, <1>2, LeafChainAssumption DEF Tidy, Holders
      <3> QED
        BY <1>1, <1>3, <3>1 DEF Tidy, Holders
    <2>5. alive \subseteq Objects /\ released' \subseteq Frames
      BY <1>1, <1>2 DEF Tidy, Holders
    <2> QED
      BY <1>1, <2>1, <2>2, <2>3, <2>4, <2>5 DEF Holders
  <1>5. Heads' = Heads
    <2>1. alive \subseteq Objects /\ top[o] = t
      BY DEF Tidy, Holders, t
    <2>2. ASSUME NEW x, x # None
          PROVE  (x \in released' \/ \E y \in alive : x = top'[y]) <=> (x \in released \/ \E y \in alive : x = top[y])
      <3>1. CASE x = t
        BY <1>1, <2>1, <3>1
      <3>2. CASE x # t
        <4>1. x \in released' <=> x \in released
          BY <1>1, <3>2
        <4>2. ASSUME NEW y \in alive PROVE x = top'[y] <=> x = top[y]
          BY <1>3, <2>1, <2>2, <3>2
        <4> QED
          BY <4>1, <4>2
      <3> QED
        BY <3>1, <3>2
    <2> QED
      BY <1>1, <2>2, HeadsAre
  <1>6. Forest(p', Heads') /\ \A g \in Heads' : Kept(p, p', g)
    BY <1>1, <1>5, KeptSame DEF Tidy, Relinked
  <1>7. Busy \subseteq alive' /\ \A a \in Busy : top'[a] = top[a]
    BY <1>1, <1>3 DEF Tidy, Workers, Holders
  <1>8. Tidy'
    BY <1>1, <1>4, <1>5, <1>6, <1>7, MoveStep
  <1>9. StackIn(p, None) = <<>>
    BY StackInNone
  <1>10. Stack' = [Stack EXCEPT ![o] = <<>>] /\ Stack[o] = StackIn(p, t)
    BY <1>1, <1>2, <1>3, <1>9, StackIs DEF t
  <1>11. Loose' = Loose \cup ({Stack[o]} \ {<<>>})
    <2>1. Loose = {StackIn(p, f) : f \in released} \ {<<>>} /\ Loose' = {StackIn(p, f) : f \in released \cup {t}} \ {<<>>}
      BY <1>1, StackIs
    <2> QED
      BY <1>10, <2>1
  <1>12. Value' = [Value EXCEPT ![o] = None]
    BY <1>1, <1>2, <1>3 DEF Value
  <1>13. Abstract!Next
    BY <1>2, <1>10, <1>11, <1>12, AbsRelease
  <1> QED
    BY <1>1, <1>2, <1>3, <1>5, <1>8, <1>13

\* The owner of a released handle destroys it.
LEMMA DestroyReleasedStep ==
  ASSUME Tidy, NEW f, DestroyReleased(f), Busy' = Busy
  PROVE  /\ Tidy' /\ AbstractStep /\ Heads' = Heads \ {f} /\ \A g \in Heads \ {f} : p'[g] = p[g]
         /\ \A x \in Objects : top'[x] = top[x] /\ top[x] # f
  <1>1. /\ clearing = None /\ f \in released /\ released' = released \ {f} /\ p' = Destroy(p, f)
        /\ alive' = alive /\ top' = top /\ current' = current /\ clearing' = clearing
    BY DEF DestroyReleased
  <1>2. f \in Heads /\ f # None /\ \A x \in Objects : top[x] # f
    BY <1>1, HeadFacts DEF Tidy, Holders
  <1>3. Holders'
    BY <1>1 DEF Tidy, Holders
  <1>4. Heads' = Heads \ {f}
    <2>1. alive \subseteq Objects
      BY DEF Tidy, Holders
    <2> QED
      BY <1>1, <1>2, <2>1 DEF Heads
  <1>5. /\ Forest(p', Heads \ {f}) /\ \A g \in Heads \ {f} : Kept(p, p', g) /\ p'[g] = p[g]
    BY <1>1, <1>2, DestroyForest DEF Tidy
  <1>6. Busy \subseteq alive' /\ \A a \in Busy : top'[a] = top[a]
    BY <1>1 DEF Tidy, Workers
  <1>7. Tidy' /\ \A g \in Heads' : StackIn(p', g) = StackIn(p, g)
    <2>1. Heads' \subseteq Heads /\ Forest(p', Heads') /\ \A g \in Heads' : Kept(p, p', g)
      BY <1>4, <1>5
    <2> QED
      BY <1>1, <1>3, <1>6, <2>1, MoveStep
  <1>8. Stack' = Stack
    <2>1. \A x \in Objects : StackIn(p', top[x]) = StackIn(p, top[x])
      <3> TAKE x \in Objects
      <3>1. CASE top[x] = None
        BY <3>1, StackInNone
      <3>2. CASE top[x] # None
        <4>1. top[x] \in Heads'
          BY <1>2, <1>4, <3>2, HeadFacts
        <4> QED
          BY <1>7, <4>1
      <3> QED
        BY <3>1, <3>2
    <2> QED
      BY <1>1, <2>1, StackIs
  <1>9. Value' = Value
    BY <1>1 DEF Value
  <1> DEFINE s == StackIn(p, f)
  <1>10. Loose' = Loose \ {s}
    <2>1. \A g \in released : g # f /\ StackIn(p, g) # <<>> => StackIn(p, g) # s
      <3> TAKE g \in released
      <3>1. g \in Heads
        BY HeadFacts
      <3> QED
        BY <1>2, <3>1, StacksDiffer DEF Tidy
    <2>2. \A g \in released' : StackIn(p', g) = StackIn(p, g)
      <3>1. \A g \in released' : g \in Heads'
        BY <1>1, <1>4, HeadFacts
      <3> QED
        BY <1>7, <3>1
    <2>3. Loose = {StackIn(p, g) : g \in released} \ {<<>>} /\ Loose' = {StackIn(p, g) : g \in released'} \ {<<>>}
      BY <2>2, StackIs
    <2> HIDE DEF s
    <2>4. ASSUME NEW u \in Loose' PROVE u \in Loose \ {s}
      BY <1>1, <2>1, <2>3
    <2>5. ASSUME NEW u \in Loose \ {s} PROVE u \in Loose'
      BY <1>1, <2>3 DEF s
    <2> QED
      BY <2>4, <2>5
  <1>11. s \in Loose \/ s = <<>>
    BY <1>1, StackIs
  <1> HIDE DEF s
  <1>12. CASE s \in Loose
    BY <1>1, <1>2, <1>4, <1>5, <1>7, <1>8, <1>9, <1>10, <1>12, AbsDiscard DEF AbstractStep
  <1>13. CASE s \notin Loose
    <2>1. Loose' = Loose
      BY <1>10, <1>13
    <2> QED
      BY <1>1, <1>2, <1>4, <1>5, <1>7, <1>8, <1>9, <2>1, AbsStutter DEF AbstractStep
  <1> QED
    BY <1>12, <1>13

\* A frame that another one holds has one holder, and is no head.
LEMMA LeafHolder ==
  ASSUME NEW q, NEW H, Forest(q, H), NEW f \in Frames, NEW g \in Frames, q[g].leaf = f
  PROVE  f \notin H /\ \A x \in Frames : q[x].leaf = f => x = g
  <1>1. ASSUME NEW y \in Frames, q[y].leaf = f
        PROVE  \E h \in H : \E i \in 1 .. Len(Chain(q, h)) - 1 : y = Chain(q, h)[i] /\ f = Chain(q, h)[i + 1]
    <2>1. f # None
      BY LeafChainAssumption
    <2>2. q[y].st # "free"
      BY <1>1, <2>1 DEF Forest
    <2>3. PICK h \in H : y \in Range(Chain(q, h))
      BY <2>2 DEF Forest
    <2> DEFINE s == Chain(q, h)
    <2>4. Shape(q, h, s)
      BY DEF Forest
    <2> HIDE DEF s
    <2>5. Len(s) \in Nat \ {0} /\ Range(s) = {s[i] : i \in 1 .. Len(s)}
      BY <2>4, ShapeFacts
    <2>6. PICK i \in 1 .. Len(s) : y = s[i]
      BY <2>3, <2>5 DEF s
    <2>7. i # Len(s)
      BY <1>1, <2>1, <2>4, <2>6 DEF Shape, Path
    <2>8. i \in 1 .. Len(s) - 1
      BY <2>5, <2>7
    <2>9. q[s[i]].leaf = s[i + 1]
      BY <2>4, <2>8 DEF Shape, Path
    <2>10. y = s[i] /\ f = s[i + 1]
      BY <1>1, <2>6, <2>9
    <2> QED
      BY <2>8, <2>10 DEF s
  <1>2. PICK h \in H : \E i \in 1 .. Len(Chain(q, h)) - 1 : g = Chain(q, h)[i] /\ f = Chain(q, h)[i + 1]
    BY <1>1
  <1> DEFINE s == Chain(q, h)
  <1>3. Shape(q, h, s)
    BY DEF Forest
  <1>4. PICK i \in 1 .. Len(s) - 1 : g = s[i] /\ f = s[i + 1]
    BY <1>2
  <1> HIDE DEF s
  <1>5. Len(s) \in Nat \ {0} /\ Range(s) = {s[k] : k \in 1 .. Len(s)} /\ s[1] = h
    BY <1>3, ShapeFacts
  <1>6. \A k, j \in 1 .. Len(s) : s[k] = s[j] => k = j
    BY <1>3 DEF Shape, Path
  <1>7. i + 1 \in 1 .. Len(s) /\ 1 \in 1 .. Len(s) /\ i + 1 # 1
    BY <1>5
  <1>8. f \in Range(s)
    BY <1>4, <1>5, <1>7
  <1>9. f \notin H
    <2> SUFFICES ASSUME f \in H PROVE FALSE
      OBVIOUS
    <2>1. f \in Range(Chain(q, f))
      BY ForestFacts
    <2>2. f = h
      BY <1>8, <2>1 DEF Forest, s
    <2> QED
      BY <1>4, <1>5, <1>6, <1>7, <2>2
  <1>10. ASSUME NEW x \in Frames, q[x].leaf = f PROVE x = g
    <2>1. PICK e \in H : \E j \in 1 .. Len(Chain(q, e)) - 1 : x = Chain(q, e)[j] /\ f = Chain(q, e)[j + 1]
      BY <1>1, <1>10
    <2>2. PICK j \in 1 .. Len(Chain(q, e)) - 1 : x = Chain(q, e)[j] /\ f = Chain(q, e)[j + 1]
      BY <2>1
    <2>3. /\ Len(Chain(q, e)) \in Nat \ {0}
          /\ Range(Chain(q, e)) = {Chain(q, e)[k] : k \in 1 .. Len(Chain(q, e))}
      <3>1. Shape(q, e, Chain(q, e))
        BY DEF Forest
      <3> QED
        BY <3>1, ShapeFacts
    <2>4. j + 1 \in 1 .. Len(Chain(q, e))
      BY <2>3
    <2>5. f \in Range(Chain(q, e))
      BY <2>2, <2>3, <2>4
    <2>6. e = h
      BY <1>8, <2>5 DEF Forest, s
    <2>7. j \in 1 .. Len(s) - 1 /\ x = s[j] /\ f = s[j + 1] /\ j + 1 \in 1 .. Len(s)
      BY <2>2, <2>4, <2>6 DEF s
    <2>8. j + 1 = i + 1
      BY <1>4, <1>6, <1>7, <2>7
    <2>9. j = i
      BY <1>5, <2>7, <2>8
    <2> QED
      BY <1>4, <2>7, <2>9
  <1> QED
    BY <1>9, <1>10

\* The invariant contains what FramesHaveOneHolder says.
LEMMA OneHolder ==
  ASSUME Tidy
  PROVE  FramesHaveOneHolder
  <1>1. Forest(p, Heads) /\ Holders
    BY DEF Tidy
  <1>2. ChainTypeOK
    BY <1>1 DEF Holders, Forest, Promise, ChainTypeOK
  <1>3. {f \in Frames : ~Free(f)} = UNION {Range(Chain(p, h)) : h \in Heads}
    <2>1. ASSUME NEW x \in Frames, ~Free(x) PROVE x \in UNION {Range(Chain(p, h)) : h \in Heads}
      BY <1>1, <2>1 DEF Forest, Free
    <2>2. ASSUME NEW h \in Heads, NEW x \in Range(Chain(p, h)) PROVE x \in Frames /\ ~Free(x)
      BY <1>1, ForestFacts DEF Free
    <2> QED
      BY <2>1, <2>2
  <1>4. ASSUME NEW f \in Frames
        PROVE  Cardinality({o \in Objects : top[o] = f}) + Cardinality({r \in released : r = f})
               + Cardinality({g \in Frames : p[g].leaf = f}) <= 1
    <2> DEFINE A == {o \in Objects : top[o] = f}
               B == {r \in released : r = f}
               D == {g \in Frames : p[g].leaf = f}
    <2>1. f # None
      BY LeafChainAssumption
    <2>2. A = {} \/ \E o : A = {o}
      BY <1>1, <2>1 DEF Holders
    <2>3. B = {} \/ B = {f}
      OBVIOUS
    <2>4. A = {} \/ B = {}
      BY <1>1 DEF Holders
    <2>5. A # {} \/ B # {} => f \in Heads
      BY <2>1, HeadFacts
    <2>6. D = {} \/ f \notin Heads
      BY <1>1, LeafHolder
    <2>7. D = {} \/ \E g : D = {g}
      <3> SUFFICES ASSUME D # {} PROVE \E g : D = {g}
        OBVIOUS
      <3>1. PICK g \in Frames : p[g].leaf = f
        OBVIOUS
      <3>2. \A x \in Frames : p[x].leaf = f => x = g
        BY <1>1, <3>1, LeafHolder
      <3> QED
        BY <3>1, <3>2
    <2> HIDE DEF A, B, D
    <2>8. Cardinality({}) = 0 /\ \A x : Cardinality({x}) = 1
      BY FS_EmptySet, FS_Singleton
    <2>9. /\ Cardinality(A) = 0 \/ Cardinality(A) = 1
          /\ Cardinality(B) = 0 \/ Cardinality(B) = 1
          /\ Cardinality(D) = 0 \/ Cardinality(D) = 1
      BY <2>2, <2>3, <2>7, <2>8
    <2>10. /\ A = {} => Cardinality(A) = 0
           /\ B = {} => Cardinality(B) = 0
           /\ D = {} => Cardinality(D) = 0
      BY <2>8
    <2>11. Cardinality(A) + Cardinality(B) + Cardinality(D) <= 1
      BY <2>4, <2>5, <2>6, <2>9, <2>10
    <2> QED
      BY <2>11 DEF A, B, D
  <1> QED
    BY <1>2, <1>3, <1>4 DEF FramesHaveOneHolder, Heads

\* A frame that runs is the innermost one of an object that is iterated.
LEMMA Runner ==
  ASSUME Tidy, NEW f \in Frames, Running(f), NEW h, h = p[f].root
  PROVE  /\ h \in Heads /\ h # None /\ Active(p, h)
         /\ \E o \in Busy : top[o] = h
         /\ \A o \in Busy : top[o] = h =>
              /\ o \in Objects /\ o \in alive /\ Stack[o] = Chain(p, h) /\ Last(Stack[o]) = f
              /\ f # h <=> Len(Stack[o]) > 1
  <1>1. Forest(p, Heads) /\ p[f].st = "running"
    BY DEF Tidy, Running
  <1> DEFINE s == Chain(p, h)
  <1>2. h \in Heads /\ Active(p, h) /\ f = s[Len(s)] /\ Work(p, s) = s
    BY <1>1, HeadOf
  <1>3. (f = h => Len(s) = 1) /\ (f # h => Len(s) > 1)
    BY <1>1, HeadOf
  <1>4. StackIn(p, h) = s
    BY <1>1, <1>2, StackInForest
  <1>5. h # None
    BY <1>2 DEF Heads
  <1>6. \E o \in Busy : top[o] = h
    BY <1>2 DEF Tidy, Workers
  <1>7. \A o \in Busy : top[o] = h => o \in Objects /\ o \in alive /\ Stack[o] = s
    BY <1>4, StackIs DEF Tidy, Workers, Holders
  <1>8. Last(s) = f
    BY <1>2 DEF Last
  <1>9. f # h <=> Len(s) > 1
    <2>1. \A n : n = 1 => ~(n > 1)
      OBVIOUS
    <2> QED
      BY <1>3, <2>1
  <1> HIDE DEF s
  <1> QED
    BY <1>2, <1>5, <1>6, <1>7, <1>8, <1>9, Zenon DEF s

\* The objects keep their frames, and nothing is cleared or released.
SameHolders == UNCHANGED <<alive, top, clearing, released>>

\* begin(), next() and ++: the worker of o goes on.
LEMMA AdvanceStep ==
  ASSUME Tidy, NEW o \in alive, o \notin Busy, ~Empty(o), clearing = None,
         NEW q, Relinked(p, q, Heads), q[top[o]].worker = p[top[o]].worker,
         p' = Resume(q, p[top[o]].worker), SameHolders, current' = current, Busy' = Busy \cup {o}
  PROVE  Tidy' /\ Abstract!Next /\ \A g \in Heads : p'[g].link = q[g].link
  <1> DEFINE h == top[o]
  <1>1. o \in Objects /\ h # None /\ p[h].st # "done" /\ h \in Heads
    BY HeadFacts DEF Tidy, Holders, Empty
  <1>2. ~Active(p, h)
    <2> SUFFICES ASSUME Active(p, h) PROVE FALSE
      OBVIOUS
    <2>1. PICK a \in Busy : top[a] = h
      BY <1>1 DEF Tidy, Workers
    <2> QED
      BY <1>1, <2>1 DEF Tidy, Holders, Workers
  <1> HIDE DEF h
  <1>3. /\ Forest(p, Heads) /\ Forest(q, Heads) /\ Chain(q, h) = Chain(p, h) /\ Work(q, Chain(p, h)) = Work(p, Chain(p, h))
        /\ ~Active(q, h) /\ q[h].st # "done" /\ \A g \in Heads : Kept(p, q, g)
    BY <1>1, <1>2 DEF Relinked, Kept, Tidy
  <1>4. p' = Resume(q, q[h].worker)
    BY DEF h
  <1>5. /\ Forest(p', Heads) /\ Active(p', h)
        /\ Chain(p', h) = Work(q, Chain(q, h)) /\ Work(p', Chain(p', h)) = Chain(p', h)
        /\ \A g \in Heads \ {h} : Kept(q, p', g)
        /\ \A g \in Heads : p'[g].link = q[g].link
    BY <1>1, <1>3, <1>4, ResumeForest
  <1>6. \A g \in Heads \ {h} : Kept(p, p', g)
    BY <1>3, <1>5 DEF Kept
  <1>7. Tidy' /\ Stack' = [Stack EXCEPT ![o] = StackIn(p', h)] /\ Loose' = Loose
    <2>1. current' \in [Objects -> Frames \cup {None}]
      BY DEF Tidy, Holders
    <2>2. alive' = alive /\ top' = top /\ clearing' = clearing /\ released' = released /\ h = top[o]
      BY DEF SameHolders, h
    <2> QED
      BY <1>1, <1>5, <1>6, <2>1, <2>2, StepAt
  <1>8. StackIn(p', h) = StackIn(p, h)
    BY <1>1, <1>3, <1>5, StackInForest
  <1>9. Stack[o] = StackIn(p, h) /\ Stack[o] # <<>>
    BY <1>1, <1>3, StackInForest, StackIs DEF h
  <1>10. Stack' = Stack
    BY <1>1, <1>7, <1>8, <1>9, StackIs
  <1>11. Value' = Value
    BY DEF Value, SameHolders
  <1>12. Abstract!Next
    BY <1>1, <1>7, <1>9, <1>10, <1>11, AbsAdvance
  <1> QED
    BY <1>5, <1>7, <1>12

\* The running frame stops working for o, which shows v then.
Reports(f, o, v) ==
  /\ f \in Frames /\ Running(f) /\ o \in Busy /\ top[o] = p[f].root
  /\ SameHolders /\ current' = [current EXCEPT ![o] = v] /\ v \in Frames \cup {None}
  /\ Busy' = Busy \ {o}

\* What is the same in co_yield and at every end of an iteration.
LEMMA ReportStep ==
  ASSUME Tidy, NEW f, NEW o, NEW v, Reports(f, o, v), NEW h, h = p[f].root,
         Forest(p', Heads), ~Active(p', h), \A g \in Heads \ {h} : Kept(p, p', g)
  PROVE  /\ Tidy' /\ Stack' = [Stack EXCEPT ![o] = StackIn(p', h)] /\ Loose' = Loose
         /\ Value' = [Value EXCEPT ![o] = v]
  <1>1. o \in Objects /\ o \in alive /\ h # None /\ h = top[o]
    BY Runner DEF Reports
  <1>2. current' \in [Objects -> Frames \cup {None}]
    BY DEF Reports, Tidy, Holders
  <1>3. alive' = alive /\ top' = top /\ clearing' = clearing /\ released' = released /\ Busy' = Busy \ {o}
    BY DEF SameHolders, Reports
  <1>4. Tidy' /\ Stack' = [Stack EXCEPT ![o] = StackIn(p', h)] /\ Loose' = Loose
    BY <1>1, <1>2, <1>3, StepAt
  <1>5. Value' = [Value EXCEPT ![o] = v]
    <2>1. current'[o] = v /\ \A a \in Objects \ {o} : current'[a] = current[a]
      BY <1>1 DEF Reports, Tidy, Holders
    <2> QED
      BY <1>1, <1>3, <2>1 DEF Value
  <1> QED
    BY <1>4, <1>5

\* co_yield value
LEMMA YieldStep ==
  ASSUME Tidy, NEW f, NEW o, Reports(f, o, f), p' = [p EXCEPT ![f].st = "suspended"]
  PROVE  Tidy' /\ Abstract!Next /\ \A x \in Frames : p'[x].link = p[x].link
  <1> DEFINE h == p[f].root
  <1>1. f \in Frames /\ p[f].st = "running" /\ Forest(p, Heads) /\ Running(f) /\ o \in Busy /\ top[o] = h
        /\ Busy' = Busy \ {o}
    BY DEF Reports, Running, Tidy
  <1>2. /\ h \in Heads /\ o \in Objects /\ Stack[o] = Chain(p, h) /\ Last(Stack[o]) = f
    BY <1>1, Runner
  <1>3. /\ Forest(p', Heads) /\ ~Active(p', h) /\ Chain(p', h) = Chain(p, h)
        /\ Work(p', Chain(p, h)) = Chain(p, h)
        /\ \A g \in Heads \ {h} : Kept(p, p', g)
        /\ \A x \in Frames : p'[x].link = p[x].link
    <2>1. Stopped(p, p', f, h, "suspended")
      BY <1>1 DEF Stopped
    <2>2. Work(p', Chain(p, h)) = IF "suspended" = "done" THEN <<>> ELSE Chain(p, h)
      BY <1>1, <2>1, StopForest
    <2>3. Forest(p', Heads) /\ ~Active(p', h) /\ Chain(p', h) = Chain(p, h)
      BY <1>1, <2>1, StopForest
    <2>4. \A g \in Heads \ {h} : Kept(p, p', g)
      BY <1>1, <2>1, StopForest
    <2>5. \A x \in Frames : p'[x].link = p[x].link
      BY <1>1, <2>1, StopForest
    <2> QED
      BY <2>2, <2>3, <2>4, <2>5
  <1> HIDE DEF h
  <1>4. StackIn(p', h) = Stack[o]
    BY <1>2, <1>3, StackInForest
  <1>5. /\ Tidy' /\ Stack' = [Stack EXCEPT ![o] = StackIn(p', h)] /\ Loose' = Loose
        /\ Value' = [Value EXCEPT ![o] = f]
    <2>1. h = p[f].root /\ Tidy /\ Reports(f, o, f)
      BY DEF h
    <2> QED
      BY ONLY <1>3, <2>1, ReportStep
  <1>6. Stack' = Stack
    BY <1>4, <1>5, StackIs
  <1>7. Abstract!Next
    BY <1>1, <1>2, <1>5, <1>6, AbsProduce
  <1> QED
    BY <1>3, <1>5, <1>7

\* The root ends, by co_return or an exception.
LEMMA EndStep ==
  ASSUME Tidy, NEW f, NEW o, Reports(f, o, None), p[f].root = f, p' = [p EXCEPT ![f].st = "done"]
  PROVE  Tidy' /\ Abstract!Next /\ \A x \in Frames : p'[x].link = p[x].link
  <1>1. f \in Frames /\ p[f].st = "running" /\ Forest(p, Heads) /\ Running(f) /\ o \in Busy /\ top[o] = f
        /\ Busy' = Busy \ {o}
    BY DEF Reports, Running, Tidy
  <1>2. /\ f \in Heads /\ o \in Objects /\ Stack[o] = Chain(p, f)
    BY <1>1, Runner
  <1>3. /\ Forest(p', Heads) /\ ~Active(p', f) /\ Chain(p', f) = Chain(p, f)
        /\ Work(p', Chain(p, f)) = <<>>
        /\ \A g \in Heads \ {f} : Kept(p, p', g)
        /\ \A x \in Frames : p'[x].link = p[x].link
    <2>1. Stopped(p, p', f, f, "done")
      BY <1>1 DEF Stopped
    <2>2. Work(p', Chain(p, f)) = IF "done" = "done" THEN <<>> ELSE Chain(p, f)
      BY <1>1, <2>1, StopForest
    <2>3. Forest(p', Heads) /\ ~Active(p', f) /\ Chain(p', f) = Chain(p, f)
      BY <1>1, <2>1, StopForest
    <2>4. \A g \in Heads \ {f} : Kept(p, p', g)
      BY <1>1, <2>1, StopForest
    <2>5. \A x \in Frames : p'[x].link = p[x].link
      BY <1>1, <2>1, StopForest
    <2> QED
      BY <2>2, <2>3, <2>4, <2>5
  <1>4. StackIn(p', f) = <<>>
    BY <1>2, <1>3, StackInForest
  <1>5. Front(Stack[o]) = <<>>
    <2>1. Len(Chain(p, f)) = 1 /\ Chain(p, f) \in Seq(Frames)
      BY <1>1, <1>2, HeadOf, ForestFacts
    <2>2. Chain(p, f) # <<>>
      BY <2>1
    <2>3. Len(Front(Chain(p, f))) = 0 /\ Front(Chain(p, f)) \in Seq(Frames)
      BY <2>1, <2>2, FrontFacts
    <2> QED
      BY <1>2, <2>3
  <1>6. /\ Tidy' /\ Stack' = [Stack EXCEPT ![o] = StackIn(p', f)] /\ Loose' = Loose
        /\ Value' = [Value EXCEPT ![o] = None]
    <2>1. f = p[f].root /\ Tidy /\ Reports(f, o, None)
      OBVIOUS
    <2> QED
      BY ONLY <1>3, <2>1, ReportStep
  <1>7. Abstract!Next
    BY <1>1, <1>2, <1>4, <1>5, <1>6, AbsFail
  <1> QED
    BY <1>3, <1>6, <1>7

\* A leaf ends with an exception: it is skipped.
LEMMA SkipStep ==
  ASSUME Tidy, NEW f, NEW o, Reports(f, o, None), p[f].root # f, Skipped(p, p', f)
  PROVE  Tidy' /\ Abstract!Next /\ \A g \in Heads : p'[g].link = p[g].link
  <1> DEFINE h == p[f].root
  <1>1. f \in Frames /\ p[f].st = "running" /\ Forest(p, Heads) /\ Running(f) /\ o \in Busy /\ top[o] = h
        /\ Busy' = Busy \ {o}
    BY DEF Reports, Running, Tidy
  <1>2. /\ h \in Heads /\ o \in Objects /\ Stack[o] = Chain(p, h)
    BY <1>1, Runner
  <1>3. /\ Forest(p', Heads) /\ ~Active(p', h) /\ Chain(p', h) = Chain(p, h)
        /\ Work(p', Chain(p, h)) = Front(Chain(p, h))
        /\ \A g \in Heads \ {h} : Kept(p, p', g)
        /\ \A g \in Heads : p'[g].link = p[g].link
    BY <1>1, SkipForest
  <1> HIDE DEF h
  <1>4. StackIn(p', h) = Front(Stack[o])
    BY <1>2, <1>3, StackInForest
  <1>5. /\ Tidy' /\ Stack' = [Stack EXCEPT ![o] = StackIn(p', h)] /\ Loose' = Loose
        /\ Value' = [Value EXCEPT ![o] = None]
    BY <1>3, ReportStep DEF h
  <1>6. Abstract!Next
    BY <1>1, <1>2, <1>4, <1>5, AbsFail
  <1> QED
    BY <1>3, <1>5, <1>6

\* A leaf returns: its owner goes on.
LEMMA ReturnStep ==
  ASSUME Tidy, NEW f \in Frames, Running(f), p[f].root # f, SameHolders, current' = current, Busy' = Busy,
         p' = Resume(SkipThisLeaf(p, f), p[f].link)
  PROVE  Tidy' /\ Abstract!Next /\ \A g \in Heads : p'[g].link = p[g].link
  <1> DEFINE h == p[f].root
  <1>1. p[f].st = "running" /\ Forest(p, Heads)
    BY DEF Running, Tidy
  <1>2. PICK o \in Busy : top[o] = h
    BY Runner
  <1>3. /\ h \in Heads /\ h # None /\ o \in Objects /\ o \in alive /\ Stack[o] = Chain(p, h) /\ Len(Stack[o]) > 1
    BY <1>2, Runner
  <1>4. /\ Forest(p', Heads) /\ Active(p', h)
        /\ Chain(p', h) = Front(Chain(p, h)) /\ Work(p', Chain(p', h)) = Chain(p', h)
        /\ \A g \in Heads \ {h} : Kept(p, p', g)
        /\ \A g \in Heads : p'[g].link = p[g].link
    BY <1>1, ReturnForest
  <1> HIDE DEF h
  <1>5. StackIn(p', h) = Front(Stack[o])
    BY <1>3, <1>4, StackInForest
  <1>6. Tidy' /\ Stack' = [Stack EXCEPT ![o] = StackIn(p', h)] /\ Loose' = Loose
    <2>1. current' \in [Objects -> Frames \cup {None}]
      BY DEF Tidy, Holders
    <2>2. alive' = alive /\ top' = top /\ clearing' = clearing /\ released' = released /\ h = top[o]
      BY <1>2 DEF SameHolders
    <2> QED
      BY <1>2, <1>3, <1>4, <2>1, <2>2, StepAt
  <1>7. Value' = Value
    BY DEF Value, SameHolders
  <1>8. Abstract!Next
    BY <1>2, <1>3, <1>5, <1>6, <1>7, AbsFinish
  <1> QED
    BY <1>4, <1>6, <1>8
-----------------------------------------------------------------------------
(***************************************************************************)
(* What generator and channel keep besides.                                *)
(***************************************************************************)
\* The promise of the top frame knows the generator; so does that of a handle
\* which reset() is about to install.  Nobody clears during an iteration.
GeneratorInv ==
  /\ \A c \in Consumers : awaits[c] = None
  /\ clearing # None => iter = None
  /\ \A o \in alive : top[o] # None => p[top[o]].link = o
  /\ clearing # None => (clearing.then = "reset" => p[clearing.handle].link = clearing.obj)

\* What holds as long as consumer c has a valid iterator of channel o: the promise
\* of the top frame knows o, o knows c, and nobody clears o.
ValidIterator(c, o) ==
  /\ o \in alive /\ handle[o] = c /\ top[o] # None /\ p[top[o]].link = o
  /\ clearing # None => clearing.obj # o

ChannelInv ==
  /\ iter = None
  /\ handle \in [Objects -> Consumers \cup {None}]
  /\ awaits \in [Consumers -> Objects \cup {None}] /\ it \in [Consumers -> Objects \cup {None}]
  /\ \A c \in Consumers : awaits[c] = None \/ awaits[c] = it[c]
  /\ \A c \in Consumers : it[c] # None => ValidIterator(c, it[c])

Inv == /\ Tidy
       /\ which # "channel" => GeneratorInv
       /\ which = "channel" => ChannelInv
-----------------------------------------------------------------------------
\* prepare_to_start() changes the link of a head, or nothing.
Preparable(q, H, t, g) == Forest(q, H) /\ g \in Objects /\ t[g] \in H \cup {None}

\* prepare_to_start() tells the top frame who iterates it.
LEMMA PrepareForest ==
  ASSUME NEW q, NEW H, NEW t, NEW g, Preparable(q, H, t, g), NEW r, r = PrepareToStart(q, t, g)
  PROVE  /\ Relinked(q, r, H) /\ \A x \in Frames : x # t[g] => r[x] = q[x]
         /\ t[g] # None => r[t[g]].link = g
  <1>1. Forest(q, H) /\ g \in LinkTypes /\ (t[g] # None => t[g] \in H)
    BY DEF Preparable, LinkTypes
  <1>2. CASE t[g] = None
    <2>1. r = q
      BY <1>2 DEF PrepareToStart
    <2> QED
      BY <1>1, <1>2, <2>1, KeptSame
  <1>3. CASE t[g] # None
    <2>1. r = [q EXCEPT ![t[g]].link = g]
      BY <1>3 DEF PrepareToStart
    <2>2. PICK h \in H : h = t[g]
      BY <1>1, <1>3
    <2>3. r = [q EXCEPT ![h].link = g]
      BY <2>1, <2>2
    <2>4. Forest(r, H) /\ (\A e \in H : Kept(q, r, e)) /\ r[h].link = g
      <3>1. Told(q, r, h, g)
        BY <1>1, <2>3 DEF Told
      <3> QED
        BY <1>1, <3>1, LinkForest
    <2>5. \A x \in Frames \ {h} : r[x] = q[x]
      BY <1>1, <2>3 DEF Forest
    <2> QED
      BY <2>2, <2>4, <2>5 DEF Relinked
  <1> QED
    BY <1>2, <1>3

\* Two changes of links.
LEMMA RelinkedTwice ==
  ASSUME NEW q, NEW r, NEW u, NEW H, Relinked(q, r, H), Relinked(r, u, H)
  PROVE  Relinked(q, u, H)
  BY DEF Relinked, Kept

\* prepare_to_start() for both sides of a swap.
LEMMA PrepareBothForest ==
  ASSUME NEW q, NEW H, NEW t, NEW a, NEW b, Preparable(q, H, t, a), Preparable(q, H, t, b),
         t[a] = t[b] /\ t[a] # None => a = b, NEW r, r = PrepareBoth(q, t, a, b)
  PROVE  /\ Relinked(q, r, H) /\ \A x \in Frames : x # t[a] /\ x # t[b] => r[x] = q[x]
         /\ t[a] # None => r[t[a]].link = a
         /\ t[b] # None => r[t[b]].link = b
  <1> DEFINE u == PrepareToStart(q, t, a)
  <1>1. /\ Relinked(q, u, H) /\ \A x \in Frames : x # t[a] => u[x] = q[x]
        /\ t[a] # None => u[t[a]].link = a
    BY PrepareForest
  <1>2. r = PrepareToStart(u, t, b)
    BY DEF PrepareBoth
  <1> HIDE DEF u
  <1>3. Preparable(u, H, t, b)
    BY <1>1 DEF Preparable, Relinked
  <1>4. /\ Relinked(u, r, H) /\ \A x \in Frames : x # t[b] => r[x] = u[x]
        /\ t[b] # None => r[t[b]].link = b
    BY <1>2, <1>3, PrepareForest
  <1>5. t[a] # None => t[a] \in Frames
    BY DEF Preparable, Forest
  <1>6. t[a] # None => r[t[a]].link = a
    BY <1>1, <1>4, <1>5
  <1> QED
    BY <1>1, <1>4, <1>6, RelinkedTwice

\* In a generator's behaviour only iter tells who is iterated.
LEMMA GeneratorBusy ==
  ASSUME GeneratorInv, awaits' = awaits
  PROVE  Busy = {iter} \ {None} /\ Busy' = {iter'} \ {None}
  BY DEF GeneratorInv, Busy

\* The generator that is iterated is the one its frames report to.
LEMMA GeneratorReports ==
  ASSUME Tidy, GeneratorInv, awaits' = awaits, NEW f \in Frames, Running(f)
  PROVE  /\ iter \in Busy /\ iter \in alive /\ iter \in Objects /\ iter # None /\ top[iter] = p[f].root
         /\ p[p[f].root].link = iter /\ clearing = None
  <1>1. PICK o \in Busy : top[o] = p[f].root
    BY Runner
  <1>2. o \in alive /\ o \in Objects /\ top[o] # None
    BY <1>1, Runner
  <1>3. o = iter /\ iter # None
    BY GeneratorBusy
  <1> QED
    BY <1>1, <1>2, <1>3 DEF GeneratorInv

\* What a step has to show beyond Tidy'.
LEMMA GeneratorInvKept ==
  ASSUME Tidy, GeneratorInv, awaits' = awaits, SameHolders, clearing = None,
         \A g \in Heads : p'[g].link = p[g].link
  PROVE  GeneratorInv'
  <1>1. \A o \in alive : top[o] # None => top[o] \in Heads
    BY HeadFacts DEF Tidy, Holders
  <1> QED
    BY <1>1 DEF GeneratorInv, SameHolders
-----------------------------------------------------------------------------
\* ++iterator, begin()
LEMMA GeneratorIterates ==
  ASSUME Tidy, GeneratorInv, awaits' = awaits, NEW g \in Objects, Increment(g)
  PROVE  Tidy' /\ GeneratorInv' /\ AbstractStep
  <1>1. /\ iter = None /\ clearing = None /\ g \in alive /\ ~Empty(g) /\ iter' = g
        /\ p' = Resume(p, p[top[g]].worker) /\ SameHolders /\ current' = current
    BY DEF Increment, Idle, SameHolders
  <1>2. g # None
    BY LeafChainAssumption
  <1>3. g \notin Busy /\ Busy' = Busy \cup {g}
    BY <1>1, <1>2, GeneratorBusy
  <1>4. Relinked(p, p, Heads)
    BY KeptSame DEF Tidy
  <1>5. Tidy' /\ Abstract!Next /\ \A h \in Heads : p'[h].link = p[h].link
    BY <1>1, <1>3, <1>4, AdvanceStep
  <1>6. GeneratorInv'
    BY <1>1, <1>5, GeneratorInvKept
  <1> QED
    BY <1>5, <1>6 DEF AbstractStep

\* co_yield value
LEMMA GeneratorYields ==
  ASSUME Tidy, GeneratorInv, awaits' = awaits, NEW f \in Frames, Yield(f)
  PROVE  Tidy' /\ GeneratorInv' /\ AbstractStep
  <1>1. /\ Running(f) /\ current' = [current EXCEPT ![p[p[f].root].link] = f] /\ iter' = None
        /\ p' = [p EXCEPT ![f].st = "suspended"] /\ SameHolders
    BY DEF Yield, SetResult, SameHolders
  <1>2. /\ iter \in Busy /\ top[iter] = p[f].root /\ p[p[f].root].link = iter /\ clearing = None
    BY <1>1, GeneratorReports
  <1>3. Busy' = Busy \ {iter}
    BY <1>1, GeneratorBusy
  <1>4. Reports(f, iter, f)
    BY <1>1, <1>2, <1>3 DEF Reports
  <1>5. Tidy' /\ Abstract!Next /\ \A x \in Frames : p'[x].link = p[x].link
    BY <1>1, <1>4, YieldStep
  <1>6. Heads \subseteq Frames
    BY HeadFacts
  <1>7. GeneratorInv'
    BY <1>1, <1>2, <1>5, <1>6, GeneratorInvKept
  <1> QED
    BY <1>5, <1>7 DEF AbstractStep

\* co_return
LEMMA GeneratorReturns ==
  ASSUME Tidy, GeneratorInv, awaits' = awaits, NEW f \in Frames, Return(f)
  PROVE  Tidy' /\ GeneratorInv' /\ AbstractStep
  <1>1. Running(f) /\ SameHolders
    BY DEF Return, SameHolders
  <1>2. /\ iter \in Busy /\ top[iter] = p[f].root /\ p[p[f].root].link = iter /\ clearing = None
    BY <1>1, GeneratorReports
  <1>3. Heads \subseteq Frames
    BY HeadFacts
  <1>4. CASE p[f].root # f
    <2>1. p' = Resume(SkipThisLeaf(p, f), p[f].link) /\ current' = current /\ iter' = iter
      BY <1>4 DEF Return
    <2>2. Busy' = Busy
      BY <2>1, GeneratorBusy
    <2>3. Tidy' /\ Abstract!Next /\ \A g \in Heads : p'[g].link = p[g].link
      BY <1>1, <1>4, <2>1, <2>2, ReturnStep
    <2>4. GeneratorInv'
      BY <1>1, <1>2, <2>3, GeneratorInvKept
    <2> QED
      BY <2>3, <2>4 DEF AbstractStep
  <1>5. CASE p[f].root = f
    <2>1. p' = [p EXCEPT ![f].st = "done"] /\ current' = [current EXCEPT ![iter] = None] /\ iter' = None
      BY <1>2, <1>5 DEF Return, SetResult
    <2>2. Busy' = Busy \ {iter}
      BY <2>1, GeneratorBusy
    <2>3. Reports(f, iter, None)
      BY <1>1, <1>2, <2>1, <2>2 DEF Reports
    <2>4. Tidy' /\ Abstract!Next /\ \A x \in Frames : p'[x].link = p[x].link
      BY <1>5, <2>1, <2>3, EndStep
    <2>5. GeneratorInv'
      BY <1>1, <1>2, <1>3, <2>4, GeneratorInvKept
    <2> QED
      BY <2>4, <2>5 DEF AbstractStep
  <1> QED
    BY <1>4, <1>5

\* skip_this_leaf() and the end of the leaf, whatever happens to its root and link.
LEMMA SkippedFrom ==
  ASSUME NEW q, NEW H, Forest(q, H), NEW f \in Frames, q[f].st = "running", q[f].root # f,
         NEW a, a = SkipThisLeaf(q, f), NEW r \in [Frames -> Promise],
         \A x \in Frames \ {f} : r[x] = a[x], r[f].st = "done", r[f].leaf = a[f].leaf
  PROVE  Skipped(q, r, f)
  <1> DEFINE h == q[f].root
             y == q[f].link
  <1>1. /\ h \in Frames /\ y \in Frames /\ y # f
        /\ \A x \in Frames : a[x].st = q[x].st /\ a[x].leaf = q[x].leaf /\ a[x].link = q[x].link
        /\ \A x \in Frames \ {y, h} : a[x] = q[x]
        /\ a[y].root = h /\ a[h].worker = y
    BY SkipEffects
  <1> HIDE DEF h, y
  <1>2. h # f
    BY DEF h
  <1>3. r[y] = a[y] /\ r[h] = a[h]
    BY <1>1, <1>2
  <1>4. /\ \A x \in Frames \ {f} : r[x].st = q[x].st /\ r[x].leaf = q[x].leaf /\ r[x].link = q[x].link
        /\ \A x \in Frames \ {f, y, h} : r[x] = q[x]
        /\ r[f].leaf = q[f].leaf
    BY <1>1
  <1>5. r[y].root = h /\ r[h].worker = y
    BY <1>1, <1>3
  <1> QED
    BY <1>4, <1>5 DEF Skipped, h, y

\* unhandled_exception()
LEMMA GeneratorThrows ==
  ASSUME Tidy, GeneratorInv, awaits' = awaits, NEW f \in Frames, Throw(f)
  PROVE  Tidy' /\ GeneratorInv' /\ AbstractStep
  <1>1. Running(f) /\ SameHolders /\ iter' = None
    BY DEF Throw, SameHolders
  <1>2. /\ iter \in Busy /\ top[iter] = p[f].root /\ p[p[f].root].link = iter /\ clearing = None
    BY <1>1, GeneratorReports
  <1>3. current' = [current EXCEPT ![iter] = None]
    BY <1>2 DEF Throw, SetResult
  <1>4. Reports(f, iter, None)
    <2>1. Busy' = Busy \ {iter}
      BY <1>1, GeneratorBusy
    <2> QED
      BY <1>1, <1>2, <1>3, <2>1 DEF Reports
  <1>5. Heads \subseteq Frames /\ Forest(p, Heads) /\ p[f].st = "running"
    BY <1>1, HeadFacts DEF Tidy, Running
  <1>6. CASE p[f].root # f
    <2> DEFINE a == SkipThisLeaf(p, f)
    <2>1. p' = [a EXCEPT ![f].st = "done"]
      BY <1>6 DEF Throw
    <2>2. a \in [Frames -> Promise]
      BY <1>5, <1>6, SkipEffects
    <2> HIDE DEF a
    <2>3. /\ p' \in [Frames -> Promise] /\ p'[f].st = "done" /\ p'[f].leaf = a[f].leaf
          /\ \A x \in Frames \ {f} : p'[x] = a[x]
      <3>1. f \in Frames
        OBVIOUS
      <3> QED
        BY ONLY <2>1, <2>2, <3>1 DEF Promise
    <2>4. Skipped(p, p', f)
      BY <1>5, <1>6, <2>3, SkippedFrom DEF a
    <2>5. Tidy' /\ Abstract!Next /\ \A g \in Heads : p'[g].link = p[g].link
      BY <1>4, <1>6, <2>4, SkipStep
    <2>6. GeneratorInv'
      BY <1>1, <1>2, <2>5, GeneratorInvKept
    <2> QED
      BY <2>5, <2>6 DEF AbstractStep
  <1>7. CASE p[f].root = f
    <2>1. p' = [p EXCEPT ![f].st = "done"]
      BY <1>7 DEF Throw
    <2>2. Tidy' /\ Abstract!Next /\ \A x \in Frames : p'[x].link = p[x].link
      BY <1>4, <1>7, <2>1, EndStep
    <2>3. GeneratorInv'
      BY <1>1, <1>2, <1>5, <2>2, GeneratorInvKept
    <2> QED
      BY <2>2, <2>3 DEF AbstractStep
  <1> QED
    BY <1>6, <1>7
-----------------------------------------------------------------------------
\* The call of the coroutine.
LEMMA GeneratorCreates ==
  ASSUME Tidy, GeneratorInv, awaits' = awaits, NEW g \in Objects, NEW f \in Frames, Create(g, f)
  PROVE  Tidy' /\ GeneratorInv' /\ AbstractStep
  <1>1. /\ iter = None /\ clearing = None /\ g \notin alive /\ Free(f)
        /\ alive' = alive \cup {g} /\ top' = [top EXCEPT ![g] = f] /\ current' = [current EXCEPT ![g] = None]
        /\ p' = PrepareToStart(Call(p, f, None), top', g)
        /\ clearing' = clearing /\ released' = released /\ iter' = iter
    BY DEF Create, Idle
  <1>2. top'[g] = f /\ f # None /\ \A x \in Objects \ {g} : top'[x] = top[x]
    BY <1>1, LeafChainAssumption DEF Tidy, Holders
  <1>3. p' = Call(p, f, g)
    <2>1. p' = [Call(p, f, None) EXCEPT ![f].link = g]
      BY <1>1, <1>2 DEF PrepareToStart
    <2>2. p \in [Frames -> Promise]
      BY DEF Tidy, Forest
    <2> DEFINE u == [NoFrame(f) EXCEPT !.st = "suspended", !.link = None]
               v == [NoFrame(f) EXCEPT !.st = "suspended", !.link = g]
    <2>3. v = [u EXCEPT !.link = g]
      BY DEF NoFrame
    <2>4. Call(p, f, None) = [p EXCEPT ![f] = u] /\ Call(p, f, g) = [p EXCEPT ![f] = v]
      BY DEF Call
    <2> HIDE DEF u, v
    <2> QED
      BY <2>1, <2>2, <2>3, <2>4
  <1>4. g \in LinkTypes
    BY DEF LinkTypes
  <1>5. Busy' = Busy
    BY <1>1, GeneratorBusy
  <1>6. /\ Tidy' /\ Abstract!Next /\ p'[f].link = g /\ \A h \in Heads : p'[h].link = p[h].link
    BY <1>1, <1>3, <1>4, <1>5, CreateStep
  <1>7. ASSUME NEW o \in alive', top'[o] # None PROVE p'[top'[o]].link = o
    <2>1. CASE o = g
      BY <1>2, <1>6, <2>1
    <2>2. CASE o # g
      <3>1. o \in alive /\ o \in Objects /\ top'[o] = top[o]
        BY <1>1, <1>2, <2>2 DEF Tidy, Holders
      <3>2. top[o] \in Heads
        BY <1>7, <3>1, HeadFacts
      <3> QED
        BY <1>6, <1>7, <3>1, <3>2 DEF GeneratorInv
    <2> QED
      BY <2>1, <2>2
  <1>8. GeneratorInv'
    BY <1>1, <1>7 DEF GeneratorInv
  <1> QED
    BY <1>6, <1>8 DEF AbstractStep

\* co_yield elements_of(generator)
LEMMA GeneratorNests ==
  ASSUME Tidy, GeneratorInv, awaits' = awaits, NEW f \in Frames, NEW h \in Objects, YieldElementsOf(f, h)
  PROVE  Tidy' /\ GeneratorInv' /\ AbstractStep
  <1>1. h # iter /\ YieldElements(f, h) /\ iter' = iter
    BY DEF YieldElementsOf
  <1>2. clearing = None /\ alive' = alive /\ clearing' = clearing
    BY <1>1 DEF YieldElements
  <1>3. h \notin Busy /\ Busy' = Busy
    BY <1>1, GeneratorBusy
  <1>4. /\ Tidy' /\ Abstract!Next /\ \A g \in Heads' : g \in Heads /\ p'[g].link = p[g].link
        /\ \A a \in Objects \ {h} : top'[a] = top[a]
        /\ top'[h] = None
    BY <1>1, <1>3, YieldElementsStep
  <1>5. ASSUME NEW o \in alive, top'[o] # None PROVE p'[top'[o]].link = o
    <2>1. o \in Objects
      BY DEF Tidy, Holders
    <2>2. top'[o] = top[o]
      BY <1>4, <1>5, <2>1
    <2>3. top'[o] \in Heads'
      BY <1>2, <1>5 DEF Heads
    <2> QED
      BY <1>4, <1>5, <2>2, <2>3 DEF GeneratorInv
  <1>6. GeneratorInv'
    BY <1>2, <1>5 DEF GeneratorInv
  <1> QED
    BY <1>4, <1>6 DEF AbstractStep

\* swap()
LEMMA GeneratorSwaps ==
  ASSUME Tidy, GeneratorInv, awaits' = awaits, NEW a \in Objects, NEW b \in Objects, Swap(a, b)
  PROVE  Tidy' /\ GeneratorInv' /\ AbstractStep
  <1>1. /\ iter = None /\ clearing = None /\ a \in alive /\ b \in alive
        /\ top' = Exchanged(top, a, b) /\ current' = Exchanged(current, a, b)
        /\ p' = PrepareBoth(p, top', a, b)
        /\ alive' = alive /\ clearing' = clearing /\ released' = released /\ iter' = iter
    BY DEF Swap, Idle
  <1>2. Busy = {} /\ Busy' = Busy
    BY <1>1, GeneratorBusy
  <1>3. top'[a] = top[b] /\ top'[b] = top[a]
    BY <1>1 DEF Exchanged, Tidy, Holders
  <1>4. Preparable(p, Heads, top', a) /\ Preparable(p, Heads, top', b)
    BY <1>3, HeadFacts DEF Preparable, Tidy
  <1>5. top'[a] = top'[b] /\ top'[a] # None => a = b
    BY <1>3 DEF Tidy, Holders
  <1>6. /\ Relinked(p, p', Heads) /\ \A x \in Frames : x # top'[a] /\ x # top'[b] => p'[x] = p[x]
        /\ top'[a] # None => p'[top'[a]].link = a
        /\ top'[b] # None => p'[top'[b]].link = b
    BY <1>1, <1>4, <1>5, PrepareBothForest
  <1>7. /\ Tidy' /\ Abstract!Next /\ \A x \in Objects \ {a, b} : top'[x] = top[x]
    BY <1>1, <1>2, <1>6, SwapStep
  <1>8. ASSUME NEW o \in alive, top'[o] # None PROVE p'[top'[o]].link = o
    <2>1. CASE o \in {a, b}
      BY <1>6, <1>8, <2>1
    <2>2. CASE o \notin {a, b}
      <3>1. o \in Objects /\ top'[o] = top[o] /\ top[o] \in Frames
        BY <1>7, <1>8, <2>2 DEF Tidy, Holders
      <3>2. top[o] # top[a] /\ top[o] # top[b]
        BY <1>8, <2>2, <3>1 DEF Tidy, Holders
      <3> QED
        BY <1>3, <1>6, <1>8, <3>1, <3>2 DEF GeneratorInv
    <2> QED
      BY <2>1, <2>2
  <1>9. GeneratorInv'
    BY <1>1, <1>8 DEF GeneratorInv
  <1> QED
    BY <1>7, <1>9 DEF AbstractStep

\* clear(), reset() and the destructor begin.
LEMMA GeneratorClears ==
  ASSUME Tidy, GeneratorInv, awaits' = awaits, NEW g \in Objects, NEW then, NEW k, Clear(g, then, k)
  PROVE  Tidy' /\ GeneratorInv' /\ AbstractStep
  <1>1. /\ iter = None /\ (then = "reset" => p[k].link = g) /\ ClearBegins(g, then, k) /\ iter' = iter
    BY DEF Clear, Idle
  <1>2. Busy = {} /\ Busy' = Busy
    BY <1>1, GeneratorBusy
  <1>3. Tidy' /\ UNCHANGED Abstract!vars
    BY <1>1, <1>2, ClearBeginsStep
  <1>4. /\ clearing' = [obj |-> g, then |-> then, handle |-> k]
        /\ alive' = alive /\ top' = top /\ p' = p
    BY <1>1 DEF ClearBegins
  <1>5. GeneratorInv'
    BY <1>1, <1>4 DEF GeneratorInv
  <1> QED
    BY <1>3, <1>5 DEF AbstractStep

\* One round of clear().
LEMMA GeneratorClearsOne ==
  ASSUME Tidy, GeneratorInv, awaits' = awaits, NEW b \in Objects, ClearRoundOf(b)
  PROVE  Tidy' /\ GeneratorInv' /\ AbstractStep
  <1> DEFINE o == clearing.obj
             d == Destroy(p, top[o])
             q == PrepareBoth(d, top', o, b)
  <1>1. clearing # None /\ ClearRound(b, q) /\ iter' = iter
    BY DEF ClearRoundOf
  <1>2. /\ b \in alive /\ top[o] # None /\ p' = q
        /\ top' = Exchanged([top EXCEPT ![o] = None], o, b)
        /\ alive' = alive /\ clearing' = clearing
    BY <1>1 DEF ClearRound
  <1>3. iter = None /\ Busy = {} /\ Busy' = Busy
    BY <1>1, GeneratorBusy DEF GeneratorInv
  <1>4. o \in alive /\ o \in Objects /\ top[o] \in Heads
    BY <1>1, <1>2, HeadFacts DEF Tidy, Holders
  <1>5. Forest(d, Heads \ {top[o]}) /\ \A g \in Heads \ {top[o]} : d[g] = p[g]
    BY <1>4, DestroyForest DEF Tidy
  <1>6. /\ b = o => top'[o] = None
        /\ b # o => top'[o] = top[b] /\ top'[b] = None
    BY <1>2, <1>4 DEF Tidy, Holders, Exchanged
  <1>7. b # o => top[b] = None \/ (top[b] \in Heads /\ top[b] # top[o])
    BY <1>2, <1>4, HeadFacts DEF Tidy, Holders
  <1> HIDE DEF o, d, q
  <1>8. Preparable(d, Heads \ {top[o]}, top', o) /\ Preparable(d, Heads \ {top[o]}, top', b)
    BY <1>4, <1>5, <1>6, <1>7 DEF Preparable
  <1>9. top'[o] = top'[b] /\ top'[o] # None => o = b
    BY <1>6
  <1>10. /\ Relinked(d, q, Heads \ {top[o]}) /\ \A x \in Frames : x # top'[o] /\ x # top'[b] => q[x] = d[x]
         /\ top'[o] # None => q[top'[o]].link = o
         /\ top'[b] # None => q[top'[b]].link = b
    <2>1. q = PrepareBoth(d, top', o, b)
      BY DEF q
    <2> QED
      BY ONLY <1>8, <1>9, <2>1, PrepareBothForest
  <1>11. /\ Tidy' /\ Abstract!Next /\ \A x \in Objects \ {o, b} : top'[x] = top[x]
    BY <1>1, <1>3, <1>10, ClearRoundStep DEF o, d
  <1>12. ASSUME NEW x \in alive, top'[x] # None PROVE p'[top'[x]].link = x
    <2>1. CASE x \in {o, b}
      BY <1>2, <1>10, <1>12, <2>1
    <2>2. CASE x \notin {o, b}
      <3>1. x \in Objects /\ top'[x] = top[x] /\ top[x] \in Heads /\ top[x] # top[o] /\ top[x] # top[b]
        BY <1>4, <1>11, <1>12, <2>2, HeadFacts DEF Tidy, Holders
      <3>2. top[x] # top'[o] /\ top[x] # top'[b] /\ top[x] \in Frames
        BY <1>6, <1>12, <3>1, HeadFacts
      <3>3. p'[top[x]] = p[top[x]]
        BY <1>2, <1>5, <1>10, <3>1, <3>2
      <3> QED
        BY <1>12, <3>1, <3>3 DEF GeneratorInv
    <2> QED
      BY <2>1, <2>2
  <1>13. ASSUME clearing.then = "reset" PROVE p'[clearing.handle].link = o
    <2>1. clearing.handle \in released /\ p[clearing.handle].link = o
      BY <1>1, <1>13 DEF Tidy, Holders, GeneratorInv, o
    <2>2. clearing.handle \in Heads /\ clearing.handle # None /\ clearing.handle \in Frames
      BY <2>1, HeadFacts
    <2>3. clearing.handle # top[o] /\ clearing.handle # top[b]
      BY <1>4, <2>1 DEF Tidy, Holders
    <2>4. clearing.handle # top'[o] /\ clearing.handle # top'[b]
      BY <1>6, <2>2, <2>3
    <2>5. p'[clearing.handle] = p[clearing.handle]
      BY <1>2, <1>5, <1>10, <2>2, <2>3, <2>4
    <2> QED
      BY <2>1, <2>5
  <1>14. GeneratorInv'
    BY <1>2, <1>3, <1>1, <1>12, <1>13 DEF GeneratorInv, o
  <1> QED
    BY <1>11, <1>14 DEF AbstractStep

\* The end of clear(), reset() and the destructor.
LEMMA GeneratorCleared ==
  ASSUME Tidy, GeneratorInv, awaits' = awaits, ClearDone, iter' = iter
  PROVE  Tidy' /\ GeneratorInv' /\ AbstractStep
  <1> DEFINE o == clearing.obj
  <1>1. Busy' = Busy
    BY GeneratorBusy
  <1>2. /\ Tidy' /\ AbstractStep /\ o \in Objects /\ clearing # None
        /\ p' = p /\ \A x \in Objects \ {o} : top'[x] = top[x]
        /\ clearing.then = "reset" => top'[o] = clearing.handle
        /\ clearing.then # "reset" => top'[o] = None
    BY <1>1, ClearDoneStep
  <1>3. alive' \subseteq alive /\ clearing' = None
    BY DEF ClearDone, ClearEnds
  <1>4. ASSUME NEW x \in alive', top'[x] # None PROVE p'[top'[x]].link = x
    <2>1. CASE x = o
      BY <1>2, <1>4, <2>1 DEF GeneratorInv
    <2>2. CASE x # o
      <3>1. x \in Objects /\ x \in alive /\ top'[x] = top[x]
        BY <1>2, <1>3, <2>2 DEF Tidy, Holders
      <3> QED
        BY <1>2, <1>4, <3>1 DEF GeneratorInv
    <2> QED
      BY <2>1, <2>2
  <1>5. GeneratorInv'
    BY <1>3, <1>4 DEF GeneratorInv
  <1> QED
    BY <1>2, <1>5

\* The default constructor, release() and destroy() of a released handle.
LEMMA GeneratorLetsGo ==
  ASSUME Tidy, GeneratorInv, awaits' = awaits, iter' = iter, iter = None,
         \/ \E g \in Objects : Construct(g) \/ Release(g)
         \/ \E f \in Frames : DestroyReleased(f)
  PROVE  Tidy' /\ GeneratorInv' /\ AbstractStep
  <1>1. Busy = {} /\ Busy' = Busy
    BY GeneratorBusy
  <1>2. ASSUME NEW g \in Objects, Construct(g) PROVE Tidy' /\ GeneratorInv' /\ AbstractStep
    <2>1. Tidy' /\ UNCHANGED Abstract!vars
      BY <1>1, <1>2, ConstructStep
    <2>2. g \notin alive /\ alive' = alive \cup {g} /\ top' = top /\ p' = p /\ clearing' = clearing /\ clearing = None
      BY <1>2 DEF Construct
    <2>3. top[g] = None
      BY <2>2 DEF Tidy, Holders
    <2>4. GeneratorInv'
      BY <2>2, <2>3 DEF GeneratorInv
    <2> QED
      BY <2>1, <2>4 DEF AbstractStep
  <1>3. ASSUME NEW g \in Objects, Release(g) PROVE Tidy' /\ GeneratorInv' /\ AbstractStep
    <2>1. Tidy' /\ Abstract!Next /\ p' = p /\ top'[g] = None /\ \A x \in Objects \ {g} : top'[x] = top[x]
      BY <1>1, <1>3, ReleaseStep
    <2>2. alive' = alive /\ clearing' = clearing /\ clearing = None /\ alive \subseteq Objects
      BY <1>3 DEF Release, Tidy, Holders
    <2>3. GeneratorInv'
      BY <2>1, <2>2 DEF GeneratorInv
    <2> QED
      BY <2>1, <2>3 DEF AbstractStep
  <1>4. ASSUME NEW f \in Frames, DestroyReleased(f) PROVE Tidy' /\ GeneratorInv' /\ AbstractStep
    <2>1. /\ Tidy' /\ AbstractStep /\ \A g \in Heads \ {f} : p'[g] = p[g]
          /\ \A x \in Objects : top'[x] = top[x] /\ top[x] # f
      BY <1>1, <1>4, DestroyReleasedStep
    <2>2. alive' = alive /\ clearing' = clearing /\ clearing = None /\ alive \subseteq Objects
      BY <1>4 DEF DestroyReleased, Tidy, Holders
    <2>3. \A x \in alive : top'[x] # None => p'[top'[x]].link = x
      <3> SUFFICES ASSUME NEW x \in alive, top'[x] # None PROVE p'[top'[x]].link = x
        OBVIOUS
      <3>1. top'[x] = top[x] /\ top[x] \in Heads \ {f}
        BY <2>1, <2>2, HeadFacts
      <3> QED
        BY <2>1, <3>1 DEF GeneratorInv
    <2>4. GeneratorInv'
      BY <2>2, <2>3 DEF GeneratorInv
    <2> QED
      BY <2>1, <2>4
  <1> QED
    BY <1>2, <1>3, <1>4

\* Every step of a generator.
LEMMA GeneratorStep ==
  ASSUME Tidy, GeneratorInv, awaits' = awaits, Next
  PROVE  Tidy' /\ GeneratorInv' /\ AbstractStep
  <1>1. CASE ClearDone /\ UNCHANGED iter
    BY <1>1, GeneratorCleared
  <1>2. ASSUME NEW g \in Objects, Increment(g) \/ ClearRoundOf(g) PROVE Tidy' /\ GeneratorInv' /\ AbstractStep
    BY <1>2, GeneratorIterates, GeneratorClearsOne
  <1>3. ASSUME NEW g \in Objects, Idle /\ (Construct(g) \/ Release(g)) /\ UNCHANGED iter
        PROVE  Tidy' /\ GeneratorInv' /\ AbstractStep
    BY <1>3, GeneratorLetsGo DEF Idle
  <1>4. ASSUME NEW g \in Objects, Clear(g, "clear", None) \/ Clear(g, "destroy", None)
        PROVE  Tidy' /\ GeneratorInv' /\ AbstractStep
    BY <1>4, GeneratorClears
  <1>5. ASSUME NEW g \in Objects, NEW f \in Frames, Create(g, f) \/ YieldElementsOf(f, g) \/ Clear(g, "reset", f)
        PROVE  Tidy' /\ GeneratorInv' /\ AbstractStep
    BY <1>5, GeneratorCreates, GeneratorNests, GeneratorClears
  <1>6. ASSUME NEW g \in Objects, NEW h \in Objects, Swap(g, h) PROVE Tidy' /\ GeneratorInv' /\ AbstractStep
    BY <1>6, GeneratorSwaps
  <1>7. ASSUME NEW f \in Frames, Yield(f) \/ Return(f) \/ Throw(f) PROVE Tidy' /\ GeneratorInv' /\ AbstractStep
    BY <1>7, GeneratorYields, GeneratorReturns, GeneratorThrows
  <1>8. ASSUME NEW f \in Frames, Idle /\ DestroyReleased(f) /\ UNCHANGED iter
        PROVE  Tidy' /\ GeneratorInv' /\ AbstractStep
    BY <1>8, GeneratorLetsGo DEF Idle
  <1> QED
    BY <1>1, <1>2, <1>3, <1>4, <1>5, <1>6, <1>7, <1>8 DEF Next
-----------------------------------------------------------------------------
(***************************************************************************)
(* Channel has its own instance of LeafChain, which says the same.         *)
(***************************************************************************)
LEMMA SameWalk ==
  ASSUME NEW q, NEW f
  PROVE  C!Chain(q, f) = Chain(q, f) /\ C!Destroy(q, f) = Destroy(q, f) /\ C!Resume(q, f) = Resume(q, f)
  <1>1. \A g : C!Chain(q, g) = Chain(q, g)
    BY DEF C!Chain, Chain, C!Leaves!ListOf, Leaves!ListOf, C!Leaves!Cardinality, Leaves!Cardinality
  <1>2. \A g : C!Destroy(q, g) = Destroy(q, g)
    BY <1>1 DEF C!Destroy, Destroy, C!NoFrame, NoFrame, C!Range, Range
  <1> QED
    BY <1>1, <1>2 DEF C!Resume, Resume

\* Channel uses the operators of LeafChain as Generator does.
LEMMA SameMembers ==
  ASSUME NEW q, NEW f, NEW o
  PROVE  /\ C!Call(q, f, o) = Call(q, f, o) /\ C!SkipThisLeaf(q, f) = SkipThisLeaf(q, f)
         /\ C!AttachLeaf(q, f, o) = AttachLeaf(q, f, o)
         /\ C!Exchanged(q, f, o) = Exchanged(q, f, o)
         /\ (C!Running(f) <=> Running(f)) /\ (C!Free(f) <=> Free(f)) /\ (C!Empty(o) <=> Empty(o))
         /\ C!Invalidated(q) = [c \in Consumers |-> IF it[c] \in q THEN None ELSE it[c]]
  <1>1. C!AttachLeaf(q, f, o) = AttachLeaf(q, f, o)
    BY SameWalk, Zenon DEF C!AttachLeaf, AttachLeaf
  <1> QED
    BY <1>1 DEF C!Call, Call, C!NoFrame, NoFrame, C!SkipThisLeaf, SkipThisLeaf, C!Exchanged, Exchanged,
                C!Running, Running, C!Free, Free, C!Empty, Empty, C!Invalidated

\* The members that channel and generator share.
LEMMA SameActions ==
  ASSUME NEW f, NEW o, NEW then, NEW k
  PROVE  /\ C!Construct(o) => Construct(o)
         /\ C!YieldElements(f, o) => YieldElements(f, o)
         /\ C!ClearBegins(o, then, k) => ClearBegins(o, then, k)
         /\ C!ClearRound(o, k) => ClearRound(o, k)
         /\ C!ClearDone => ClearDone
         /\ C!Release(o) => Release(o)
         /\ C!DestroyReleased(f) => DestroyReleased(f)
  <1>1. C!YieldElements(f, o) => YieldElements(f, o)
    BY SameWalk, SameMembers DEF C!YieldElements, YieldElements
  <1>2. C!ClearRound(o, k) => ClearRound(o, k)
    BY SameMembers DEF C!ClearRound, ClearRound
  <1>3. C!DestroyReleased(f) => DestroyReleased(f)
    BY SameWalk DEF C!DestroyReleased, DestroyReleased
  <1>4. C!Release(o) => Release(o)
    BY DEF C!Release, Release, C!Cardinality, Cardinality
  <1>5. C!ClearDone => ClearDone
    BY DEF C!ClearDone, ClearDone, C!ClearEnds, ClearEnds
  <1> QED
    BY <1>1, <1>2, <1>3, <1>4, <1>5 DEF C!Construct, Construct, C!ClearBegins, ClearBegins
-----------------------------------------------------------------------------
\* Nothing the mapping shows has changed.
LEMMA NothingStep ==
  ASSUME Tidy, UNCHANGED <<chain, iter, awaits>>
  PROVE  Tidy' /\ UNCHANGED Abstract!vars
  <1>1. /\ alive' = alive /\ top' = top /\ current' = current /\ p' = p
        /\ clearing' = clearing /\ released' = released /\ iter' = iter /\ awaits' = awaits
    BY DEF chain
  <1>2. Busy' = Busy
    BY <1>1 DEF Busy
  <1>3. Heads' = Heads
    BY <1>1 DEF Heads
  <1>4. Tidy'
    BY <1>1, <1>2, <1>3 DEF Tidy, Holders, Workers, Active
  <1>5. Stack' = Stack /\ Value' = Value /\ Loose' = Loose
    BY <1>1, StackIs DEF Value
  <1> QED
    BY <1>2, <1>4, <1>5, AbsStutter

\* In a channel's behaviour the consumers tell who is iterated.
LEMMA ChannelBusy ==
  ASSUME ChannelInv, iter' = iter
  PROVE  /\ Busy = {awaits[c] : c \in Consumers} \ {None} /\ Busy' = {awaits'[c] : c \in Consumers} \ {None}
         /\ awaits' = awaits => Busy' = Busy
  BY DEF ChannelInv, Busy

\* Nobody awaits a channel that rests.
LEMMA ChannelRests ==
  ASSUME ChannelInv, iter' = iter, NEW o \in Objects, C!Resting(o)
  PROVE  o \notin Busy /\ clearing = None /\ o \in alive
  BY ChannelBusy DEF C!Resting, C!Goes

\* The iterators of the channels in O are dropped, the others stay valid.
StayValid(O) ==
  \A c \in Consumers, o \in Objects : o \notin O /\ ValidIterator(c, o) => ValidIterator(c, o)'

\* The invariant of channels after a step in which iterators are dropped.
LEMMA IteratorsKept ==
  ASSUME ChannelInv, iter' = iter, awaits' = awaits, NEW O, \A o \in O : o \notin Busy,
         it' = [c \in Consumers |-> IF it[c] \in O THEN None ELSE it[c]],
         handle' \in [Objects -> Consumers \cup {None}],
         StayValid(O)
  PROVE  ChannelInv'
  <1>1. /\ it \in [Consumers -> Objects \cup {None}] /\ awaits \in [Consumers -> Objects \cup {None}]
        /\ \A c \in Consumers : awaits[c] = None \/ awaits[c] = it[c]
        /\ \A c \in Consumers : it[c] # None => ValidIterator(c, it[c])
        /\ iter = None
    BY DEF ChannelInv
  <1>2. \A c \in Consumers : it'[c] = IF it[c] \in O THEN None ELSE it[c]
    OBVIOUS
  <1>3. it' \in [Consumers -> Objects \cup {None}]
    BY <1>1
  <1>4. \A c \in Consumers : awaits[c] = None \/ awaits[c] = it'[c]
    <2>1. \A c \in Consumers : awaits[c] # None => awaits[c] \in Busy
      BY ChannelBusy
    <2> QED
      BY <1>1, <1>2, <2>1
  <1>5. ASSUME NEW c \in Consumers, it'[c] # None PROVE ValidIterator(c, it[c])' 
    <2>1. it[c] # None /\ it[c] \notin O /\ it'[c] = it[c] /\ it[c] \in Objects
      BY <1>1, <1>2, <1>5
    <2>2. PICK o \in Objects : o = it[c]
      BY <2>1
    <2>3. ValidIterator(c, o)
      BY <1>1, <2>1, <2>2
    <2>4. ValidIterator(c, o)'
      BY <2>1, <2>2, <2>3 DEF StayValid
    <2> QED
      BY <2>1, <2>2, <2>4
  <1> QED
    BY <1>1, <1>3, <1>4, <1>5 DEF ChannelInv

\* No iterator is dropped.
LEMMA IteratorsStay ==
  ASSUME ChannelInv, iter' = iter, awaits' = awaits, it' = it, handle' \in [Objects -> Consumers \cup {None}],
         StayValid({})
  PROVE  ChannelInv'
  <1>1. it' = [c \in Consumers |-> IF it[c] \in {} THEN None ELSE it[c]]
    BY DEF ChannelInv
  <1>2. \A o \in {} : o \notin Busy
    OBVIOUS
  <1> QED
    BY <1>1, <1>2, IteratorsKept
-----------------------------------------------------------------------------
\* A channel that runs reports to the one whose consumer waits, and to this one.
LEMMA ChannelReports ==
  ASSUME Tidy, ChannelInv, iter' = iter, NEW f \in Frames, Running(f), NEW o, o = C!ConsumerOf(f)
  PROVE  /\ o \in Busy /\ o \in Objects /\ o \in alive /\ top[o] = p[f].root
         /\ handle[o] \in Consumers /\ awaits[handle[o]] = o /\ p[p[f].root].link = o
         /\ \A d \in Consumers : awaits[d] = o => d = handle[o]
  <1>1. PICK a \in Busy : top[a] = p[f].root
    BY Runner
  <1>2. a \in Objects /\ a \in alive
    BY <1>1, Runner
  <1>3. PICK c \in Consumers : awaits[c] = a /\ a # None
    BY ChannelBusy
  <1>4. it[c] = a /\ ValidIterator(c, a)
    BY <1>3 DEF ChannelInv
  <1>5. handle[a] = c /\ p[p[f].root].link = a
    BY <1>1, <1>4 DEF ValidIterator
  <1>6. o = a
    BY <1>5 DEF C!ConsumerOf
  <1>7. \A d \in Consumers : awaits[d] = a => d = c
    BY <1>3, <1>5 DEF ChannelInv, ValidIterator
  <1> QED
    BY <1>1, <1>2, <1>3, <1>5, <1>6, <1>7

\* The transfer to the consumer ends the iteration.
LEMMA ReportEnds ==
  ASSUME ChannelInv, iter' = iter, NEW o \in Busy, handle[o] \in Consumers, awaits[handle[o]] = o,
         \A d \in Consumers : awaits[d] = o => d = handle[o],
         awaits' = [awaits EXCEPT ![handle[o]] = None]
  PROVE  Busy' = Busy \ {o}
  <1>1. /\ Busy = {awaits[c] : c \in Consumers} \ {None} /\ Busy' = {awaits'[c] : c \in Consumers} \ {None}
    BY ChannelBusy
  <1>2. awaits'[handle[o]] = None /\ \A d \in Consumers : d # handle[o] => awaits'[d] = awaits[d] /\ awaits[d] # o
    BY DEF ChannelInv
  <1>3. ASSUME NEW x \in Busy' PROVE x \in Busy \ {o}
    BY <1>1, <1>2
  <1>4. ASSUME NEW x \in Busy \ {o} PROVE x \in Busy'
    BY <1>1, <1>2
  <1> QED
    BY <1>3, <1>4

\* The frames go on or stop, and every promise of a head has the link it had.
LEMMA ChannelInvKept ==
  ASSUME Tidy, ChannelInv, iter' = iter, SameHolders, handle' = handle, it' = it,
         \A c \in Consumers : awaits'[c] = awaits[c] \/ awaits'[c] = None \/ awaits'[c] = it[c],
         awaits' \in [Consumers -> Objects \cup {None}],
         \A g \in Heads : p'[g].link = p[g].link
  PROVE  ChannelInv'
  <1>1. \A o \in Objects : top[o] # None => top[o] \in Heads
    BY HeadFacts
  <1>2. \A c \in Consumers : it[c] # None => it[c] \in Objects
    BY DEF ChannelInv
  <1>3. \A c \in Consumers : it[c] # None => /\ it[c] \in alive /\ handle[it[c]] = c /\ top[it[c]] # None
                                             /\ p'[top[it[c]]].link = it[c]
                                             /\ clearing # None => clearing.obj # it[c]
    BY <1>1, <1>2 DEF ChannelInv, ValidIterator
  <1>4. \A c \in Consumers : it'[c] # None => ValidIterator(c, it[c])'
    BY <1>3 DEF ValidIterator, SameHolders
  <1> QED
    BY <1>4 DEF ChannelInv

\* co_await begin() or next()
LEMMA ChannelBegins ==
  ASSUME Tidy, ChannelInv, iter' = iter, NEW c \in Consumers, NEW o \in Objects, C!Begin(c, o)
  PROVE  Tidy' /\ ChannelInv' /\ AbstractStep
  <1> DEFINE h == top[o]
             q == [p EXCEPT ![h].link = o]
  <1>1. /\ C!Resting(o) /\ awaits[c] = None /\ ~Empty(o)
        /\ handle' = [handle EXCEPT ![o] = c] /\ awaits' = [awaits EXCEPT ![c] = o]
        /\ it' = [C!Invalidated({o}) EXCEPT ![c] = o]
        /\ p' = Resume(q, p[h].worker)
        /\ alive' = alive /\ top' = top /\ current' = current /\ clearing' = clearing /\ released' = released
    BY SameWalk, SameMembers DEF C!Begin
  <1>2. o \notin Busy /\ clearing = None /\ o \in alive
    BY <1>1, ChannelRests
  <1>3. h # None /\ h \in Heads /\ Forest(p, Heads)
    BY <1>1, HeadFacts DEF Empty, Tidy
  <1>4. o # None
    BY LeafChainAssumption
  <1>5. Busy' = Busy \cup {o}
    <2>1. /\ Busy = {awaits[d] : d \in Consumers} \ {None} /\ Busy' = {awaits'[d] : d \in Consumers} \ {None}
      BY ChannelBusy
    <2>2. awaits'[c] = o /\ \A d \in Consumers : d # c => awaits'[d] = awaits[d]
      BY <1>1 DEF ChannelInv
    <2>3. ASSUME NEW x \in Busy' PROVE x \in Busy \cup {o}
      BY <2>1, <2>2
    <2>4. ASSUME NEW x \in Busy \cup {o} PROVE x \in Busy'
      BY <1>1, <1>4, <2>1, <2>2
    <2> QED
      BY <2>3, <2>4
  <1>6. /\ Relinked(p, q, Heads) /\ q[h].link = o /\ q[h].worker = p[h].worker
        /\ \A x \in Frames \ {h} : q[x] = p[x]
    <2>1. Told(p, q, h, o)
      BY DEF Told, LinkTypes
    <2>2. Forest(q, Heads) /\ \A g \in Heads : Kept(p, q, g)
      BY <1>3, <2>1, LinkForest
    <2>3. q[h].link = o /\ q[h].worker = p[h].worker
      BY <1>3 DEF Forest, Promise
    <2>4. \A x \in Frames \ {h} : q[x] = p[x]
      BY <1>3 DEF Forest
    <2> QED
      BY <2>2, <2>3, <2>4 DEF Relinked
  <1> HIDE DEF h, q
  <1>7. Tidy' /\ Abstract!Next /\ \A g \in Heads : p'[g].link = q[g].link
    <2>1. SameHolders
      BY <1>1 DEF SameHolders
    <2> QED
      BY <1>1, <1>2, <1>5, <1>6, <2>1, AdvanceStep DEF h
  <1>8. p'[h].link = o /\ \A g \in Heads : g # h => p'[g].link = p[g].link
    BY <1>3, <1>6, <1>7, HeadFacts
  <1>9. it' = [[d \in Consumers |-> IF it[d] \in {o} THEN None ELSE it[d]] EXCEPT ![c] = o]
    BY <1>1 DEF C!Invalidated
  <1>10. it'[c] = o /\ \A d \in Consumers : d # c => it'[d] = IF it[d] = o THEN None ELSE it[d]
    BY <1>9
  <1>11. it' \in [Consumers -> Objects \cup {None}] /\ awaits' \in [Consumers -> Objects \cup {None}]
         /\ handle' \in [Objects -> Consumers \cup {None}]
    BY <1>1, <1>9 DEF ChannelInv
  <1>12. \A d \in Consumers : awaits'[d] = None \/ awaits'[d] = it'[d]
    <2>1. awaits'[c] = o /\ \A d \in Consumers : d # c => awaits'[d] = awaits[d] /\ awaits[d] # o
      BY <1>1, <1>2, <1>4, ChannelBusy DEF ChannelInv
    <2> QED
      BY <1>10, <2>1 DEF ChannelInv
  <1>13. ASSUME NEW d \in Consumers, it'[d] # None PROVE ValidIterator(d, it[d])'
    <2>1. CASE d = c
      <3>1. it'[d] = o /\ handle'[o] = c
        BY <1>1, <1>10, <2>1 DEF ChannelInv
      <3> QED
        BY <1>1, <1>2, <1>3, <1>8, <2>1, <3>1 DEF ValidIterator, h
    <2>2. CASE d # c
      <3>1. it'[d] = it[d] /\ it[d] # None /\ it[d] # o /\ it[d] \in Objects
        BY <1>10, <1>13, <2>2 DEF ChannelInv
      <3>2. ValidIterator(d, it[d])
        BY <3>1 DEF ChannelInv
      <3>3. top[it[d]] \in Heads /\ top[it[d]] # h
        BY <3>1, <3>2, HeadFacts DEF ValidIterator, Tidy, Holders, h
      <3>4. handle'[it[d]] = handle[it[d]]
        BY <1>1, <3>1 DEF ChannelInv
      <3> QED
        BY <1>1, <1>8, <3>1, <3>2, <3>3, <3>4 DEF ValidIterator
    <2> QED
      BY <2>1, <2>2
  <1>14. ChannelInv'
    BY <1>11, <1>12, <1>13 DEF ChannelInv
  <1> QED
    BY <1>7, <1>14 DEF AbstractStep

\* co_await ++iterator
LEMMA ChannelIncrements ==
  ASSUME Tidy, ChannelInv, iter' = iter, NEW c \in Consumers, C!Increment(c)
  PROVE  Tidy' /\ ChannelInv' /\ AbstractStep
  <1> DEFINE o == it[c]
  <1>1. /\ o # None /\ awaits[c] = None /\ C!Resting(o) /\ ~Empty(o)
        /\ awaits' = [awaits EXCEPT ![c] = o]
        /\ p' = Resume(p, p[top[o]].worker)
        /\ SameHolders /\ current' = current /\ handle' = handle /\ it' = it
    BY SameWalk, SameMembers DEF C!Increment, SameHolders
  <1>2. o \in Objects
    BY <1>1 DEF ChannelInv
  <1> HIDE DEF o
  <1>3. o \notin Busy /\ clearing = None /\ o \in alive
    BY <1>1, <1>2, ChannelRests
  <1>4. awaits'[c] = o /\ \A d \in Consumers : d # c => awaits'[d] = awaits[d]
    BY <1>1 DEF ChannelInv
  <1>5. Busy' = Busy \cup {o}
    <2>1. /\ Busy = {awaits[d] : d \in Consumers} \ {None} /\ Busy' = {awaits'[d] : d \in Consumers} \ {None}
      BY ChannelBusy
    <2>2. ASSUME NEW x \in Busy' PROVE x \in Busy \cup {o}
      BY <1>4, <2>1
    <2>3. ASSUME NEW x \in Busy \cup {o} PROVE x \in Busy'
      BY <1>1, <1>4, <2>1
    <2> QED
      BY <2>2, <2>3
  <1>6. Relinked(p, p, Heads)
    BY KeptSame DEF Tidy
  <1>7. Tidy' /\ Abstract!Next /\ \A g \in Heads : p'[g].link = p[g].link
    BY <1>1, <1>3, <1>5, <1>6, AdvanceStep
  <1>8. awaits' \in [Consumers -> Objects \cup {None}]
    BY <1>1, <1>2 DEF ChannelInv
  <1>9. ChannelInv'
    BY <1>1, <1>4, <1>7, <1>8, ChannelInvKept DEF o
  <1> QED
    BY <1>7, <1>9 DEF AbstractStep

\* A report of the frame f to the channel that its consumer awaits.
LEMMA ChannelReportKeeps ==
  ASSUME Tidy, ChannelInv, iter' = iter, NEW f \in Frames, Running(f), NEW o, o = C!ConsumerOf(f),
         NEW v \in Frames \cup {None}, C!Report(o, v), SameHolders, handle' = handle, it' = it
  PROVE  /\ Reports(f, o, v) /\ p[p[f].root].link = o /\ o \in Objects
         /\ (\A g \in Heads : p'[g].link = p[g].link) => ChannelInv'
  <1>1. current' = [current EXCEPT ![o] = v] /\ awaits' = [awaits EXCEPT ![handle[o]] = None]
    BY DEF C!Report
  <1>2. /\ o \in Busy /\ o \in Objects /\ o \in alive /\ top[o] = p[f].root
        /\ handle[o] \in Consumers /\ awaits[handle[o]] = o /\ p[p[f].root].link = o
        /\ \A d \in Consumers : awaits[d] = o => d = handle[o]
    BY ChannelReports
  <1>3. Busy' = Busy \ {o}
    BY <1>1, <1>2, ReportEnds
  <1>4. Reports(f, o, v)
    BY <1>1, <1>2, <1>3 DEF Reports
  <1>5. \A c \in Consumers : awaits'[c] = awaits[c] \/ awaits'[c] = None \/ awaits'[c] = it[c]
    BY <1>1 DEF ChannelInv
  <1>6. awaits' \in [Consumers -> Objects \cup {None}]
    BY <1>1 DEF ChannelInv
  <1>7. ASSUME \A g \in Heads : p'[g].link = p[g].link PROVE ChannelInv'
    BY <1>5, <1>6, <1>7, ChannelInvKept
  <1> QED
    BY <1>2, <1>4, <1>7

\* co_yield value
LEMMA ChannelYields ==
  ASSUME Tidy, ChannelInv, iter' = iter, NEW f \in Frames, C!Yield(f)
  PROVE  Tidy' /\ ChannelInv' /\ AbstractStep
  <1> DEFINE o == C!ConsumerOf(f)
  <1>1. /\ Running(f) /\ C!Report(o, f) /\ p' = [p EXCEPT ![f].st = "suspended"]
        /\ SameHolders /\ handle' = handle /\ it' = it
    BY SameMembers DEF C!Yield, SameHolders
  <1>2. Reports(f, o, f) /\ ((\A g \in Heads : p'[g].link = p[g].link) => ChannelInv')
    BY <1>1, ChannelReportKeeps
  <1> HIDE DEF o
  <1>3. Tidy' /\ Abstract!Next /\ \A x \in Frames : p'[x].link = p[x].link
    BY <1>1, <1>2, YieldStep
  <1> QED
    BY <1>2, <1>3, HeadFacts DEF AbstractStep

\* co_return
LEMMA ChannelReturns ==
  ASSUME Tidy, ChannelInv, iter' = iter, NEW f \in Frames, C!Return(f)
  PROVE  Tidy' /\ ChannelInv' /\ AbstractStep
  <1>1. Running(f) /\ SameHolders /\ handle' = handle /\ it' = it
    BY SameMembers DEF C!Return, SameHolders
  <1>2. CASE p[f].root # f
    <2>1. p' = Resume(SkipThisLeaf(p, f), p[f].link) /\ current' = current /\ awaits' = awaits
      BY <1>2, SameWalk, SameMembers DEF C!Return
    <2>2. Busy' = Busy
      BY <2>1, ChannelBusy
    <2>3. Tidy' /\ Abstract!Next /\ \A g \in Heads : p'[g].link = p[g].link
      BY <1>1, <1>2, <2>1, <2>2, ReturnStep
    <2>4. ChannelInv'
      BY <1>1, <2>1, <2>3, ChannelInvKept DEF ChannelInv
    <2> QED
      BY <2>3, <2>4 DEF AbstractStep
  <1>3. CASE p[f].root = f
    <2> DEFINE o == C!ConsumerOf(f)
    <2>1. o = p[f].link
      BY <1>3 DEF C!ConsumerOf
    <2>2. C!Report(o, None) /\ p' = [p EXCEPT ![f].st = "done"]
      BY <1>3, <2>1 DEF C!Return
    <2>3. Reports(f, o, None) /\ ((\A g \in Heads : p'[g].link = p[g].link) => ChannelInv')
      BY <1>1, <2>2, ChannelReportKeeps
    <2> HIDE DEF o
    <2>4. Tidy' /\ Abstract!Next /\ \A x \in Frames : p'[x].link = p[x].link
      BY <1>3, <2>2, <2>3, EndStep
    <2> QED
      BY <2>3, <2>4, HeadFacts DEF AbstractStep
  <1> QED
    BY <1>2, <1>3

\* unhandled_exception()
LEMMA ChannelThrows ==
  ASSUME Tidy, ChannelInv, iter' = iter, NEW f \in Frames, C!Throw(f)
  PROVE  Tidy' /\ ChannelInv' /\ AbstractStep
  <1> DEFINE o == C!ConsumerOf(f)
             a == IF p[f].root # f THEN SkipThisLeaf(p, f) ELSE p
  <1>1. Running(f) /\ SameHolders /\ handle' = handle /\ it' = it
    BY SameMembers DEF C!Throw, SameHolders
  <1>2. CASE exception[o]
    <2>1. p' = p /\ current' = current /\ awaits' = awaits
      BY <1>2 DEF C!Throw
    <2>2. UNCHANGED <<chain, iter, awaits>>
      BY <1>1, <2>1 DEF SameHolders, chain
    <2>3. Tidy' /\ UNCHANGED Abstract!vars
      BY <2>2, NothingStep
    <2>4. ChannelInv'
      BY <1>1, <2>1, ChannelInvKept DEF ChannelInv
    <2> QED
      BY <2>3, <2>4 DEF AbstractStep
  <1>3. CASE ~exception[o]
    <2>1. p' = [a EXCEPT ![f].link = o, ![f].root = f, ![f].st = "done"] /\ C!Report(o, None)
      BY <1>3, SameMembers, Zenon DEF C!Throw
    <2>2. /\ Reports(f, o, None) /\ ((\A g \in Heads : p'[g].link = p[g].link) => ChannelInv')
          /\ p[p[f].root].link = o /\ o \in Objects
      BY <1>1, <2>1, ChannelReportKeeps
    <2>3. Forest(p, Heads) /\ p \in [Frames -> Promise] /\ p[f].st = "running" /\ Heads \subseteq Frames
      BY <1>1 DEF Tidy, Forest, Running
    <2>4. CASE p[f].root # f
      <3>1. a = SkipThisLeaf(p, f)
        BY <2>4
      <3> HIDE DEF a, o
      <3>2. a \in [Frames -> Promise]
        BY <2>3, <2>4, <3>1, SkipEffects
      <3>3. /\ p' \in [Frames -> Promise] /\ p'[f].st = "done" /\ p'[f].leaf = a[f].leaf
            /\ \A x \in Frames \ {f} : p'[x] = a[x]
        <4>1. f \in Frames /\ o \in LinkTypes
          BY <2>2 DEF LinkTypes
        <4> DEFINE a1 == [a EXCEPT ![f].link = o]
                   a2 == [a1 EXCEPT ![f].root = f]
        <4>2. a1 \in [Frames -> Promise] /\ a1[f].leaf = a[f].leaf /\ \A x \in Frames \ {f} : a1[x] = a[x]
          BY ONLY <3>2, <4>1 DEF Promise
        <4>3. p' = [a2 EXCEPT ![f].st = "done"]
          BY <2>1, <3>2, <4>1
        <4> HIDE DEF a1
        <4>4. a2 \in [Frames -> Promise] /\ a2[f].leaf = a1[f].leaf /\ \A x \in Frames \ {f} : a2[x] = a1[x]
          BY ONLY <4>1, <4>2 DEF Promise
        <4> HIDE DEF a2
        <4>5. /\ p' \in [Frames -> Promise] /\ p'[f].st = "done" /\ p'[f].leaf = a2[f].leaf
              /\ \A x \in Frames \ {f} : p'[x] = a2[x]
          BY ONLY <4>1, <4>3, <4>4 DEF Promise
        <4> QED
          BY <4>2, <4>4, <4>5
      <3>4. Skipped(p, p', f)
        BY <2>3, <2>4, <3>1, <3>3, SkippedFrom
      <3>5. Tidy' /\ Abstract!Next /\ \A g \in Heads : p'[g].link = p[g].link
        BY <2>2, <2>4, <3>4, SkipStep
      <3> QED
        BY <2>2, <3>5 DEF AbstractStep
    <2>5. CASE p[f].root = f
      <3>1. a = p /\ p[f].link = o
        BY <2>2, <2>5
      <3> HIDE DEF a, o
      <3>2. p' = [p EXCEPT ![f].st = "done"]
        <4>1. p' = [p EXCEPT ![f].link = o, ![f].root = f, ![f].st = "done"]
          BY <2>1, <3>1
        <4> QED
          BY ONLY <2>3, <2>5, <3>1, <4>1, f \in Frames DEF Promise
      <3>3. Tidy' /\ Abstract!Next /\ \A x \in Frames : p'[x].link = p[x].link
        BY <2>2, <2>5, <3>2, EndStep
      <3> QED
        BY <2>2, <2>3, <3>3 DEF AbstractStep
    <2> QED
      BY <2>4, <2>5
  <1> QED
    BY <1>2, <1>3
-----------------------------------------------------------------------------
\* The call of the coroutine.
LEMMA ChannelCreates ==
  ASSUME Tidy, ChannelInv, iter' = iter, NEW o \in Objects, NEW f \in Frames, C!Create(o, f)
  PROVE  Tidy' /\ ChannelInv' /\ AbstractStep
  <1>1. /\ clearing = None /\ o \notin alive /\ Free(f) /\ alive' = alive \cup {o}
        /\ top' = [top EXCEPT ![o] = f] /\ current' = [current EXCEPT ![o] = None]
        /\ handle' = [handle EXCEPT ![o] = None] /\ p' = Call(p, f, None)
        /\ clearing' = clearing /\ released' = released /\ awaits' = awaits /\ it' = it
    BY SameMembers DEF C!Create, C!Goes
  <1>2. Busy' = Busy
    BY <1>1, ChannelBusy
  <1>3. None \in LinkTypes
    BY DEF LinkTypes
  <1>4. Tidy' /\ Abstract!Next /\ \A h \in Heads : p'[h].link = p[h].link
    BY <1>1, <1>2, <1>3, CreateStep
  <1>5. /\ handle' \in [Objects -> Consumers \cup {None}]
        /\ \A x \in Objects \ {o} : handle'[x] = handle[x] /\ top'[x] = top[x]
    BY <1>1 DEF ChannelInv, Tidy, Holders
  <1>6. StayValid({})
    <2> SUFFICES ASSUME NEW c \in Consumers, NEW x \in Objects, ValidIterator(c, x) PROVE ValidIterator(c, x)'
      BY DEF StayValid
    <2>1. x # o /\ top[x] \in Heads
      BY <1>1, HeadFacts DEF ValidIterator
    <2> QED
      BY <1>1, <1>4, <1>5, <2>1 DEF ValidIterator
  <1>7. ChannelInv'
    BY <1>1, <1>5, <1>6, IteratorsStay
  <1> QED
    BY <1>4, <1>7 DEF AbstractStep

\* co_yield elements_of(channel)
LEMMA ChannelNests ==
  ASSUME Tidy, ChannelInv, iter' = iter, NEW f \in Frames, NEW h \in Objects, C!YieldElementsOf(f, h)
  PROVE  Tidy' /\ ChannelInv' /\ AbstractStep
  <1>1. /\ C!Resting(h) /\ YieldElements(f, h) /\ handle' = [handle EXCEPT ![h] = None]
        /\ it' = [c \in Consumers |-> IF it[c] \in {h} THEN None ELSE it[c]] /\ awaits' = awaits
    BY SameActions DEF C!YieldElementsOf, C!Invalidated
  <1>2. h \notin Busy /\ Busy' = Busy
    BY <1>1, ChannelRests, ChannelBusy
  <1>3. /\ Tidy' /\ Abstract!Next /\ \A g \in Heads' : g \in Heads /\ p'[g].link = p[g].link
        /\ \A a \in Objects \ {h} : top'[a] = top[a]
    BY <1>1, <1>2, YieldElementsStep
  <1>4. alive' = alive /\ clearing' = clearing
    BY <1>1 DEF YieldElements
  <1>5. handle' \in [Objects -> Consumers \cup {None}] /\ \A x \in Objects \ {h} : handle'[x] = handle[x]
    BY <1>1 DEF ChannelInv
  <1>6. StayValid({h})
    <2> SUFFICES ASSUME NEW c \in Consumers, NEW x \in Objects, x # h, ValidIterator(c, x) PROVE ValidIterator(c, x)'
      BY DEF StayValid
    <2>1. top'[x] = top[x] /\ top[x] # None /\ x \in alive
      BY <1>3 DEF ValidIterator
    <2>2. top'[x] \in Heads'
      BY <1>4, <2>1 DEF Heads
    <2> QED
      BY <1>3, <1>4, <1>5, <2>1, <2>2 DEF ValidIterator
  <1>7. \A x \in {h} : x \notin Busy
    BY <1>2
  <1>8. ChannelInv'
    BY <1>1, <1>5, <1>6, <1>7, IteratorsKept
  <1> QED
    BY <1>3, <1>8 DEF AbstractStep

\* swap()
LEMMA ChannelSwaps ==
  ASSUME Tidy, ChannelInv, iter' = iter, ~IteratorsSurviveSwap,
         NEW a \in Objects, NEW b \in Objects, C!Swap(a, b)
  PROVE  Tidy' /\ ChannelInv' /\ AbstractStep
  <1>1. /\ C!Resting(a) /\ C!Resting(b) /\ top' = Exchanged(top, a, b) /\ current' = Exchanged(current, a, b)
        /\ handle' = Exchanged(handle, a, b)
        /\ it' = [c \in Consumers |-> IF it[c] \in {a, b} THEN None ELSE it[c]]
        /\ alive' = alive /\ p' = p /\ clearing' = clearing /\ released' = released /\ awaits' = awaits
    BY SameMembers DEF C!Swap
  <1>2. a \notin Busy /\ b \notin Busy /\ Busy' = Busy /\ clearing = None /\ a \in alive /\ b \in alive
    BY <1>1, ChannelRests, ChannelBusy
  <1>3. Relinked(p, p', Heads)
    BY <1>1, KeptSame DEF Tidy
  <1>4. Tidy' /\ Abstract!Next /\ \A x \in Objects \ {a, b} : top'[x] = top[x]
    BY <1>1, <1>2, <1>3, SwapStep
  <1>5. handle' \in [Objects -> Consumers \cup {None}] /\ \A x \in Objects \ {a, b} : handle'[x] = handle[x]
    BY <1>1 DEF ChannelInv, Exchanged
  <1>6. StayValid({a, b})
    BY <1>1, <1>4, <1>5 DEF StayValid, ValidIterator
  <1>7. \A x \in {a, b} : x \notin Busy
    BY <1>2
  <1>8. ChannelInv'
    BY <1>1, <1>5, <1>6, <1>7, IteratorsKept
  <1> QED
    BY <1>4, <1>8 DEF AbstractStep

\* clear(), reset() and the destructor begin.
LEMMA ChannelClears ==
  ASSUME Tidy, ChannelInv, iter' = iter, NEW o \in Objects, NEW then, NEW k, C!Clear(o, then, k)
  PROVE  Tidy' /\ ChannelInv' /\ AbstractStep
  <1>1. /\ C!Resting(o) /\ ClearBegins(o, then, k) /\ handle' = handle /\ awaits' = awaits
        /\ it' = [c \in Consumers |-> IF it[c] \in {o} THEN None ELSE it[c]]
    BY SameActions DEF C!Clear, C!Invalidated
  <1>2. o \notin Busy /\ Busy' = Busy
    BY <1>1, ChannelRests, ChannelBusy
  <1>3. Tidy' /\ UNCHANGED Abstract!vars
    BY <1>1, <1>2, ClearBeginsStep
  <1>4. /\ clearing' = [obj |-> o, then |-> then, handle |-> k]
        /\ alive' = alive /\ top' = top /\ p' = p
    BY <1>1 DEF ClearBegins
  <1>5. clearing'.obj = o
    BY <1>4
  <1>6. StayValid({o})
    BY <1>1, <1>4, <1>5 DEF StayValid, ValidIterator
  <1>7. \A x \in {o} : x \notin Busy
    BY <1>2
  <1>8. handle' \in [Objects -> Consumers \cup {None}]
    BY <1>1 DEF ChannelInv
  <1>9. ChannelInv'
    BY <1>1, <1>6, <1>7, <1>8, IteratorsKept
  <1> QED
    BY <1>3, <1>9 DEF AbstractStep

\* One round of clear().
LEMMA ChannelClearsOne ==
  ASSUME Tidy, ChannelInv, iter' = iter, NEW b \in Objects, C!ClearRoundOf(b)
  PROVE  Tidy' /\ ChannelInv' /\ AbstractStep
  <1> DEFINE o == clearing.obj
             d == Destroy(p, top[o])
  <1>1. /\ clearing # None /\ (\A c \in Consumers : awaits[c] # b) /\ ClearRound(b, d)
        /\ handle' = Exchanged(handle, o, b) /\ awaits' = awaits
        /\ it' = [c \in Consumers |-> IF it[c] \in {b} THEN None ELSE it[c]]
    BY SameWalk, SameMembers, SameActions DEF C!ClearRoundOf, C!Invalidated
  <1>2. b \notin Busy /\ Busy' = Busy
    BY <1>1, ChannelBusy
  <1>3. top[o] # None /\ p' = d /\ alive' = alive /\ clearing' = clearing
    BY <1>1 DEF ClearRound
  <1>4. o \in alive /\ o \in Objects /\ top[o] \in Heads
    BY <1>1, <1>3, HeadFacts DEF Tidy, Holders
  <1>5. Forest(d, Heads \ {top[o]}) /\ \A g \in Heads \ {top[o]} : d[g] = p[g]
    BY <1>4, DestroyForest DEF Tidy
  <1>6. Relinked(d, d, Heads \ {top[o]})
    BY <1>5, KeptSame
  <1> HIDE DEF d
  <1>7. /\ Tidy' /\ Abstract!Next /\ \A x \in Objects \ {o, b} : top'[x] = top[x]
    BY <1>1, <1>2, <1>6, ClearRoundStep DEF d
  <1>8. handle' \in [Objects -> Consumers \cup {None}] /\ \A x \in Objects \ {o, b} : handle'[x] = handle[x]
    BY <1>1, <1>4 DEF ChannelInv, Exchanged
  <1>9. StayValid({b})
    <2> SUFFICES ASSUME NEW c \in Consumers, NEW x \in Objects, x # b, ValidIterator(c, x) PROVE ValidIterator(c, x)'
      BY DEF StayValid
    <2>1. x # o /\ top[x] # None /\ x \in alive
      BY <1>1 DEF ValidIterator
    <2>2. top[x] \in Heads \ {top[o]}
      BY <1>4, <2>1, HeadFacts DEF Tidy, Holders
    <2>3. p'[top[x]] = p[top[x]]
      BY <1>3, <1>5, <2>2
    <2> QED
      BY <1>3, <1>7, <1>8, <2>1, <2>3 DEF ValidIterator
  <1>10. \A x \in {b} : x \notin Busy
    BY <1>2
  <1>11. ChannelInv'
    BY <1>1, <1>8, <1>9, <1>10, IteratorsKept
  <1> QED
    BY <1>7, <1>11 DEF AbstractStep

\* The end of clear(), reset() and the destructor.
LEMMA ChannelCleared ==
  ASSUME Tidy, ChannelInv, iter' = iter, C!ClearDone, UNCHANGED C!own
  PROVE  Tidy' /\ ChannelInv' /\ AbstractStep
  <1> DEFINE o == clearing.obj
  <1>1. ClearDone /\ handle' = handle /\ awaits' = awaits /\ it' = it
    BY SameActions DEF C!own
  <1>2. Busy' = Busy
    BY <1>1, ChannelBusy
  <1>3. /\ Tidy' /\ AbstractStep /\ o \in Objects /\ clearing # None
        /\ p' = p /\ \A x \in Objects \ {o} : top'[x] = top[x]
    BY <1>1, <1>2, ClearDoneStep
  <1>4. (\A x \in alive : x # o => x \in alive') /\ clearing' = None
    BY <1>1 DEF ClearDone, ClearEnds
  <1>5. StayValid({})
    BY <1>1, <1>3, <1>4 DEF StayValid, ValidIterator
  <1>6. handle' \in [Objects -> Consumers \cup {None}]
    BY <1>1 DEF ChannelInv
  <1>7. ChannelInv'
    BY <1>1, <1>5, <1>6, IteratorsStay
  <1> QED
    BY <1>3, <1>7

\* The default constructor.
LEMMA ChannelConstructs ==
  ASSUME Tidy, ChannelInv, iter' = iter, NEW o \in Objects, C!ConstructEmpty(o)
  PROVE  Tidy' /\ ChannelInv' /\ AbstractStep
  <1>1. Construct(o) /\ handle' = [handle EXCEPT ![o] = None] /\ awaits' = awaits /\ it' = it
    BY SameActions DEF C!ConstructEmpty
  <1>2. Busy' = Busy
    BY <1>1, ChannelBusy
  <1>3. Tidy' /\ UNCHANGED Abstract!vars
    BY <1>1, <1>2, ConstructStep
  <1>4. o \notin alive /\ alive' = alive \cup {o} /\ top' = top /\ p' = p /\ clearing' = clearing
    BY <1>1 DEF Construct
  <1>5. handle' \in [Objects -> Consumers \cup {None}] /\ \A x \in Objects \ {o} : handle'[x] = handle[x]
    BY <1>1 DEF ChannelInv
  <1>6. StayValid({})
    BY <1>4, <1>5 DEF StayValid, ValidIterator
  <1>7. ChannelInv'
    BY <1>1, <1>5, <1>6, IteratorsStay
  <1> QED
    BY <1>3, <1>7 DEF AbstractStep

\* release()
LEMMA ChannelReleases ==
  ASSUME Tidy, ChannelInv, iter' = iter, NEW o \in Objects, C!ReleaseFrom(o)
  PROVE  Tidy' /\ ChannelInv' /\ AbstractStep
  <1>1. /\ C!Resting(o) /\ Release(o) /\ handle' = handle /\ awaits' = awaits
        /\ it' = [c \in Consumers |-> IF it[c] \in {o} THEN None ELSE it[c]]
    BY SameActions DEF C!ReleaseFrom, C!Invalidated
  <1>2. o \notin Busy /\ Busy' = Busy
    BY <1>1, ChannelRests, ChannelBusy
  <1>3. Tidy' /\ Abstract!Next /\ p' = p /\ \A x \in Objects \ {o} : top'[x] = top[x]
    BY <1>1, <1>2, ReleaseStep
  <1>4. alive' = alive /\ clearing' = clearing
    BY <1>1 DEF Release
  <1>5. StayValid({o})
    BY <1>1, <1>3, <1>4 DEF StayValid, ValidIterator
  <1>6. (\A x \in {o} : x \notin Busy) /\ handle' \in [Objects -> Consumers \cup {None}]
    BY <1>1, <1>2 DEF ChannelInv
  <1>7. ChannelInv'
    BY <1>1, <1>5, <1>6, IteratorsKept
  <1> QED
    BY <1>3, <1>7 DEF AbstractStep

\* destroy() of a released handle.
LEMMA ChannelDestroysReleased ==
  ASSUME Tidy, ChannelInv, iter' = iter, NEW f \in Frames, C!DestroyReleased(f), UNCHANGED C!own
  PROVE  Tidy' /\ ChannelInv' /\ AbstractStep
  <1>1. DestroyReleased(f) /\ handle' = handle /\ awaits' = awaits /\ it' = it
    BY SameActions DEF C!own
  <1>2. Busy' = Busy
    BY <1>1, ChannelBusy
  <1>3. /\ Tidy' /\ AbstractStep /\ \A g \in Heads \ {f} : p'[g] = p[g]
        /\ \A x \in Objects : top'[x] = top[x] /\ top[x] # f
    BY <1>1, <1>2, DestroyReleasedStep
  <1>4. alive' = alive /\ clearing' = clearing
    BY <1>1 DEF DestroyReleased
  <1>5. StayValid({})
    <2> SUFFICES ASSUME NEW c \in Consumers, NEW x \in Objects, ValidIterator(c, x) PROVE ValidIterator(c, x)'
      BY DEF StayValid
    <2>1. top[x] \in Heads \ {f}
      BY <1>3, HeadFacts DEF ValidIterator
    <2> QED
      BY <1>1, <1>3, <1>4, <2>1 DEF ValidIterator
  <1>6. handle' \in [Objects -> Consumers \cup {None}]
    BY <1>1 DEF ChannelInv
  <1>7. ChannelInv'
    BY <1>1, <1>5, <1>6, IteratorsStay
  <1> QED
    BY <1>3, <1>7

\* A step of the consumer alone.
LEMMA ChannelRemains ==
  ASSUME Tidy, ChannelInv, iter' = iter, UNCHANGED <<chain, handle, awaits, it>>
  PROVE  Tidy' /\ ChannelInv' /\ AbstractStep
  <1>1. Tidy' /\ UNCHANGED Abstract!vars
    BY NothingStep
  <1>2. StayValid({})
    BY DEF StayValid, ValidIterator, chain
  <1>3. handle' \in [Objects -> Consumers \cup {None}]
    BY DEF ChannelInv
  <1>4. ChannelInv'
    BY <1>2, <1>3, IteratorsStay
  <1> QED
    BY <1>1, <1>4 DEF AbstractStep

\* Every step of a channel.
LEMMA ChannelStep ==
  ASSUME Tidy, ChannelInv, iter' = iter, ~IteratorsSurviveSwap, C!Next
  PROVE  Tidy' /\ ChannelInv' /\ AbstractStep
  <1>1. CASE C!ClearDone /\ UNCHANGED C!own
    BY <1>1, ChannelCleared
  <1>2. ASSUME NEW o \in Objects, C!ConstructEmpty(o) \/ C!ReleaseFrom(o) \/ C!TakeException(o) \/ C!ClearRoundOf(o)
        PROVE  Tidy' /\ ChannelInv' /\ AbstractStep
    <2>1. CASE C!ConstructEmpty(o)
      BY <2>1, ChannelConstructs
    <2>2. CASE C!ReleaseFrom(o)
      BY <2>2, ChannelReleases
    <2>3. CASE C!TakeException(o)
      BY <2>3, ChannelRemains DEF C!TakeException, C!chain, chain
    <2>4. CASE C!ClearRoundOf(o)
      BY <2>4, ChannelClearsOne
    <2> QED
      BY <1>2, <2>1, <2>2, <2>3, <2>4
  <1>3. ASSUME NEW o \in Objects, C!Clear(o, "clear", None) \/ C!Clear(o, "destroy", None)
        PROVE  Tidy' /\ ChannelInv' /\ AbstractStep
    BY <1>3, ChannelClears
  <1>4. ASSUME NEW o \in Objects, NEW f \in Frames, C!Create(o, f) \/ C!YieldElementsOf(f, o) \/ C!Clear(o, "reset", f)
        PROVE  Tidy' /\ ChannelInv' /\ AbstractStep
    BY <1>4, ChannelCreates, ChannelNests, ChannelClears
  <1>5. ASSUME NEW o \in Objects, NEW b \in Objects, C!Swap(o, b) PROVE Tidy' /\ ChannelInv' /\ AbstractStep
    BY <1>5, ChannelSwaps
  <1>6. ASSUME NEW o \in Objects, NEW c \in Consumers, C!Begin(c, o) PROVE Tidy' /\ ChannelInv' /\ AbstractStep
    BY <1>6, ChannelBegins
  <1>7. ASSUME NEW c \in Consumers, C!Increment(c) PROVE Tidy' /\ ChannelInv' /\ AbstractStep
    BY <1>7, ChannelIncrements
  <1>8. ASSUME NEW f \in Frames, C!Yield(f) \/ C!Return(f) \/ C!Throw(f)
        PROVE  Tidy' /\ ChannelInv' /\ AbstractStep
    BY <1>8, ChannelYields, ChannelReturns, ChannelThrows
  <1>9. ASSUME NEW f \in Frames, C!DestroyReleased(f), UNCHANGED C!own
        PROVE  Tidy' /\ ChannelInv' /\ AbstractStep
    BY <1>9, ChannelDestroysReleased
  <1>10. CASE C!Terminated
    BY <1>10, ChannelRemains DEF C!Terminated, C!vars, C!chain, C!own, chain
  <1> QED
    BY <1>1, <1>2, <1>3, <1>4, <1>5, <1>6, <1>7, <1>8, <1>9, <1>10 DEF C!Next
-----------------------------------------------------------------------------
allVars == <<which, chain, iter, channelVars, resourceVars>>

\* There is no frame and no object at first.
LEMMA InitInv == MCInit => Inv /\ Abstract!Init
  <1> SUFFICES ASSUME MCInit PROVE Inv /\ Abstract!Init
    OBVIOUS
  <1>1. /\ alive = {} /\ top = [o \in Objects |-> None] /\ current = [o \in Objects |-> None]
        /\ p = [f \in Frames |-> NoFrame(f)] /\ clearing = None /\ released = {} /\ iter = None
        /\ handle = [o \in Objects |-> None] /\ awaits = [c \in Consumers |-> None]
        /\ it = [c \in Consumers |-> None]
    BY DEF MCInit, Init, ChainInit, C!Init
  <1>2. Busy = {} /\ Heads = {}
    BY <1>1 DEF Busy, Heads
  <1>3. p \in [Frames -> Promise] /\ \A x \in Frames : p[x].st = "free" /\ p[x].leaf = None
    BY <1>1 DEF NoFrame, Promise, LinkTypes
  <1>4. Forest(p, Heads)
    BY <1>2, <1>3 DEF Forest
  <1>5. Tidy
    BY <1>1, <1>2, <1>4 DEF Tidy, Holders, Workers
  <1>6. GeneratorInv /\ ChannelInv
    BY <1>1 DEF GeneratorInv, ChannelInv
  <1>7. Stack = [o \in Objects |-> <<>>] /\ Value = [o \in Objects |-> None] /\ Loose = {}
    BY <1>1, StackIs, StackInNone DEF Value
  <1>8. Abstract!Init
    BY <1>2, <1>7 DEF Abstract!Init, Stack, Value, Loose, Busy
  <1> QED
    BY <1>5, <1>6, <1>8 DEF Inv

\* Every step of either program keeps the invariant and is one of the abstract
\* specification, or none.
LEMMA StepInv ==
  ASSUME ~IteratorsSurviveSwap, Inv, [MCNext]_allVars
  PROVE  Inv' /\ [Abstract!Next]_(Abstract!vars)
  <1>1. CASE which = "generator" /\ Next /\ UNCHANGED <<which, channelVars, resourceVars>>
    <2>1. Tidy /\ GeneratorInv /\ awaits' = awaits /\ which' = which /\ which # "channel"
      BY <1>1 DEF Inv, channelVars
    <2>2. Tidy' /\ GeneratorInv' /\ AbstractStep
      BY <1>1, <2>1, GeneratorStep
    <2> QED
      BY <2>1, <2>2 DEF Inv, AbstractStep
  <1>2. CASE which = "channel" /\ C!Next /\ UNCHANGED <<which, iter, resourceVars>>
    <2>1. Tidy /\ ChannelInv /\ iter' = iter /\ which' = which
      BY <1>2 DEF Inv
    <2>2. Tidy' /\ ChannelInv' /\ AbstractStep
      BY <1>2, <2>1, ChannelStep
    <2> QED
      BY <1>2, <2>1, <2>2 DEF Inv, AbstractStep
  <1>3. CASE UNCHANGED <<which, chain, iter, channelVars>>
    <2>1. which' = which /\ UNCHANGED <<chain, iter, awaits>> /\ UNCHANGED <<chain, handle, awaits, it>>
      BY <1>3 DEF channelVars
    <2>2. Tidy' /\ UNCHANGED Abstract!vars
      BY <2>1, NothingStep DEF Inv
    <2>3. GeneratorInv => GeneratorInv'
      BY <2>1 DEF GeneratorInv, chain
    <2>4. ChannelInv => ChannelInv'
      BY <2>1, ChannelRemains DEF Inv
    <2> QED
      BY <2>1, <2>2, <2>3, <2>4 DEF Inv
  <1> QED
    BY <1>1, <1>2, <1>3 DEF MCNext, allVars

\* Inv is an invariant.
LEMMA Invariance == ASSUME ~IteratorsSurviveSwap PROVE MCSpec => []Inv
  <1>1. MCInit => Inv
    BY InitInv
  <1>2. Inv /\ [MCNext]_allVars => Inv'
    BY StepInv
  <1> QED
    BY <1>1, <1>2, PTL DEF MCSpec, allVars

\* Through every sequence of iterations, elements_of, swaps, releases and nested
\* clear() calls, a frame of a generator or channel that exists has one holder: an
\* object that is alive, a released handle, or the promise whose leaf it is.  None
\* leaks and none is destroyed twice.
THEOREM FramesAreHeldOnce == ASSUME ~IteratorsSurviveSwap PROVE MCSpec => []FramesHaveOneHolder
  <1>1. Inv => FramesHaveOneHolder
    BY OneHolder DEF Inv
  <1> QED
    BY <1>1, Invariance, PTL

\* What the valid iterators of the invariant say of the frame that works.
LEMMA WorkerReports == Inv => WorkerReportsToConsumer
  <1> SUFFICES ASSUME Inv PROVE C!WorkerReportsToConsumer
    BY DEF WorkerReportsToConsumer
  <1> SUFFICES ASSUME NEW c \in Consumers, awaits[c] # None, NEW o, o = awaits[c], NEW w, w = p[top[o]].worker
               PROVE  C!Running(w) /\ C!ConsumerOf(w) = o /\ handle[o] = c
    BY DEF C!WorkerReportsToConsumer
  <1>1. Tidy /\ ChannelInv
    BY DEF Inv, GeneratorInv
  <1>2. o \in Busy
    BY DEF Busy
  <1>3. ValidIterator(c, o)
    BY <1>1 DEF ChannelInv
  <1>4. top[o] \in Heads /\ Active(p, top[o])
    BY <1>1, <1>2, HeadFacts DEF Tidy, Workers, Holders
  <1>5. Shape(p, top[o], Chain(p, top[o]))
    BY <1>1, <1>4 DEF Tidy, Forest
  <1>6. p[w].root = top[o]
    BY <1>5 DEF Shape
  <1> QED
    BY <1>3, <1>4, <1>6 DEF ValidIterator, Active, C!Running, C!ConsumerOf

\* The innermost frame that runs while a consumer is suspended in co_await finds,
\* from its root and the link there, the channel which this consumer awaits: the
\* value is shown there and this consumer is resumed.
THEOREM WorkersReport == ASSUME ~IteratorsSurviveSwap PROVE MCSpec => []WorkerReportsToConsumer
  BY WorkerReports, Invariance, PTL

\* The chains of promises, with their roots, owners and lazily destroyed leaves,
\* implement a stack of coroutines per range: attach_leaf pushes, skip_this_leaf
\* and the end of a leaf pop, and only the innermost coroutine produces values.
THEOREM LeavesAreAStack == ASSUME ~IteratorsSurviveSwap PROVE MCSpec => LeavesFormAStack
  <1>1. MCInit => Abstract!Init
    BY InitInv
  <1>2. Inv /\ [MCNext]_allVars => [Abstract!Next]_(Abstract!vars)
    BY StepInv
  <1> QED
    BY <1>1, <1>2, Invariance, PTL DEF MCSpec, allVars, LeavesFormAStack, Abstract!Spec
=============================================================================
