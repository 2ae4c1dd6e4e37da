--------------------------- MODULE RoadGateProofs ---------------------------
(***************************************************************************)
(* Proofs about Road and Gate, for any number of coroutines.  On a road    *)
(* one at a time closes it, and nobody waits on an open one, whatever the  *)
(* nesting of open() calls inside of each other.  close() of a gate        *)
(* returns with the gate closed and empty, and who waits for it is woken   *)
(* by somebody, although leave() resumes the waiters itself and they use   *)
(* the gate before the others are resumed.  Both have the call stack of    *)
(* the thread, with its lists of coroutines to be resumed: the lemmas      *)
(* about stacks and lists are shared.                                      *)
(***************************************************************************)
EXTENDS MCRoadGate, FiniteSetTheorems, SequenceTheorems, TLAPS

\* What the thread may have on its stack, and the d-th of it from the bottom.
StackFrames == ({"co"} \X Coros) \cup ({"walk"} \X Seq(Coros))
At(s, d)     == s[Len(s) + 1 - d]
Listed(s, d) == IF At(s, d)[1] = "walk" THEN At(s, d)[2] ELSE <<>>

Once(list)   == \A i, k \in DOMAIN list : list[i] = list[k] => i = k
Disjoint(l, m) == R!Elements(l) \cap R!Elements(m) = {}

\* A coroutine is on the stack once, and only while it is executed.
Suspended == {"out", "waiting", "paused"}
StackFine(s, f) ==
  /\ s \in Seq(StackFrames)
  /\ \A d, e \in 1 .. Len(s) : At(s, d) = At(s, e) /\ At(s, d)[1] = "co" => d = e
  /\ \A d \in 1 .. Len(s) : At(s, d)[1] = "co" => f[At(s, d)[2]] \notin Suspended
RoadStackOK == StackFine(roadStack, roadCo)

\* Between its wakeup and open() a coroutine is on top of the stack whenever it
\* is not suspended with the road closed: it is not interrupted.
Uninterrupted ==
  \A c \in Coros : roadCo[c] \in {"woken", "retry", "passed", "inside"} => R!Executes(c)

\* A coroutine that waits is in one of the lists, at one place in it.
RoadEachOnce ==
  /\ Once(roadWaiters) /\ Once(queue) /\ Disjoint(roadWaiters, queue)
  /\ \A d \in 1 .. Len(roadStack) : /\ Once(Listed(roadStack, d))
                                    /\ Disjoint(Listed(roadStack, d), roadWaiters)
                                    /\ Disjoint(Listed(roadStack, d), queue)
  /\ \A d, e \in 1 .. Len(roadStack) : d # e => Disjoint(Listed(roadStack, d), Listed(roadStack, e))

RoadListedWait ==
  /\ \A c \in R!Elements(roadWaiters) : roadCo[c] = "waiting"
  /\ \A c \in R!Elements(queue) : roadCo[c] = "waiting"
  /\ \A d \in 1 .. Len(roadStack) : \A c \in R!Elements(Listed(roadStack, d)) : roadCo[c] = "waiting"

\* The road is closed by somebody, who is inside or suspended.
ClosedBySomebody == roadClosed <=> \E c \in Coros : roadCo[c] \in {"inside", "paused"}

RoadTypes ==
  /\ inline \in BOOLEAN /\ roadClosed \in BOOLEAN
  /\ roadWaiters \in Seq(Coros) /\ queue \in Seq(Coros)
  /\ roadCo \in [Coros -> {"out", "running", "waiting", "woken", "retry", "passed", "inside", "paused"}]
  /\ (inline => queue = <<>>)

\* The inductive invariant: RoadInv does not tell that the lists are disjoint.
RoadInductive ==
  /\ RoadTypes /\ RoadStackOK /\ Uninterrupted /\ RoadEachOnce /\ RoadListedWait
  /\ ClosedBySomebody /\ R!OnlyOneCloses /\ R!WaitersWaitForSomebody
-----------------------------------------------------------------------------
(***************************************************************************)
(* Lists.                                                                  *)
(***************************************************************************)
LEMMA AppendList ==
  ASSUME NEW list \in Seq(Coros), NEW c \in Coros
  PROVE  /\ R!Elements(Append(list, c)) = R!Elements(list) \cup {c}
         /\ Once(list) /\ c \notin R!Elements(list) => Once(Append(list, c))
  BY DEF R!Elements, Once

LEMMA ConcatList ==
  ASSUME NEW l \in Seq(Coros), NEW m \in Seq(Coros)
  PROVE  /\ l \o m \in Seq(Coros)
         /\ R!Elements(l \o m) = R!Elements(l) \cup R!Elements(m)
         /\ Once(l) /\ Once(m) /\ Disjoint(l, m) => Once(l \o m)
  <1>1. /\ l \o m \in Seq(Coros) /\ Len(l \o m) = Len(l) + Len(m)
        /\ \A i \in 1 .. Len(l) : (l \o m)[i] = l[i]
        /\ \A i \in 1 .. Len(m) : (l \o m)[Len(l) + i] = m[i]
    OBVIOUS
  <1>2. \A i \in 1 .. Len(l \o m) :
          i \in 1 .. Len(l) \/ \E k \in 1 .. Len(m) : i = Len(l) + k
    <2> SUFFICES ASSUME NEW i \in 1 .. Len(l \o m), i \notin 1 .. Len(l)
                 PROVE  \E k \in 1 .. Len(m) : i = Len(l) + k
      OBVIOUS
    <2>1. i - Len(l) \in 1 .. Len(m) /\ i = Len(l) + (i - Len(l))
      BY <1>1
    <2> QED
      BY <2>1
  <1>3. R!Elements(l \o m) = R!Elements(l) \cup R!Elements(m)
    <2>1. R!Elements(l \o m) \subseteq R!Elements(l) \cup R!Elements(m)
      BY <1>1, <1>2 DEF R!Elements
    <2>2. R!Elements(l) \subseteq R!Elements(l \o m)
      BY <1>1 DEF R!Elements
    <2>3. ASSUME NEW i \in 1 .. Len(m) PROVE m[i] \in R!Elements(l \o m)
      <3>1. Len(l) + i \in DOMAIN (l \o m)
        BY <1>1
      <3> QED
        BY <1>1, <3>1 DEF R!Elements
    <2> QED
      BY <2>1, <2>2, <2>3, SMTT(30) DEF R!Elements
  <1>4. ASSUME Once(l), Once(m), Disjoint(l, m) PROVE Once(l \o m)
    <2> SUFFICES ASSUME NEW i \in 1 .. Len(l \o m), NEW k \in 1 .. Len(l \o m),
                        (l \o m)[i] = (l \o m)[k]
                 PROVE  i = k
      BY <1>1 DEF Once
    <2>1. \A a \in 1 .. Len(l), b \in 1 .. Len(m) : l[a] # m[b]
      BY <1>4, SMTT(30) DEF R!Elements, Disjoint
    <2>2. CASE i \in 1 .. Len(l) /\ k \in 1 .. Len(l)
      BY <1>1, <1>4, <2>2 DEF Once
    <2>3. CASE i \notin 1 .. Len(l) /\ k \notin 1 .. Len(l)
      <3>1. PICK a \in 1 .. Len(m), b \in 1 .. Len(m) : i = Len(l) + a /\ k = Len(l) + b
        BY <1>2, <2>3
      <3>2. m[a] = m[b]
        BY <1>1, <3>1
      <3> QED
        BY <1>4, <3>1, <3>2 DEF Once
    <2>4. CASE i \in 1 .. Len(l) <=> k \notin 1 .. Len(l)
      BY <1>1, <1>2, <2>1, <2>4
    <2> QED
      BY <2>2, <2>3, <2>4
  <1> QED
    BY <1>1, <1>3, <1>4

LEMMA TailList ==
  ASSUME NEW list \in Seq(Coros), list # <<>>
  PROVE  /\ Head(list) \in Coros /\ Tail(list) \in Seq(Coros)
         /\ R!Elements(list) = {Head(list)} \cup R!Elements(Tail(list))
         /\ Once(list) => Once(Tail(list)) /\ Head(list) \notin R!Elements(Tail(list))
  <1>1. /\ Head(list) \in Coros /\ Tail(list) \in Seq(Coros)
        /\ Len(list) \in Nat \ {0} /\ Len(Tail(list)) = Len(list) - 1
        /\ Head(list) = list[1]
        /\ \A i \in 1 .. Len(list) - 1 : Tail(list)[i] = list[i + 1]
    OBVIOUS
  <1>2. \A i \in 1 .. Len(list) : i = 1 \/ \E k \in 1 .. Len(list) - 1 : i = k + 1
    <2> SUFFICES ASSUME NEW i \in 1 .. Len(list), i # 1
                 PROVE  \E k \in 1 .. Len(list) - 1 : i = k + 1
      OBVIOUS
    <2>1. i - 1 \in 1 .. Len(list) - 1 /\ i = (i - 1) + 1
      OBVIOUS
    <2> QED
      BY <2>1
  <1>3. R!Elements(list) = {Head(list)} \cup R!Elements(Tail(list))
    <2>1. DOMAIN Tail(list) = 1 .. Len(list) - 1 /\ DOMAIN list = 1 .. Len(list)
      BY <1>1
    <2>2. ASSUME NEW i \in DOMAIN list, i # 1 PROVE list[i] \in R!Elements(Tail(list))
      <3>1. PICK k \in 1 .. Len(list) - 1 : i = k + 1
        BY <1>2, <2>1, <2>2
      <3>2. k \in DOMAIN Tail(list) /\ list[i] = Tail(list)[k]
        BY <1>1, <2>1, <3>1
      <3> QED
        BY <3>2 DEF R!Elements
    <2>3. ASSUME NEW k \in DOMAIN Tail(list) PROVE Tail(list)[k] \in R!Elements(list)
      <3>1. k + 1 \in DOMAIN list /\ Tail(list)[k] = list[k + 1]
        BY <1>1, <2>1
      <3> QED
        BY <3>1 DEF R!Elements
    <2>4. Head(list) \in R!Elements(list)
      <3>1. 1 \in DOMAIN list
        BY <1>1, <2>1
      <3> QED
        BY <1>1, <3>1 DEF R!Elements
    <2> QED
      BY <1>1, <2>2, <2>3, <2>4 DEF R!Elements
  <1>4. ASSUME Once(list)
        PROVE  Once(Tail(list)) /\ Head(list) \notin R!Elements(Tail(list))
    BY <1>1, <1>4, SMTT(30) DEF R!Elements, Once
  <1> QED
    BY <1>1, <1>3, <1>4

LEMMA EmptyList == R!Elements(<<>>) = {} /\ Once(<<>>)
  BY DEF R!Elements, Once
-----------------------------------------------------------------------------
(***************************************************************************)
(* The stack: pushing and popping leave the frames below as they are.      *)
(***************************************************************************)
LEMMA PushFrame ==
  ASSUME NEW s \in Seq(StackFrames), NEW x \in StackFrames
  PROVE  /\ <<x>> \o s \in Seq(StackFrames)
         /\ Len(<<x>> \o s) = Len(s) + 1
         /\ At(<<x>> \o s, Len(s) + 1) = x
         /\ \A d \in 1 .. Len(s) : At(<<x>> \o s, d) = At(s, d)
  BY DEF At

LEMMA PopFrame ==
  ASSUME NEW s \in Seq(StackFrames), s # <<>>
  PROVE  /\ Len(s) \in Nat \ {0}
         /\ s[1] \in StackFrames /\ At(s, Len(s)) = s[1]
         /\ Tail(s) \in Seq(StackFrames)
         /\ Len(Tail(s)) = Len(s) - 1
         /\ \A d \in 1 .. Len(s) - 1 : At(Tail(s), d) = At(s, d)
  BY DEF At

LEMMA FrameAt ==
  ASSUME NEW s \in Seq(StackFrames), NEW d \in 1 .. Len(s)
  PROVE  At(s, d) \in StackFrames /\ Listed(s, d) \in Seq(Coros)
  <1>1. At(s, d) \in StackFrames
    BY DEF At
  <1> QED
    BY <1>1 DEF Listed, StackFrames

\* The top frame is popped; who was below goes on.
LEMMA PopFine ==
  ASSUME NEW s, NEW f, NEW g, StackFine(s, f), s # <<>>,
         \A b \in Coros : s[1] # <<"co", b>> => g[b] = f[b] \/ g[b] \notin Suspended
  PROVE  StackFine(Tail(s), g)
  <1>1. /\ s \in Seq(StackFrames)
        /\ \A d, e \in 1 .. Len(s) : At(s, d) = At(s, e) /\ At(s, d)[1] = "co" => d = e
        /\ \A d \in 1 .. Len(s) : At(s, d)[1] = "co" => f[At(s, d)[2]] \notin Suspended
    BY DEF StackFine
  <1>2. /\ Len(s) \in Nat \ {0} /\ At(s, Len(s)) = s[1]
        /\ Tail(s) \in Seq(StackFrames) /\ Len(Tail(s)) = Len(s) - 1
        /\ \A d \in 1 .. Len(s) - 1 : At(Tail(s), d) = At(s, d)
    BY <1>1, PopFrame
  <1>3. Len(s) \in 1 .. Len(s) /\ \A d \in 1 .. Len(s) - 1 : d \in 1 .. Len(s) /\ d # Len(s)
    <2>1. ASSUME NEW m \in Nat \ {0} PROVE m \in 1 .. m /\ \A d \in 1 .. m - 1 : d \in 1 .. m /\ d # m
      OBVIOUS
    <2> QED
      BY <1>2, <2>1
  <1>4. ASSUME NEW d \in 1 .. Len(s) - 1, At(s, d)[1] = "co" PROVE g[At(s, d)[2]] \notin Suspended
    <2>1. At(s, d) \in StackFrames /\ At(s, d) # s[1]
      BY <1>1, <1>2, <1>3, <1>4, FrameAt
    <2>2. PICK b \in Coros : At(s, d) = <<"co", b>>
      BY <1>4, <2>1 DEF StackFrames
    <2> QED
      BY <1>1, <1>3, <2>1, <2>2, SMTT(30)
  <1> QED
    BY <1>1, <1>2, <1>3, <1>4 DEF StackFine

\* A loop is pushed, or a coroutine that is on the stack no more than it runs.
LEMMA PushFine ==
  ASSUME NEW s, NEW f, NEW g, StackFine(s, f), NEW x \in StackFrames,
         \A b \in Coros : f[b] \notin Suspended => g[b] \notin Suspended,
         \A b \in Coros : x = <<"co", b>> => f[b] \in Suspended /\ g[b] \notin Suspended
  PROVE  StackFine(<<x>> \o s, g)
  <1> DEFINE t == <<x>> \o s
  <1>1. /\ s \in Seq(StackFrames)
        /\ \A d, e \in 1 .. Len(s) : At(s, d) = At(s, e) /\ At(s, d)[1] = "co" => d = e
        /\ \A d \in 1 .. Len(s) : At(s, d)[1] = "co" => f[At(s, d)[2]] \notin Suspended
    BY DEF StackFine
  <1>2. /\ t \in Seq(StackFrames) /\ Len(t) = Len(s) + 1 /\ Len(s) \in Nat
        /\ At(t, Len(s) + 1) = x
        /\ \A d \in 1 .. Len(s) : At(t, d) = At(s, d)
    BY <1>1, PushFrame
  <1>3. \A d \in 1 .. Len(t) : d \in 1 .. Len(s) \/ d = Len(s) + 1
    BY <1>2
  <1>4. \A y \in StackFrames : y[1] = "co" => \E b \in Coros : y = <<"co", b>> /\ y[2] = b
    BY DEF StackFrames
  <1>5. \A d \in 1 .. Len(s) : At(s, d) \in StackFrames
    BY <1>1, FrameAt
  <1>6. \A d \in 1 .. Len(s) : At(s, d) = x => x[1] # "co"
    BY <1>1, <1>4, <1>5
  <1>7. \A d \in 1 .. Len(t) : At(t, d)[1] = "co" => g[At(t, d)[2]] \notin Suspended
    BY <1>1, <1>2, <1>3, <1>4, <1>5
  <1>8. \A d, e \in 1 .. Len(t) : At(t, d) = At(t, e) /\ At(t, d)[1] = "co" => d = e
    <2> HIDE DEF t
    <2> QED
      BY <1>1, <1>2, <1>3, <1>6
  <1> QED
    BY <1>2, <1>7, <1>8 DEF StackFine

\* Popped in terms of depths, for any stack and queue.
LEMMA PoppedListed ==
  ASSUME NEW s \in Seq(StackFrames), NEW q
  PROVE  \A c : c \in R!Elements(q) \cup
                    UNION {R!Elements(s[k][2]) : k \in {j \in DOMAIN s : s[j][1] = "walk"}} <=>
           \/ c \in R!Elements(q)
           \/ \E d \in 1 .. Len(s) : c \in R!Elements(Listed(s, d))
  <1>1. ASSUME NEW c, NEW k \in DOMAIN s, s[k][1] = "walk", c \in R!Elements(s[k][2])
        PROVE  \E d \in 1 .. Len(s) : c \in R!Elements(Listed(s, d))
    <2>1. Len(s) + 1 - k \in 1 .. Len(s) /\ At(s, Len(s) + 1 - k) = s[k]
      BY <1>1 DEF At
    <2> QED
      BY <1>1, <2>1 DEF Listed
  <1>2. ASSUME NEW c, NEW d \in 1 .. Len(s), c \in R!Elements(Listed(s, d))
        PROVE  \E k \in DOMAIN s : s[k][1] = "walk" /\ c \in R!Elements(s[k][2])
    <2>1. Len(s) + 1 - d \in DOMAIN s /\ At(s, d) = s[Len(s) + 1 - d]
      BY DEF At
    <2> QED
      BY <1>2, <2>1, EmptyList DEF Listed
  <1> QED
    BY <1>1, <1>2

\* Who is in a list is a coroutine that waits.
LEMMA RoadListsHoldWaiting ==
  ASSUME RoadInductive
  PROVE  /\ \A c \in R!Elements(roadWaiters) : c \in Coros /\ roadCo[c] = "waiting"
         /\ \A c \in R!Elements(queue) : c \in Coros /\ roadCo[c] = "waiting"
         /\ \A d \in 1 .. Len(roadStack) : \A c \in R!Elements(Listed(roadStack, d)) :
              c \in Coros /\ roadCo[c] = "waiting"
  <1>1. \A l \in Seq(Coros) : \A c \in R!Elements(l) : c \in Coros
    BY DEF R!Elements
  <1> QED
    BY <1>1, FrameAt DEF RoadInductive, RoadTypes, RoadStackOK, StackFine, RoadListedWait
-----------------------------------------------------------------------------
LEMMA RoadInitInv == R!Init => RoadInductive
  <1> SUFFICES ASSUME R!Init PROVE RoadInductive
    OBVIOUS
  <1>1. roadStack = <<>> /\ roadWaiters = <<>> /\ queue = <<>> /\ Len(roadStack) = 0
    BY DEF R!Init
  <1>2. RoadTypes /\ RoadStackOK /\ Uninterrupted
    <2>1. <<>> \in Seq(Coros) /\ <<>> \in Seq(StackFrames)
      BY EmptySeq
    <2>2. RoadTypes
      BY <1>1, <2>1 DEF R!Init, RoadTypes
    <2>3. RoadStackOK
      BY <1>1, <2>1 DEF RoadStackOK, StackFine
    <2> QED
      BY <2>2, <2>3 DEF R!Init, Uninterrupted
  <1>3. RoadEachOnce /\ RoadListedWait
    BY <1>1, EmptyList DEF RoadEachOnce, RoadListedWait, Disjoint
  <1>4. roadClosed = FALSE /\ \A c \in Coros : roadCo[c] = "out"
    BY DEF R!Init
  <1>5. ClosedBySomebody /\ R!OnlyOneCloses /\ R!WaitersWaitForSomebody
    BY <1>4 DEF ClosedBySomebody, R!OnlyOneCloses, R!WaitersWaitForSomebody
  <1> QED
    BY <1>2, <1>3, <1>5 DEF RoadInductive

\* What each conjunct of Inv' needs when a coroutine c that is in no list goes
\* on with the same stack and the same lists.
LEMMA SameStackInv ==
  ASSUME RoadInductive, NEW c \in Coros, R!AwaitResume(c) \/ R!Close(c) \/ (R!WaitOpen(c) /\ ~roadClosed)
  PROVE  RoadInductive'
  <1> USE DEF RoadInductive, RoadTypes
  <1>1. /\ UNCHANGED <<inline, roadWaiters, roadStack, queue>>
        /\ R!Executes(c) /\ roadCo[c] \in {"woken", "passed", "running", "retry"}
        /\ roadCo' \in [Coros -> {"out", "running", "waiting", "woken", "retry", "passed", "inside", "paused"}]
        /\ roadCo'[c] \in {"retry", "passed", "inside"}
        /\ \A b \in Coros : b # c => roadCo'[b] = roadCo[b]
        /\ roadClosed' \in BOOLEAN
    BY DEF R!AwaitResume, R!Close, R!WaitOpen
  <1>2. RoadTypes' /\ RoadStackOK'
    <2>1. \A d \in 1 .. Len(roadStack) : At(roadStack, d)[1] = "co" => At(roadStack, d)[2] \in Coros
      BY FrameAt DEF RoadStackOK, StackFine, StackFrames
    <2>2. RoadStackOK'
      BY <1>1, <2>1 DEF RoadStackOK, StackFine, Suspended
    <2> QED
      BY <1>1, <2>2
  <1>3. Uninterrupted'
    BY <1>1 DEF Uninterrupted, R!Executes
  <1>4. RoadEachOnce' /\ RoadListedWait'
    BY <1>1, RoadListsHoldWaiting DEF RoadEachOnce, RoadListedWait
  <1>5. \A b \in Coros : roadCo[b] \in {"passed", "inside"} => b = c
    BY <1>1 DEF Uninterrupted, R!Executes, R!Co
  <1>6. ClosedBySomebody' /\ R!OnlyOneCloses'
    <2>1. CASE R!Close(c)
      <3>1. ~roadClosed /\ roadClosed' /\ roadCo'[c] = "inside"
        BY <2>1 DEF R!Close, R!OnlyOneCloses
      <3> QED
        BY <1>1, <1>5, <3>1 DEF ClosedBySomebody, R!OnlyOneCloses
    <2>2. CASE ~R!Close(c)
      <3>1. roadClosed' = roadClosed /\ roadCo'[c] \in {"retry", "passed"} /\ (roadCo'[c] = "passed" => ~roadClosed)
        BY <2>2 DEF R!AwaitResume, R!WaitOpen
      <3> QED
        BY <1>1, <1>5, <3>1 DEF ClosedBySomebody, R!OnlyOneCloses
    <2> QED
      BY <2>1, <2>2
  <1>7. R!WaitersWaitForSomebody'
    <2>1. R!Popped' = R!Popped
      BY <1>1 DEF R!Popped
    <2>2. (\E b \in Coros : roadCo[b] \in {"inside", "paused"}) => \E b \in Coros : roadCo'[b] \in {"inside", "paused"}
      BY <1>1, SMTT(30)
    <2> QED
      BY <1>1, <2>1, <2>2 DEF R!WaitersWaitForSomebody
  <1> QED
    BY <1>2, <1>3, <1>4, <1>6, <1>7

\* The top frame, which has nobody in its list, is popped.
LEMMA PopStack ==
  ASSUME RoadInductive, roadStack # <<>>, roadStack' = Tail(roadStack), queue' = queue,
         Listed(roadStack, Len(roadStack)) = <<>>
  PROVE  /\ Len(roadStack) \in Nat \ {0} /\ Len(roadStack') = Len(roadStack) - 1
         /\ roadStack' \in Seq(StackFrames)
         /\ \A d \in 1 .. Len(roadStack') : /\ d \in 1 .. Len(roadStack) /\ d # Len(roadStack)
                                            /\ At(roadStack', d) = At(roadStack, d)
                                       /\ Listed(roadStack', d) = Listed(roadStack, d)
         /\ R!Popped' = R!Popped
  <1>1. roadStack \in Seq(StackFrames)
    BY DEF RoadInductive, RoadStackOK, StackFine
  <1>2. /\ Len(roadStack) \in Nat \ {0} /\ Len(roadStack') = Len(roadStack) - 1
        /\ roadStack' \in Seq(StackFrames)
        /\ \A d \in 1 .. Len(roadStack') : At(roadStack', d) = At(roadStack, d)
    BY <1>1, PopFrame
  <1>3. \A d \in 1 .. Len(roadStack') : Listed(roadStack', d) = Listed(roadStack, d)
    BY <1>2 DEF Listed
  <1>4. /\ \A c : c \in R!Popped' <=> \/ c \in R!Elements(queue)
                                      \/ \E d \in 1 .. Len(roadStack') : c \in R!Elements(Listed(roadStack', d))
        /\ \A c : c \in R!Popped <=> \/ c \in R!Elements(queue)
                                     \/ \E d \in 1 .. Len(roadStack) : c \in R!Elements(Listed(roadStack, d))
    BY <1>1, <1>2, PoppedListed DEF R!Popped
  <1>5. ASSUME NEW m \in Nat \ {0}, NEW n, n = m - 1
        PROVE  /\ \A d \in 1 .. m : d \in 1 .. n \/ d = m
               /\ \A d \in 1 .. n : d \in 1 .. m /\ d # m
    BY <1>5
  <1>6. /\ \A d \in 1 .. Len(roadStack) : d \in 1 .. Len(roadStack') \/ d = Len(roadStack)
        /\ \A d \in 1 .. Len(roadStack') : d \in 1 .. Len(roadStack) /\ d # Len(roadStack)
    BY <1>2, <1>5
  <1>7. \A c : c \in R!Popped' <=> c \in R!Popped
    BY <1>3, <1>4, <1>6, EmptyList
  <1>8. R!Popped' = R!Popped
    BY <1>7
  <1> QED
    BY <1>2, <1>3, <1>6, <1>8

\* A frame is pushed.
LEMMA PushStack ==
  ASSUME RoadInductive, NEW x \in StackFrames, roadStack' = <<x>> \o roadStack
  PROVE  /\ Len(roadStack) \in Nat /\ Len(roadStack') = Len(roadStack) + 1
         /\ roadStack' \in Seq(StackFrames)
         /\ Len(roadStack') \in 1 .. Len(roadStack') /\ At(roadStack', Len(roadStack')) = x
         /\ Listed(roadStack', Len(roadStack')) = IF x[1] = "walk" THEN x[2] ELSE <<>>
         /\ \A d \in 1 .. Len(roadStack') : d # Len(roadStack') => d \in 1 .. Len(roadStack)
         /\ \A d \in 1 .. Len(roadStack) : /\ d \in 1 .. Len(roadStack') /\ d # Len(roadStack')
                                           /\ At(roadStack', d) = At(roadStack, d)
                                      /\ Listed(roadStack', d) = Listed(roadStack, d)
  <1>1. roadStack \in Seq(StackFrames) /\ Len(roadStack) \in Nat
    BY DEF RoadInductive, RoadStackOK, StackFine
  <1>2. /\ roadStack' \in Seq(StackFrames) /\ Len(roadStack') = Len(roadStack) + 1
        /\ At(roadStack', Len(roadStack) + 1) = x
        /\ \A d \in 1 .. Len(roadStack) : At(roadStack', d) = At(roadStack, d)
    BY <1>1, PushFrame
  <1>3. /\ Listed(roadStack', Len(roadStack')) = IF x[1] = "walk" THEN x[2] ELSE <<>>
        /\ \A d \in 1 .. Len(roadStack) : Listed(roadStack', d) = Listed(roadStack, d)
    BY <1>2 DEF Listed
  <1>4. ASSUME NEW m \in Nat, NEW n, n = m + 1
        PROVE  /\ n \in 1 .. n /\ \A d \in 1 .. n : d # n => d \in 1 .. m
               /\ \A d \in 1 .. m : d \in 1 .. n /\ d # n
    BY <1>4
  <1>5. /\ Len(roadStack') \in 1 .. Len(roadStack')
        /\ \A d \in 1 .. Len(roadStack') : d # Len(roadStack') => d \in 1 .. Len(roadStack)
        /\ \A d \in 1 .. Len(roadStack) : d \in 1 .. Len(roadStack') /\ d # Len(roadStack')
    BY <1>1, <1>2, <1>4
  <1> QED
    BY <1>1, <1>2, <1>3, <1>5

\* Popped before and after a step, in terms of depths.
LEMMA PoppedBoth ==
  ASSUME roadStack \in Seq(StackFrames), roadStack' \in Seq(StackFrames)
  PROVE  /\ \A c : c \in R!Popped <=>
               c \in R!Elements(queue) \/ \E d \in 1 .. Len(roadStack) : c \in R!Elements(Listed(roadStack, d))
         /\ \A c : c \in R!Popped' <=>
               c \in R!Elements(queue') \/ \E d \in 1 .. Len(roadStack') : c \in R!Elements(Listed(roadStack', d))
  BY PoppedListed DEF R!Popped

\* The top frame of a coroutine that executes, and who executes nothing.
LEMMA TopFrame ==
  ASSUME RoadInductive, roadStack # <<>>
  PROVE  /\ Len(roadStack) \in 1 .. Len(roadStack) /\ roadStack[1] \in StackFrames
         /\ At(roadStack, Len(roadStack)) = roadStack[1]
  BY PopFrame DEF RoadInductive, RoadStackOK, StackFine

\* A coroutine suspends for something else: it is in no list.
LEMMA RoadSuspendInv == ASSUME RoadInductive, NEW c \in Coros, R!Suspend(c) PROVE RoadInductive'
  <1> USE DEF RoadInductive, RoadTypes
  <1>1. /\ roadStack # <<>> /\ roadStack[1] = <<"co", c>> /\ roadStack' = Tail(roadStack)
        /\ UNCHANGED <<inline, roadClosed, roadWaiters, queue>>
        /\ roadCo[c] \in {"running", "inside"}
        /\ roadCo'[c] = IF roadCo[c] = "running" THEN "out" ELSE "paused"
        /\ roadCo' \in [Coros -> {"out", "running", "waiting", "woken", "retry", "passed", "inside", "paused"}]
        /\ \A b \in Coros : b # c => roadCo'[b] = roadCo[b]
    BY DEF R!Suspend, R!Executes, R!Co
  <1>2. At(roadStack, Len(roadStack)) = <<"co", c>> /\ Len(roadStack) \in 1 .. Len(roadStack)
    BY <1>1, TopFrame
  <1>3. Listed(roadStack, Len(roadStack)) = <<>>
    BY <1>2 DEF Listed
  <1>4. /\ Len(roadStack) \in Nat \ {0} /\ Len(roadStack') = Len(roadStack) - 1
        /\ roadStack' \in Seq(StackFrames)
        /\ \A d \in 1 .. Len(roadStack') : /\ d \in 1 .. Len(roadStack) /\ d # Len(roadStack)
                                           /\ At(roadStack', d) = At(roadStack, d)
                                      /\ Listed(roadStack', d) = Listed(roadStack, d)
        /\ R!Popped' = R!Popped
    BY <1>1, <1>3, PopStack
  <1>5. RoadTypes'
    BY <1>1
  <1>6. RoadStackOK'
    <2>1. \A b \in Coros : roadStack[1] # <<"co", b>> => roadCo'[b] = roadCo[b]
      BY <1>1
    <2> QED
      BY <1>1, <2>1, PopFine DEF RoadStackOK
  <1>7. \A b \in Coros : roadCo[b] \in {"woken", "retry", "passed", "inside"} => b = c
    BY <1>1 DEF Uninterrupted, R!Executes, R!Co
  <1>8. /\ \A b \in Coros : roadCo'[b] \notin {"woken", "retry", "passed", "inside"}
        /\ \A b \in Coros : roadCo'[b] \in {"inside", "paused"} <=> roadCo[b] \in {"inside", "paused"}
    BY <1>1, <1>7, SMTT(30)
  <1>12. Uninterrupted'
    BY <1>8 DEF Uninterrupted
  <1>13. ClosedBySomebody'
    BY <1>1, <1>8 DEF ClosedBySomebody
  <1>14. R!OnlyOneCloses'
    BY <1>1, <1>8 DEF R!OnlyOneCloses
  <1>9. RoadEachOnce'
    BY <1>1, <1>4 DEF RoadEachOnce
  <1>10. RoadListedWait'
    <2>1. \A b \in Coros : roadCo[b] = "waiting" => roadCo'[b] = "waiting"
      BY <1>1
    <2>2. (\A b \in R!Elements(roadWaiters') : roadCo'[b] = "waiting") /\ (\A b \in R!Elements(queue') : roadCo'[b] = "waiting")
      BY <1>1, <2>1, RoadListsHoldWaiting
    <2>3. \A d \in 1 .. Len(roadStack') : \A b \in R!Elements(Listed(roadStack', d)) : roadCo'[b] = "waiting"
      BY <1>4, <2>1, RoadListsHoldWaiting, SMTT(30)
    <2> QED
      BY <2>2, <2>3 DEF RoadListedWait
  <1>11. R!WaitersWaitForSomebody'
    BY <1>1, <1>4, <1>8 DEF R!WaitersWaitForSomebody
  <1> QED
    BY <1>5, <1>6, <1>9, <1>10, <1>11, <1>12, <1>13, <1>14

\* A coroutine finds the road closed and becomes the last waiter.
LEMMA RoadWaitInv == ASSUME RoadInductive, NEW c \in Coros, R!WaitOpen(c), roadClosed PROVE RoadInductive'
  <1> USE DEF RoadInductive, RoadTypes
  <1>1. /\ roadStack # <<>> /\ roadStack[1] = <<"co", c>> /\ roadStack' = Tail(roadStack)
        /\ UNCHANGED <<inline, roadClosed, queue>>
        /\ roadWaiters' = Append(roadWaiters, c)
        /\ roadCo[c] \in {"running", "retry"} /\ roadCo'[c] = "waiting"
        /\ roadCo' \in [Coros -> {"out", "running", "waiting", "woken", "retry", "passed", "inside", "paused"}]
        /\ \A b \in Coros : b # c => roadCo'[b] = roadCo[b]
    BY DEF R!WaitOpen, R!Executes, R!Co
  <1>2. At(roadStack, Len(roadStack)) = <<"co", c>> /\ Len(roadStack) \in 1 .. Len(roadStack)
    BY <1>1, TopFrame
  <1>3. Listed(roadStack, Len(roadStack)) = <<>>
    BY <1>2 DEF Listed
  <1>4. /\ Len(roadStack) \in Nat \ {0} /\ Len(roadStack') = Len(roadStack) - 1
        /\ roadStack' \in Seq(StackFrames)
        /\ \A d \in 1 .. Len(roadStack') : /\ d \in 1 .. Len(roadStack) /\ d # Len(roadStack)
                                           /\ At(roadStack', d) = At(roadStack, d)
                                      /\ Listed(roadStack', d) = Listed(roadStack, d)
        /\ R!Popped' = R!Popped
    BY <1>1, <1>3, PopStack
  <1>5. RoadTypes'
    <2>1. roadWaiters' \in Seq(Coros)
      BY <1>1
    <2> QED
      BY <1>1, <2>1
  <1>6. RoadStackOK'
    <2>1. \A b \in Coros : roadStack[1] # <<"co", b>> => roadCo'[b] = roadCo[b]
      BY <1>1
    <2> QED
      BY <1>1, <2>1, PopFine DEF RoadStackOK
  <1>7. \A b \in Coros : roadCo[b] \in {"woken", "retry", "passed", "inside"} => b = c
    BY <1>1 DEF Uninterrupted, R!Executes, R!Co
  <1>8. /\ \A b \in Coros : roadCo'[b] \notin {"woken", "retry", "passed", "inside"}
        /\ \A b \in Coros : roadCo'[b] \in {"inside", "paused"} <=> roadCo[b] \in {"inside", "paused"}
    BY <1>1, <1>7
  <1>9. Uninterrupted'
    BY <1>8 DEF Uninterrupted
  <1>10. ClosedBySomebody'
    BY <1>1, <1>8 DEF ClosedBySomebody
  <1>11. R!OnlyOneCloses'
    BY <1>1, <1>8 DEF R!OnlyOneCloses
  <1>12. /\ R!Elements(roadWaiters') = R!Elements(roadWaiters) \cup {c}
         /\ c \notin R!Elements(roadWaiters) /\ c \notin R!Elements(queue)
         /\ \A d \in 1 .. Len(roadStack) : c \notin R!Elements(Listed(roadStack, d))
    BY <1>1, AppendList, RoadListsHoldWaiting
  <1>13. RoadEachOnce'
    <2>1. Once(roadWaiters') /\ Once(queue')
      BY <1>1, <1>12, AppendList DEF RoadEachOnce
    <2>2. Disjoint(roadWaiters', queue')
      BY <1>1, <1>12 DEF RoadEachOnce, Disjoint
    <2>3. \A d \in 1 .. Len(roadStack') : /\ Once(Listed(roadStack', d))
                                          /\ Disjoint(Listed(roadStack', d), roadWaiters')
                                          /\ Disjoint(Listed(roadStack', d), queue')
      <3> SUFFICES ASSUME NEW d \in 1 .. Len(roadStack')
                   PROVE  /\ Once(Listed(roadStack', d))
                          /\ Disjoint(Listed(roadStack', d), roadWaiters')
                          /\ Disjoint(Listed(roadStack', d), queue')
        OBVIOUS
      <3>1. d \in 1 .. Len(roadStack) /\ Listed(roadStack', d) = Listed(roadStack, d)
        BY <1>4, SMTT(30)
      <3>2. /\ Once(Listed(roadStack, d)) /\ Disjoint(Listed(roadStack, d), roadWaiters)
            /\ Disjoint(Listed(roadStack, d), queue) /\ c \notin R!Elements(Listed(roadStack, d))
        BY <1>12, <3>1 DEF RoadEachOnce
      <3> QED
        BY <1>1, <1>12, <3>1, <3>2 DEF Disjoint
    <2>4. \A d, e \in 1 .. Len(roadStack') : d # e => Disjoint(Listed(roadStack', d), Listed(roadStack', e))
      BY <1>4 DEF RoadEachOnce
    <2> QED
      BY <2>1, <2>2, <2>3, <2>4 DEF RoadEachOnce
  <1>14. RoadListedWait'
    <2>1. \A b \in Coros : roadCo[b] = "waiting" => roadCo'[b] = "waiting"
      BY <1>1
    <2>2. (\A b \in R!Elements(roadWaiters') : roadCo'[b] = "waiting") /\ (\A b \in R!Elements(queue') : roadCo'[b] = "waiting")
      BY <1>1, <1>12, <2>1, RoadListsHoldWaiting
    <2>3. \A d \in 1 .. Len(roadStack') : \A b \in R!Elements(Listed(roadStack', d)) : roadCo'[b] = "waiting"
      BY <1>4, <2>1, RoadListsHoldWaiting, SMTT(30)
    <2> QED
      BY <2>2, <2>3 DEF RoadListedWait
  <1>15. R!WaitersWaitForSomebody'
    <2>1. \E d \in Coros : roadCo'[d] \in {"inside", "paused"}
      BY <1>8 DEF ClosedBySomebody
    <2> QED
      BY <1>1, <1>4, <1>12, <2>1 DEF R!WaitersWaitForSomebody
  <1> QED
    BY <1>5, <1>6, <1>9, <1>10, <1>11, <1>13, <1>14, <1>15

\* open() leaves nobody inside, whatever the executor.
LEMMA OpenLeavesNobody ==
  ASSUME RoadInductive, NEW c \in Coros, R!Open(c)
  PROVE  /\ \A b \in Coros : roadCo'[b] \notin {"woken", "retry", "passed", "inside", "paused"}
         /\ Uninterrupted' /\ ClosedBySomebody' /\ R!OnlyOneCloses'
  <1> USE DEF RoadInductive, RoadTypes
  <1>1. /\ R!Executes(c) /\ roadCo[c] = "inside" /\ roadCo'[c] = "running" /\ roadClosed' = FALSE
        /\ \A b \in Coros : b # c => roadCo'[b] = roadCo[b]
    BY DEF R!Open
  <1>2. \A b \in Coros : roadCo[b] \in {"woken", "retry", "passed", "inside"} => b = c
    BY <1>1 DEF Uninterrupted, R!Executes, R!Co
  <1>3. \A b \in Coros : roadCo[b] = "paused" => b = c
    BY <1>1 DEF R!OnlyOneCloses
  <1>4. \A b \in Coros : roadCo'[b] \notin {"woken", "retry", "passed", "inside", "paused"}
    BY <1>1, <1>2, <1>3
  <1> QED
    BY <1>1, <1>4 DEF Uninterrupted, ClosedBySomebody, R!OnlyOneCloses

\* open() with an executor that resumes the waiters inside of it.
LEMMA OpenInlineInv == ASSUME RoadInductive, NEW c \in Coros, R!Open(c), inline PROVE RoadInductive'
  <1> USE DEF RoadInductive, RoadTypes
  <1>1. /\ roadStack' = <<<<"walk", roadWaiters>>>> \o roadStack
        /\ roadWaiters' = <<>> /\ queue = <<>> /\ queue' = <<>>
        /\ inline' = inline /\ roadClosed' = FALSE
        /\ roadCo[c] = "inside" /\ roadCo'[c] = "running"
        /\ roadCo' \in [Coros -> {"out", "running", "waiting", "woken", "retry", "passed", "inside", "paused"}]
        /\ \A b \in Coros : b # c => roadCo'[b] = roadCo[b]
    BY DEF R!Open, R!Walk
  <1>2. <<"walk", roadWaiters>> \in StackFrames
    BY DEF StackFrames
  <1>3. /\ roadStack' \in Seq(StackFrames)
        /\ Len(roadStack') \in 1 .. Len(roadStack')
        /\ Listed(roadStack', Len(roadStack')) = roadWaiters
        /\ \A d \in 1 .. Len(roadStack') : d # Len(roadStack') => d \in 1 .. Len(roadStack)
        /\ \A d \in 1 .. Len(roadStack) : /\ d \in 1 .. Len(roadStack') /\ d # Len(roadStack')
                                          /\ Listed(roadStack', d) = Listed(roadStack, d)
    BY <1>1, <1>2, PushStack
  <1>4. RoadTypes'
    BY <1>1, EmptySeq
  <1>5. RoadStackOK'
    <2>1. \A b \in Coros : roadCo[b] \notin Suspended => roadCo'[b] \notin Suspended
      BY <1>1 DEF Suspended
    <2>2. \A b : <<"walk", roadWaiters>> # <<"co", b>>
      OBVIOUS
    <2>3. StackFine(roadStack, roadCo)
      BY DEF RoadStackOK
    <2>4. StackFine(<<<<"walk", roadWaiters>>>> \o roadStack, roadCo')
      BY <1>2, <2>1, <2>2, <2>3, PushFine
    <2> QED
      BY <1>1, <2>4 DEF RoadStackOK
  <1>6. RoadEachOnce'
    <2>1. Once(roadWaiters') /\ Once(queue') /\ Disjoint(roadWaiters', queue')
      BY <1>1, EmptyList DEF Disjoint
    <2>2. \A d \in 1 .. Len(roadStack') : /\ Once(Listed(roadStack', d))
                                          /\ Disjoint(Listed(roadStack', d), roadWaiters')
                                          /\ Disjoint(Listed(roadStack', d), queue')
      BY <1>1, <1>3, EmptyList DEF RoadEachOnce, Disjoint
    <2>3. \A d, e \in 1 .. Len(roadStack') : d # e => Disjoint(Listed(roadStack', d), Listed(roadStack', e))
      BY <1>3 DEF RoadEachOnce, Disjoint
    <2> QED
      BY <2>1, <2>2, <2>3 DEF RoadEachOnce
  <1>7. RoadListedWait'
    <2>1. \A d \in 1 .. Len(roadStack') : \A b \in R!Elements(Listed(roadStack', d)) : b \in Coros /\ roadCo[b] = "waiting"
      BY <1>3, RoadListsHoldWaiting
    <2> QED
      BY <1>1, <2>1, EmptyList DEF RoadListedWait
  <1>8. R!WaitersWaitForSomebody'
    <2>1. roadStack \in Seq(StackFrames)
      BY DEF RoadStackOK, StackFine
    <2>2. ASSUME NEW b \in Coros, roadCo'[b] = "waiting" PROVE b \in R!Popped'
      <3>1. b \in R!Popped \/ b \in R!Elements(roadWaiters)
        BY <1>1, <2>2 DEF R!WaitersWaitForSomebody
      <3>2. \/ \E d \in 1 .. Len(roadStack) : b \in R!Elements(Listed(roadStack, d))
            \/ b \in R!Elements(roadWaiters)
        BY <1>1, <1>3, <2>1, <3>1, PoppedBoth, EmptyList
      <3> QED
        BY <1>3, <2>1, <3>2, PoppedBoth
    <2> QED
      BY <2>2 DEF R!WaitersWaitForSomebody
  <1> QED
    BY <1>4, <1>5, <1>6, <1>7, <1>8, OpenLeavesNobody

\* open() with an executor that queues the waiters.
LEMMA OpenQueuedInv == ASSUME RoadInductive, NEW c \in Coros, R!Open(c), ~inline PROVE RoadInductive'
  <1> USE DEF RoadInductive, RoadTypes
  <1>1. /\ roadStack' = roadStack
        /\ roadWaiters' = <<>> /\ queue' = queue \o roadWaiters
        /\ inline' = inline /\ roadClosed' = FALSE
        /\ roadCo[c] = "inside" /\ roadCo'[c] = "running"
        /\ roadCo' \in [Coros -> {"out", "running", "waiting", "woken", "retry", "passed", "inside", "paused"}]
        /\ \A b \in Coros : b # c => roadCo'[b] = roadCo[b]
    BY DEF R!Open
  <1>2. /\ queue' \in Seq(Coros)
        /\ R!Elements(queue') = R!Elements(queue) \cup R!Elements(roadWaiters)
        /\ Once(queue')
    <2>1. Once(queue) /\ Once(roadWaiters) /\ Disjoint(queue, roadWaiters)
      BY DEF RoadEachOnce, Disjoint
    <2> QED
      BY <1>1, <2>1, ConcatList
  <1>3. RoadTypes'
    BY <1>1, <1>2, EmptySeq
  <1>4. RoadStackOK'
    <2>1. \A d \in 1 .. Len(roadStack) : At(roadStack, d)[1] = "co" => At(roadStack, d)[2] \in Coros
      BY FrameAt DEF RoadStackOK, StackFine, StackFrames
    <2> QED
      BY <1>1, <2>1 DEF RoadStackOK, StackFine, Suspended
  <1>5. RoadEachOnce'
    BY <1>1, <1>2, EmptyList DEF RoadEachOnce, Disjoint
  <1>6. RoadListedWait'
    BY <1>1, <1>2, EmptyList, RoadListsHoldWaiting DEF RoadListedWait
  <1>7. R!WaitersWaitForSomebody'
    <2>1. roadStack \in Seq(StackFrames)
      BY DEF RoadStackOK, StackFine
    <2>2. ASSUME NEW b \in Coros, roadCo'[b] = "waiting" PROVE b \in R!Popped'
      <3>1. b \in R!Popped \/ b \in R!Elements(roadWaiters)
        BY <1>1, <2>2 DEF R!WaitersWaitForSomebody
      <3> QED
        BY <1>1, <1>2, <2>1, <3>1, PoppedBoth
    <2> QED
      BY <2>2 DEF R!WaitersWaitForSomebody
  <1> QED
    BY <1>3, <1>4, <1>5, <1>6, <1>7, OpenLeavesNobody

\* attach_list returns when its list is empty.
LEMMA RoadWalkEndInv == ASSUME RoadInductive, R!WalkNext, roadStack[1][2] = <<>> PROVE RoadInductive'
  <1> USE DEF RoadInductive, RoadTypes
  <1>1. /\ roadStack # <<>> /\ roadStack[1][1] = "walk" /\ roadStack' = Tail(roadStack)
        /\ UNCHANGED <<inline, roadClosed, roadWaiters, queue, roadCo>>
    BY DEF R!WalkNext
  <1>2. At(roadStack, Len(roadStack)) = roadStack[1] /\ Listed(roadStack, Len(roadStack)) = <<>>
    BY <1>1, TopFrame DEF Listed
  <1>3. /\ Len(roadStack) \in Nat \ {0} /\ Len(roadStack') = Len(roadStack) - 1
        /\ roadStack' \in Seq(StackFrames)
        /\ \A d \in 1 .. Len(roadStack') : /\ d \in 1 .. Len(roadStack) /\ d # Len(roadStack)
                                           /\ At(roadStack', d) = At(roadStack, d)
                                      /\ Listed(roadStack', d) = Listed(roadStack, d)
        /\ R!Popped' = R!Popped
    BY <1>1, <1>2, PopStack
  <1>4. RoadStackOK'
    BY <1>1, PopFine DEF RoadStackOK
  <1>5. \A b \in Coros : roadCo[b] \notin {"woken", "retry", "passed", "inside"}
    BY <1>1 DEF Uninterrupted, R!Executes, R!Co
  <1>6. RoadTypes' /\ Uninterrupted' /\ ClosedBySomebody' /\ R!OnlyOneCloses'
    BY <1>1, <1>5, SMTT(30) DEF Uninterrupted, ClosedBySomebody, R!OnlyOneCloses
  <1>7. RoadEachOnce' /\ RoadListedWait'
    BY <1>1, <1>3 DEF RoadEachOnce, RoadListedWait
  <1>8. R!WaitersWaitForSomebody'
    BY <1>1, <1>3 DEF R!WaitersWaitForSomebody
  <1> QED
    BY <1>4, <1>6, <1>7, <1>8

LEMMA TwoFrames == ASSUME NEW S, NEW x \in S, NEW y \in S PROVE <<x, y>> = <<x>> \o <<y>>
  <1>1. <<x>> \in Seq(S) /\ <<y>> \in Seq(S) /\ <<x, y>> \in Seq(S)
    OBVIOUS
  <1>2. <<x>> \o <<y>> \in Seq(S)
    BY <1>1
  <1>3. Len(<<x>> \o <<y>>) = 2 /\ (<<x>> \o <<y>>)[1] = x
    BY <1>1
  <1>4. (<<x>> \o <<y>>)[2] = y
    BY <1>1
  <1>5. Len(<<x, y>>) = 2 /\ <<x, y>>[1] = x /\ <<x, y>>[2] = y
    OBVIOUS
  <1>6. \A i \in 1 .. 2 : <<x, y>>[i] = (<<x>> \o <<y>>)[i]
    BY <1>3, <1>4, <1>5
  <1> QED
    BY <1>1, <1>2, <1>3, <1>5, <1>6, SeqEqual

\* A waiter h and the rest l of its list replace a list on top of the stack.
Resumed(s, h, l) == <<<<"co", h>>, <<"walk", l>>>> \o Tail(s)

LEMMA ResumedShape ==
  ASSUME NEW s \in Seq(StackFrames), s # <<>>, NEW h \in Coros, NEW l \in Seq(Coros)
  PROVE  /\ <<"co", h>> \in StackFrames /\ <<"walk", l>> \in StackFrames
         /\ Resumed(s, h, l) = <<<<"co", h>>>> \o (<<<<"walk", l>>>> \o Tail(s))
         /\ Resumed(s, h, l) \in Seq(StackFrames)
         /\ Resumed(s, h, l) # <<>> /\ Resumed(s, h, l)[1] = <<"co", h>>
         /\ Len(Resumed(s, h, l)) = Len(s) + 1
  <1> DEFINE x == <<"co", h>>
             y == <<"walk", l>>
  <1>1. x \in StackFrames /\ y \in StackFrames /\ Resumed(s, h, l) = <<x, y>> \o Tail(s)
    BY DEF StackFrames, Resumed
  <1> HIDE DEF x, y
  <1>2. Tail(s) \in Seq(StackFrames) /\ Len(Tail(s)) = Len(s) - 1 /\ Len(s) \in Nat
    BY PopFrame
  <1>3. Resumed(s, h, l) = <<x>> \o (<<y>> \o Tail(s))
    <2>1. <<x>> \in Seq(StackFrames) /\ <<y>> \in Seq(StackFrames)
      BY <1>1
    <2>2. <<x, y>> = <<x>> \o <<y>>
      BY <1>1, TwoFrames
    <2> QED
      BY <1>1, <1>2, <2>1, <2>2, ConcatAssociative
  <1>4. <<y>> \o Tail(s) \in Seq(StackFrames) /\ Len(<<y>> \o Tail(s)) = Len(s)
    BY <1>1, <1>2
  <1>5. /\ Resumed(s, h, l) \in Seq(StackFrames) /\ Len(Resumed(s, h, l)) = Len(s) + 1
        /\ Resumed(s, h, l) # <<>> /\ Resumed(s, h, l)[1] = x
    BY <1>1, <1>2, <1>3, <1>4
  <1> QED
    BY <1>1, <1>3, <1>5 DEF x, y

\* What the new top frames list, and that the frames below them list the same.
LEMMA ResumedTop ==
  ASSUME NEW s \in Seq(StackFrames), s # <<>>, NEW h \in Coros, NEW l \in Seq(Coros)
  PROVE  /\ Listed(Resumed(s, h, l), Len(s) + 1) = <<>>
         /\ Listed(Resumed(s, h, l), Len(s)) = l
  <1> DEFINE x == <<"co", h>>
             y == <<"walk", l>>
             u == <<y>> \o Tail(s)
  <1>1. /\ x \in StackFrames /\ y \in StackFrames /\ Resumed(s, h, l) = <<x>> \o u
        /\ x[1] = "co" /\ y[1] = "walk" /\ y[2] = l
    BY ResumedShape
  <1> HIDE DEF x, y
  <1>2. Tail(s) \in Seq(StackFrames) /\ Len(s) \in Nat \ {0} /\ Len(Tail(s)) = Len(s) - 1
    BY PopFrame
  <1>3. u \in Seq(StackFrames) /\ Len(u) = Len(s) /\ At(u, Len(s)) = y
    <2>1. y \in StackFrames /\ Tail(s) \in Seq(StackFrames)
      BY <1>1, <1>2
    <2>2. /\ u \in Seq(StackFrames) /\ Len(u) = Len(Tail(s)) + 1
          /\ At(u, Len(Tail(s)) + 1) = y
      BY <2>1, PushFrame
    <2> HIDE DEF u
    <2> QED
      BY <1>2, <2>2
  <1> HIDE DEF u
  <1>4. At(<<x>> \o u, Len(s) + 1) = x /\ At(<<x>> \o u, Len(s)) = y
    BY <1>1, <1>2, <1>3, PushFrame
  <1> QED
    BY <1>1, <1>4 DEF Listed

LEMMA ResumedBelow ==
  ASSUME NEW s \in Seq(StackFrames), s # <<>>, NEW h \in Coros, NEW l \in Seq(Coros),
         NEW d \in 1 .. Len(s) - 1
  PROVE  Listed(Resumed(s, h, l), d) = Listed(s, d)
  <1> DEFINE x == <<"co", h>>
             y == <<"walk", l>>
             u == <<y>> \o Tail(s)
  <1>1. x \in StackFrames /\ y \in StackFrames /\ Resumed(s, h, l) = <<x>> \o u
    BY ResumedShape
  <1> HIDE DEF x, y
  <1>2. Tail(s) \in Seq(StackFrames) /\ Len(s) \in Nat \ {0} /\ Len(Tail(s)) = Len(s) - 1
    BY PopFrame
  <1>3. d \in 1 .. Len(Tail(s)) /\ At(Tail(s), d) = At(s, d)
    BY <1>2, PopFrame
  <1>4. u \in Seq(StackFrames) /\ Len(u) = Len(s) /\ At(u, d) = At(s, d)
    <2>1. y \in StackFrames /\ Tail(s) \in Seq(StackFrames) /\ d \in 1 .. Len(Tail(s))
      BY <1>1, <1>2, <1>3
    <2>2. /\ u \in Seq(StackFrames) /\ Len(u) = Len(Tail(s)) + 1
          /\ At(u, d) = At(Tail(s), d)
      BY <2>1, PushFrame
    <2> HIDE DEF u
    <2> QED
      BY <1>2, <1>3, <2>2
  <1> HIDE DEF u
  <1>5. d \in 1 .. Len(u)
    BY <1>2, <1>4
  <1>6. At(<<x>> \o u, d) = At(s, d)
    BY <1>1, <1>4, <1>5, PushFrame
  <1> QED
    BY <1>1, <1>6 DEF Listed

\* attach_list resumes the next waiter h, inside of open(); t is the rest.
LEMMA WalkStepInv ==
  ASSUME RoadInductive, NEW list \in Seq(Coros), NEW h \in Coros, NEW t \in Seq(Coros), NEW n \in Nat, n = Len(roadStack),
         roadStack # <<>>, roadStack[1] = <<"walk", list>>,
         R!Elements(list) = {h} \cup R!Elements(t),
         Once(list) => Once(t) /\ h \notin R!Elements(t),
         roadStack' = Resumed(roadStack, h, t),
         roadCo' = [roadCo EXCEPT ![h] = "woken"],
         UNCHANGED <<inline, roadClosed, roadWaiters, queue>>
  PROVE  RoadInductive'
  <1>0. /\ roadStack' = <<<<"co", h>>>> \o (<<<<"walk", t>>>> \o Tail(roadStack)) /\ roadStack' \in Seq(StackFrames)
        /\ <<"co", h>> \in StackFrames /\ <<"walk", t>> \in StackFrames
        /\ roadStack' # <<>> /\ roadStack'[1] = <<"co", h>>
        /\ Len(roadStack') = n + 1 /\ n \in Nat \ {0}
        /\ Listed(roadStack', n + 1) = <<>> /\ Listed(roadStack', n) = t
        /\ \A d \in 1 .. n - 1 : Listed(roadStack', d) = Listed(roadStack, d)
    <2>1. roadStack \in Seq(StackFrames)
      BY DEF RoadInductive, RoadStackOK, StackFine
    <2>2. /\ roadStack' = <<<<"co", h>>>> \o (<<<<"walk", t>>>> \o Tail(roadStack))
          /\ roadStack' \in Seq(StackFrames)
          /\ <<"co", h>> \in StackFrames /\ <<"walk", t>> \in StackFrames
      BY <2>1, ResumedShape
    <2>3. roadStack' # <<>> /\ roadStack'[1] = <<"co", h>> /\ Len(roadStack') = Len(roadStack) + 1
      BY <2>1, ResumedShape
    <2>4. Len(roadStack) \in Nat \ {0}
      BY <2>1
    <2>5. Listed(roadStack', Len(roadStack) + 1) = <<>> /\ Listed(roadStack', Len(roadStack)) = t
      BY <2>1, ResumedTop
    <2>6. \A d \in 1 .. Len(roadStack) - 1 : Listed(roadStack', d) = Listed(roadStack, d)
      BY <2>1, ResumedBelow
    <2> QED
      BY <2>2, <2>3, <2>4, <2>5, <2>6
  <1> USE DEF RoadInductive, RoadTypes
  <1>1. UNCHANGED <<inline, roadClosed, roadWaiters, queue>>
    OBVIOUS
  <1>2. n \in 1 .. n /\ At(roadStack, n) = roadStack[1] /\ roadStack \in Seq(StackFrames)
    BY TopFrame DEF RoadStackOK, StackFine
  <1>3. Listed(roadStack, n) = list
    BY <1>2 DEF Listed
  <1>4. R!Elements(list) = {h} \cup R!Elements(t)
    OBVIOUS
  <1>5. Once(list) /\ Once(t) /\ h \notin R!Elements(t)
    BY <1>2, <1>3 DEF RoadEachOnce
  <1>6. roadCo[h] = "waiting" /\ roadCo'[h] = "woken" /\ \A b \in Coros : b # h => roadCo'[b] = roadCo[b]
    <2>1. roadCo[h] = "waiting"
      BY <1>2, <1>3, <1>4, RoadListsHoldWaiting
    <2> QED
      BY <2>1
  <1>7. RoadTypes'
    OBVIOUS
  <1>9. /\ roadStack' = <<<<"co", h>>>> \o (<<<<"walk", t>>>> \o Tail(roadStack)) /\ roadStack' \in Seq(StackFrames)
        /\ <<"co", h>> \in StackFrames /\ <<"walk", t>> \in StackFrames
        /\ roadStack' # <<>> /\ roadStack'[1] = <<"co", h>>
        /\ Len(roadStack') = n + 1 /\ n \in Nat \ {0}
        /\ Listed(roadStack', n + 1) = <<>> /\ Listed(roadStack', n) = t
        /\ \A d \in 1 .. n - 1 : Listed(roadStack', d) = Listed(roadStack, d)
    BY <1>0
  <1>10. RoadStackOK'
    <2>1. StackFine(Tail(roadStack), roadCo)
      BY PopFine DEF RoadStackOK
    <2>2. StackFine(<<<<"walk", t>>>> \o Tail(roadStack), roadCo)
      <3>1. \A b : <<"walk", t>> # <<"co", b>>
        OBVIOUS
      <3>2. <<"walk", t>> \in StackFrames
        BY <1>9
      <3>3. \A x \in StackFrames : (\A b \in Coros : x # <<"co", b>>) => StackFine(<<x>> \o Tail(roadStack), roadCo)
        BY <2>1, PushFine
      <3> QED
        BY <3>1, <3>2, <3>3
    <2>3. /\ \A b \in Coros : roadCo[b] \notin Suspended => roadCo'[b] \notin Suspended
          /\ \A b \in Coros : <<"co", h>> = <<"co", b>> => roadCo[b] \in Suspended /\ roadCo'[b] \notin Suspended
      BY <1>6 DEF Suspended
    <2>4. StackFine(<<<<"co", h>>>> \o (<<<<"walk", t>>>> \o Tail(roadStack)), roadCo')
      <3>1. <<"co", h>> \in StackFrames
        BY <1>9
      <3> QED
        BY <2>2, <2>3, <3>1, PushFine
    <2> QED
      BY <1>9, <2>4 DEF RoadStackOK
  <1>12. /\ \A d \in 1 .. Len(roadStack') : d = n + 1 \/ d = n \/ d \in 1 .. n - 1
         /\ \A d \in 1 .. n - 1 : d \in 1 .. n /\ d # n /\ d \in 1 .. Len(roadStack')
         /\ \A d \in 1 .. n : d = n \/ d \in 1 .. n - 1
         /\ n \in 1 .. n /\ n \in 1 .. Len(roadStack')
    <2>1. ASSUME NEW m \in Nat \ {0}
          PROVE  /\ \A d \in 1 .. m + 1 : d = m + 1 \/ d = m \/ d \in 1 .. m - 1
                 /\ \A d \in 1 .. m - 1 : d \in 1 .. m /\ d # m /\ d \in 1 .. m + 1
                 /\ \A d \in 1 .. m : d = m \/ d \in 1 .. m - 1
                 /\ m \in 1 .. m /\ m \in 1 .. m + 1
      OBVIOUS
    <2> QED
      BY <1>9, <2>1
  <1>13. \A b \in Coros : roadCo[b] \notin {"woken", "retry", "passed", "inside"}
    BY DEF Uninterrupted, R!Executes, R!Co
  <1>14. Uninterrupted'
    BY <1>6, <1>9, <1>13 DEF Uninterrupted, R!Executes, R!Co
  <1>15. ClosedBySomebody' /\ R!OnlyOneCloses'
    BY <1>1, <1>4, <1>6, <1>13 DEF ClosedBySomebody, R!OnlyOneCloses
  <1>16. /\ Disjoint(list, roadWaiters) /\ Disjoint(list, queue)
         /\ \A d \in 1 .. n - 1 : /\ Once(Listed(roadStack, d)) /\ Disjoint(list, Listed(roadStack, d))
                                 /\ Disjoint(Listed(roadStack, d), roadWaiters)
                                 /\ Disjoint(Listed(roadStack, d), queue)
         /\ \A d, e \in 1 .. n - 1 : d # e => Disjoint(Listed(roadStack, d), Listed(roadStack, e))
    BY <1>3, <1>12 DEF RoadEachOnce
  <1>17. RoadEachOnce'
    <2>1. Once(roadWaiters') /\ Once(queue') /\ Disjoint(roadWaiters', queue')
      BY <1>1 DEF RoadEachOnce
    <2>2. \A d \in 1 .. Len(roadStack') : /\ Once(Listed(roadStack', d))
                                          /\ Disjoint(Listed(roadStack', d), roadWaiters')
                                          /\ Disjoint(Listed(roadStack', d), queue')
      BY <1>1, <1>4, <1>5, <1>9, <1>12, <1>16, EmptyList DEF Disjoint
    <2>3. ASSUME NEW d \in 1 .. Len(roadStack'), NEW e \in 1 .. Len(roadStack'), d # e
          PROVE  Disjoint(Listed(roadStack', d), Listed(roadStack', e))
      <3>1. ASSUME NEW i \in 1 .. n - 1
            PROVE  Disjoint(t, Listed(roadStack, i)) /\ Disjoint(Listed(roadStack, i), t)
        <4>1. Disjoint(list, Listed(roadStack, i))
          BY <1>16
        <4> QED
          BY <1>4, <4>1 DEF Disjoint
      <3>2. CASE d = n + 1 \/ e = n + 1
        BY <1>9, <3>2, EmptyList DEF Disjoint
      <3>3. CASE d = n /\ e \in 1 .. n - 1
        BY <1>9, <3>1, <3>3
      <3>4. CASE e = n /\ d \in 1 .. n - 1
        BY <1>9, <3>1, <3>4
      <3>5. CASE d \in 1 .. n - 1 /\ e \in 1 .. n - 1
        BY <1>9, <1>16, <2>3, <3>5
      <3> QED
        BY <1>12, <2>3, <3>2, <3>3, <3>4, <3>5
    <2> QED
      BY <2>1, <2>2, <2>3 DEF RoadEachOnce
  <1>18. RoadListedWait'
    <2>1. /\ \A b \in R!Elements(roadWaiters) : b \in Coros /\ roadCo[b] = "waiting" /\ b # h
          /\ \A b \in R!Elements(queue) : b \in Coros /\ roadCo[b] = "waiting" /\ b # h
      BY <1>4, <1>16, RoadListsHoldWaiting DEF Disjoint
    <2>2. ASSUME NEW d \in 1 .. Len(roadStack'), NEW b \in R!Elements(Listed(roadStack', d))
          PROVE  b \in Coros /\ roadCo[b] = "waiting" /\ b # h
      <3>1. d = n \/ d \in 1 .. n - 1
        BY <1>9, <1>12, <2>2, EmptyList
      <3>2. CASE d = n
        BY <1>3, <1>4, <1>5, <1>9, <1>12, <2>2, <3>2, RoadListsHoldWaiting
      <3>3. CASE d \in 1 .. n - 1
        <4>1. d \in 1 .. Len(roadStack) /\ Listed(roadStack', d) = Listed(roadStack, d)
          BY <1>9, <1>12, <3>3
        <4> QED
          BY <1>4, <1>16, <3>3, <4>1, RoadListsHoldWaiting DEF Disjoint
      <3> QED
        BY <3>1, <3>2, <3>3
    <2> QED
      BY <1>1, <1>6, <2>1, <2>2 DEF RoadListedWait
  <1>19. R!WaitersWaitForSomebody'
    <2>1. ASSUME NEW b \in Coros, b # h, b \in R!Popped PROVE b \in R!Popped'
      <3>1. b \in R!Elements(queue) \/ \E d \in 1 .. n : b \in R!Elements(Listed(roadStack, d))
        BY <1>2, <1>9, <2>1, PoppedBoth
      <3>2. CASE b \in R!Elements(queue)
        BY <1>1, <1>2, <1>9, <3>2, PoppedBoth
      <3>3. CASE \E d \in 1 .. n : b \in R!Elements(Listed(roadStack, d))
        <4>1. \E d \in 1 .. Len(roadStack') : b \in R!Elements(Listed(roadStack', d))
          BY <1>3, <1>4, <1>9, <1>12, <2>1, <3>3
        <4> QED
          BY <1>2, <1>9, <4>1, PoppedBoth
      <3> QED
        BY <3>1, <3>2, <3>3
    <2>2. \A b \in Coros : roadCo[b] \in {"inside", "paused"} => roadCo'[b] \in {"inside", "paused"}
      BY <1>6
    <2> QED
      BY <1>1, <1>6, <2>1, <2>2 DEF R!WaitersWaitForSomebody
  <1> QED
    BY <1>7, <1>10, <1>14, <1>15, <1>17, <1>18, <1>19

LEMMA RoadWalkResumeInv == ASSUME RoadInductive, R!WalkNext, roadStack[1][2] # <<>> PROVE RoadInductive'
  <1>1. roadStack \in Seq(StackFrames) /\ roadStack # <<>> /\ roadStack[1][1] = "walk" /\ roadStack[1] \in StackFrames
    BY TopFrame DEF R!WalkNext, RoadInductive, RoadStackOK, StackFine
  <1>2. PICK list \in Seq(Coros) : roadStack[1] = <<"walk", list>>
    BY <1>1 DEF StackFrames
  <1>3. list # <<>> /\ roadStack[1][2] = list
    BY <1>2
  <1>4. PICK h \in Coros, t \in Seq(Coros) :
          /\ h = Head(list) /\ t = Tail(list)
          /\ R!Elements(list) = {h} \cup R!Elements(t)
          /\ Once(list) => Once(t) /\ h \notin R!Elements(t)
    BY <1>3, TailList
  <1>5. /\ roadStack' = Resumed(roadStack, h, t)
        /\ roadCo' = [roadCo EXCEPT ![h] = "woken"]
        /\ UNCHANGED <<inline, roadClosed, roadWaiters, queue>>
    BY <1>3, <1>4 DEF R!WalkNext, Resumed, R!Co, R!Walk
  <1>6. Len(roadStack) \in Nat
    BY <1>1
  <1> QED
    BY <1>1, <1>2, <1>4, <1>5, <1>6, WalkStepInv

\* A coroutine is resumed from the event loop, with nothing on the stack.
LEMMA ResumeFromLoop ==
  ASSUME RoadInductive, NEW c \in Coros, roadStack = <<>>, roadStack' = <<<<"co", c>>>>,
         roadCo[c] \in Suspended, roadCo'[c] \notin Suspended,
         roadCo' \in [Coros -> {"out", "running", "waiting", "woken", "retry", "passed", "inside", "paused"}],
         \A b \in Coros : b # c => roadCo'[b] = roadCo[b]
  PROVE  /\ RoadStackOK' /\ Uninterrupted'
         /\ Len(roadStack) = 0 /\ Len(roadStack') = 1 /\ roadStack' \in Seq(StackFrames)
         /\ \A d \in 1 .. Len(roadStack') : Listed(roadStack', d) = <<>>
         /\ \A b \in Coros : roadCo[b] \notin {"woken", "retry", "passed", "inside"}
  <1> DEFINE x == <<"co", c>>
  <1>1. x \in StackFrames
    BY DEF StackFrames
  <1>2. StackFine(<<x>> \o roadStack, roadCo')
    <2>1. StackFine(roadStack, roadCo)
      BY DEF RoadInductive, RoadStackOK
    <2>2. \A b \in Coros : x = <<"co", b>> => roadCo[b] \in Suspended /\ roadCo'[b] \notin Suspended
      OBVIOUS
    <2>3. \A b \in Coros : roadCo[b] \notin Suspended => roadCo'[b] \notin Suspended
      OBVIOUS
    <2> HIDE DEF x
    <2> QED
      BY <1>1, <2>1, <2>2, <2>3, PushFine
  <1>3. <<x>> \o roadStack = <<x>>
    OBVIOUS
  <1>4. RoadStackOK'
    BY <1>2, <1>3 DEF RoadStackOK
  <1>5. \A b \in Coros : roadCo[b] \notin {"woken", "retry", "passed", "inside"}
    BY DEF RoadInductive, Uninterrupted, R!Executes
  <1>6. Uninterrupted'
    BY <1>5 DEF Uninterrupted, R!Executes, R!Co
  <1>7. Len(roadStack) = 0 /\ Len(roadStack') = 1 /\ roadStack' \in Seq(StackFrames)
    BY <1>1
  <1>8. \A d \in 1 .. Len(roadStack') : Listed(roadStack', d) = <<>>
    <2>1. \A d \in 1 .. Len(roadStack') : d = 1
      BY <1>7
    <2>2. Listed(roadStack', 1) = <<>>
      <3>1. At(roadStack', 1) = x
        BY <1>7 DEF At
      <3> QED
        BY <3>1 DEF Listed
    <2> QED
      BY <2>1, <2>2
  <1> QED
    BY <1>4, <1>5, <1>6, <1>7, <1>8

\* The event loop resumes a coroutine that waits for something else.
LEMMA RoadScheduleInv == ASSUME RoadInductive, NEW c \in Coros, R!Schedule(c) PROVE RoadInductive'
  <1> USE DEF RoadInductive, RoadTypes
  <1>1. /\ roadStack = <<>> /\ roadStack' = <<<<"co", c>>>>
        /\ roadCo[c] \in {"out", "paused"}
        /\ roadCo'[c] = IF roadCo[c] = "out" THEN "running" ELSE "inside"
        /\ roadCo' \in [Coros -> {"out", "running", "waiting", "woken", "retry", "passed", "inside", "paused"}]
        /\ \A b \in Coros : b # c => roadCo'[b] = roadCo[b]
        /\ UNCHANGED <<inline, roadClosed, roadWaiters, queue>>
    BY DEF R!Schedule, R!Co
  <1>2. roadCo[c] \in Suspended /\ roadCo'[c] \notin Suspended
    BY <1>1 DEF Suspended
  <1>3. /\ RoadStackOK' /\ Uninterrupted'
        /\ Len(roadStack) = 0 /\ Len(roadStack') = 1 /\ roadStack' \in Seq(StackFrames)
        /\ \A d \in 1 .. Len(roadStack') : Listed(roadStack', d) = <<>>
        /\ \A b \in Coros : roadCo[b] \notin {"woken", "retry", "passed", "inside"}
    BY <1>1, <1>2, ResumeFromLoop
  <1>4. RoadTypes'
    BY <1>1
  <1>5. \A b \in Coros : roadCo'[b] \in {"inside", "paused"} <=> roadCo[b] \in {"inside", "paused"}
    BY <1>1
  <1>6. ClosedBySomebody'
    BY <1>1, <1>5 DEF ClosedBySomebody
  <1>7. R!OnlyOneCloses'
    BY <1>1, <1>3, <1>5 DEF R!OnlyOneCloses
  <1>8. RoadEachOnce'
    BY <1>1, <1>3, EmptyList DEF RoadEachOnce, Disjoint
  <1>9. RoadListedWait'
    <2>1. \A b \in Coros : roadCo[b] = "waiting" => roadCo'[b] = "waiting"
      BY <1>1
    <2>2. (\A b \in R!Elements(roadWaiters') : roadCo'[b] = "waiting") /\ (\A b \in R!Elements(queue') : roadCo'[b] = "waiting")
      BY <1>1, <2>1, RoadListsHoldWaiting
    <2> QED
      BY <1>3, <2>2, EmptyList DEF RoadListedWait
  <1>10. R!WaitersWaitForSomebody'
    <2>1. \A b \in Coros : b \in R!Popped => b \in R!Popped'
      <3>1. roadStack \in Seq(StackFrames) /\ \A d \in 1 .. Len(roadStack) : FALSE
        BY <1>3 DEF RoadStackOK, StackFine
      <3> QED
        BY <1>1, <1>3, <3>1, PoppedBoth
    <2> QED
      BY <1>1, <1>5, <2>1 DEF R!WaitersWaitForSomebody
  <1> QED
    BY <1>3, <1>4, <1>6, <1>7, <1>8, <1>9, <1>10

\* The queueing executor resumes the first of its nodes.
LEMMA RunQueuedInv == ASSUME RoadInductive, R!RunQueued PROVE RoadInductive'
  <1> USE DEF RoadInductive, RoadTypes
  <1>1. PICK h \in Coros, t \in Seq(Coros) :
          /\ h = Head(queue) /\ t = Tail(queue)
          /\ R!Elements(queue) = {h} \cup R!Elements(t)
          /\ Once(queue) => Once(t) /\ h \notin R!Elements(t)
    BY TailList DEF R!RunQueued
  <1>2. roadCo[h] = "waiting" /\ Once(t) /\ h \notin R!Elements(t)
    BY <1>1, RoadListsHoldWaiting DEF RoadEachOnce
  <1>3. /\ roadStack = <<>> /\ roadStack' = <<<<"co", h>>>> /\ queue' = t
        /\ roadCo'[h] = "woken"
        /\ roadCo' \in [Coros -> {"out", "running", "waiting", "woken", "retry", "passed", "inside", "paused"}]
        /\ \A b \in Coros : b # h => roadCo'[b] = roadCo[b]
        /\ UNCHANGED <<inline, roadClosed, roadWaiters>>
    BY <1>1 DEF R!RunQueued, R!Co
  <1>4. roadCo[h] \in Suspended /\ roadCo'[h] \notin Suspended
    BY <1>2, <1>3 DEF Suspended
  <1>5. /\ RoadStackOK' /\ Uninterrupted'
        /\ Len(roadStack) = 0 /\ Len(roadStack') = 1 /\ roadStack' \in Seq(StackFrames)
        /\ \A d \in 1 .. Len(roadStack') : Listed(roadStack', d) = <<>>
        /\ \A b \in Coros : roadCo[b] \notin {"woken", "retry", "passed", "inside"}
    BY <1>3, <1>4, ResumeFromLoop
  <1>6. RoadTypes'
    <2>1. ~inline
      BY DEF R!RunQueued
    <2> QED
      BY <1>1, <1>3, <2>1
  <1>7. \A b \in Coros : roadCo'[b] \in {"inside", "paused"} <=> roadCo[b] \in {"inside", "paused"}
    BY <1>2, <1>3
  <1>8. ClosedBySomebody'
    BY <1>3, <1>7 DEF ClosedBySomebody
  <1>9. R!OnlyOneCloses'
    BY <1>3, <1>5, <1>7 DEF R!OnlyOneCloses
  <1>10. Disjoint(roadWaiters, queue)
    BY DEF RoadEachOnce
  <1>11. RoadEachOnce'
    <2>1. Once(roadWaiters') /\ Once(queue') /\ Disjoint(roadWaiters', queue')
      BY <1>1, <1>2, <1>3, <1>10 DEF RoadEachOnce, Disjoint
    <2> QED
      BY <1>5, <2>1, EmptyList DEF RoadEachOnce, Disjoint
  <1>12. RoadListedWait'
    <2>1. \A b \in R!Elements(roadWaiters) : b \in Coros /\ b # h /\ roadCo[b] = "waiting"
      BY <1>1, <1>10, RoadListsHoldWaiting DEF Disjoint
    <2>2. \A b \in R!Elements(t) : b \in Coros /\ b # h /\ roadCo[b] = "waiting"
      BY <1>1, <1>2, RoadListsHoldWaiting
    <2> QED
      BY <1>3, <1>5, <2>1, <2>2, EmptyList DEF RoadListedWait
  <1>13. R!WaitersWaitForSomebody'
    <2>1. \A b \in Coros : b # h /\ b \in R!Popped => b \in R!Popped'
      <3>1. roadStack \in Seq(StackFrames) /\ \A d \in 1 .. Len(roadStack) : FALSE
        BY <1>5 DEF RoadStackOK, StackFine
      <3> QED
        BY <1>1, <1>3, <1>5, <3>1, PoppedBoth
    <2> QED
      BY <1>3, <1>7, <2>1 DEF R!WaitersWaitForSomebody
  <1> QED
    BY <1>5, <1>6, <1>8, <1>9, <1>11, <1>12, <1>13
-----------------------------------------------------------------------------
LEMMA RoadInvariance == R!Spec => []RoadInductive
  <1>1. RoadInductive /\ [R!Next]_R!vars => RoadInductive'
    <2> SUFFICES ASSUME RoadInductive, [R!Next]_R!vars PROVE RoadInductive'
      OBVIOUS
    <2>1. CASE R!WalkNext
      BY <2>1, RoadWalkEndInv, RoadWalkResumeInv
    <2>2. CASE R!RunQueued
      BY <2>2, RunQueuedInv
    <2>3. ASSUME NEW c \in Coros,
                 R!Schedule(c) \/ R!Suspend(c) \/ R!WaitOpen(c) \/ R!AwaitResume(c) \/ R!Close(c) \/ R!Open(c)
          PROVE  RoadInductive'
      <3>1. CASE R!Schedule(c)
        BY <3>1, RoadScheduleInv
      <3>2. CASE R!Suspend(c)
        BY <3>2, RoadSuspendInv
      <3>3. CASE R!WaitOpen(c)
        BY <3>3, RoadWaitInv, SameStackInv
      <3>4. CASE R!AwaitResume(c) \/ R!Close(c)
        BY <3>4, SameStackInv
      <3>5. CASE R!Open(c)
        BY <3>5, OpenInlineInv, OpenQueuedInv
      <3> QED
        BY <2>3, <3>1, <3>2, <3>3, <3>4, <3>5
    <2>4. CASE UNCHANGED R!vars
      <3>1. UNCHANGED <<inline, roadClosed, roadWaiters, roadStack, queue, roadCo>>
        BY <2>4 DEF R!vars
      <3>2. R!Popped' = R!Popped
        BY <3>1 DEF R!Popped
      <3> QED
        BY <3>1, <3>2 DEF RoadInductive, RoadTypes, RoadStackOK, Uninterrupted, R!Executes, RoadEachOnce, RoadListedWait,
                     ClosedBySomebody, R!OnlyOneCloses, R!WaitersWaitForSomebody
    <2> QED
      BY <2>1, <2>2, <2>3, <2>4 DEF R!Next
  <1> QED
    BY <1>1, RoadInitInv, PTL DEF R!Spec

(***************************************************************************)
(* The assertion of close() never fails, one coroutine at a time has the   *)
(* road closed, and nobody waits on a road that is open: for any number of *)
(* coroutines, with both kinds of executor and any nesting of open().      *)
(***************************************************************************)
THEOREM RoadIsSafe == R!Spec => []RoadInv
  <1>1. RoadInductive => RoadInv
    <2> SUFFICES ASSUME RoadInductive PROVE R!TypeOK
      BY DEF RoadInductive, RoadInv, R!RoadInv
    <2>1. ASSUME NEW k \in DOMAIN roadStack, roadStack[k][1] = "co"
          PROVE  roadCo[roadStack[k][2]] \notin {"out", "waiting", "paused"}
      <3>1. Len(roadStack) + 1 - k \in 1 .. Len(roadStack) /\ At(roadStack, Len(roadStack) + 1 - k) = roadStack[k]
        BY DEF RoadInductive, RoadStackOK, StackFine, At
      <3> QED
        BY <2>1, <3>1 DEF RoadInductive, RoadStackOK, StackFine, Suspended
    <2> QED
      BY <2>1 DEF RoadInductive, RoadTypes, R!TypeOK
  <1> QED
    BY <1>1, RoadInvariance, PTL
-----------------------------------------------------------------------------
(***************************************************************************)
(* The gate.                                                               *)
(***************************************************************************)
States   == {"ready", "running", "waiting", "returned"}
Shape(f) == [c \in Coros |-> IF f[c] \in {"ready", "waiting"} THEN "out" ELSE "running"]

Types ==
  /\ count \in Nat /\ closed \in BOOLEAN
  /\ waiters \in Seq(Coros)
  /\ co \in [Coros -> States]
  /\ holds \in [Coros -> 0 .. MaxHold] /\ pending \in [Coros -> BOOLEAN]

\* A coroutine is on the stack once, and only while it is executed.
StackOK == StackFine(stack, Shape(co))

\* Nobody is executed between the return from co_await close() and what the
\* coroutine does with it.
ReturnedIsOnTop == \A c \in Coros : co[c] = "returned" => stack # <<>> /\ stack[1] = Co(c)

\* A coroutine that waits is in one of the lists, at one place in it.
EachOnce ==
  /\ Once(waiters)
  /\ \A d \in 1 .. Len(stack) : /\ Once(Listed(stack, d))
                                /\ Disjoint(Listed(stack, d), waiters)
  /\ \A d, e \in 1 .. Len(stack) :
       d # e => Disjoint(Listed(stack, d), Listed(stack, e))

InSomeList(c) ==
  \/ c \in R!Elements(waiters)
  \/ \E d \in 1 .. Len(stack) : c \in R!Elements(Listed(stack, d))

ListedWait ==
  /\ \A c \in R!Elements(waiters) : co[c] = "waiting"
  /\ \A d \in 1 .. Len(stack) : \A c \in R!Elements(Listed(stack, d)) : co[c] = "waiting"
  /\ \A c \in Coros : co[c] = "waiting" => InSomeList(c)

\* The counter is the number of holders.
Holders == {h \in Coros \X (1 .. MaxHold) : h[2] <= holds[h[1]]}
Counted == IsFiniteSet(Holders) /\ count = Cardinality(Holders)

\* A gate is closed as long as somebody is about to wait for it, waits for it
\* or has been popped by the leave() that left it empty.
ClosedForThem ==
  /\ \A c \in Coros : pending[c] => closed
  /\ (waiters # <<>> => closed /\ count > 0)
  /\ \A d \in 1 .. Len(stack) : Listed(stack, d) # <<>> => closed /\ count = 0
  /\ CloseReturnsClosedAndEmpty

\* The inductive invariant.
GateInductive ==
  /\ Types /\ StackOK /\ ReturnedIsOnTop /\ EachOnce /\ ListedWait
  /\ Counted /\ ClosedForThem
-----------------------------------------------------------------------------
(***************************************************************************)
(* Stacks and lists.                                                       *)
(***************************************************************************)
LEMMA ShapeOf ==
  ASSUME NEW f, NEW c \in Coros
  PROVE  Shape(f)[c] \in Suspended <=> f[c] \in {"ready", "waiting"}
  <1>1. Shape(f)[c] = IF f[c] \in {"ready", "waiting"} THEN "out" ELSE "running"
    BY DEF Shape
  <1>2. "out" \in Suspended /\ "running" \notin Suspended
    BY DEF Suspended
  <1> QED
    BY <1>1, <1>2

\* What popping the top frame does to the lists, by depth.
LEMMA PopLists ==
  ASSUME NEW s \in Seq(StackFrames), s # <<>>
  PROVE  /\ Len(s) \in 1 .. Len(s) /\ s[1] \in StackFrames
         /\ At(s, Len(s)) = s[1]
         /\ Tail(s) \in Seq(StackFrames)
         /\ \A d \in 1 .. Len(Tail(s)) : /\ d \in 1 .. Len(s) /\ d # Len(s)
                                        /\ Listed(Tail(s), d) = Listed(s, d)
         /\ \A d \in 1 .. Len(s) : d # Len(s) => d \in 1 .. Len(Tail(s))
  <1>1. /\ Len(s) \in Nat \ {0}
        /\ s[1] \in StackFrames /\ At(s, Len(s)) = s[1]
        /\ Tail(s) \in Seq(StackFrames)
        /\ Len(Tail(s)) = Len(s) - 1
        /\ \A d \in 1 .. Len(s) - 1 : At(Tail(s), d) = At(s, d)
    BY PopFrame
  <1>2. \A d \in 1 .. Len(Tail(s)) : Listed(Tail(s), d) = Listed(s, d)
    BY <1>1 DEF Listed
  <1>3. ASSUME NEW m \in Nat \ {0}, NEW n, n = m - 1
        PROVE  /\ m \in 1 .. m /\ \A d \in 1 .. m : d # m => d \in 1 .. n
               /\ \A d \in 1 .. n : d \in 1 .. m /\ d # m
    BY <1>3
  <1>4. /\ Len(s) \in 1 .. Len(s)
        /\ \A d \in 1 .. Len(s) : d # Len(s) => d \in 1 .. Len(Tail(s))
        /\ \A d \in 1 .. Len(Tail(s)) : d \in 1 .. Len(s) /\ d # Len(s)
    BY <1>1, <1>3, Zenon
  <1> QED
    BY <1>1, <1>2, <1>4, Zenon

\* What pushing a frame does to the lists, by depth.
LEMMA PushLists ==
  ASSUME NEW s \in Seq(StackFrames), NEW x \in StackFrames, NEW t, t = <<x>> \o s
  PROVE  /\ t \in Seq(StackFrames) /\ t # <<>> /\ t[1] = x
         /\ Len(t) \in 1 .. Len(t)
         /\ Listed(t, Len(t)) = IF x[1] = "walk" THEN x[2] ELSE <<>>
         /\ \A d \in 1 .. Len(t) : d # Len(t) => d \in 1 .. Len(s)
         /\ \A d \in 1 .. Len(s) : /\ d \in 1 .. Len(t) /\ d # Len(t)
                                   /\ Listed(t, d) = Listed(s, d)
  <1>1. /\ t \in Seq(StackFrames) /\ Len(t) = Len(s) + 1 /\ Len(s) \in Nat
        /\ At(t, Len(s) + 1) = x
        /\ \A d \in 1 .. Len(s) : At(t, d) = At(s, d)
    BY PushFrame
  <1>2. t # <<>> /\ t[1] = x
    BY <1>1
  <1>3. /\ Listed(t, Len(t)) = IF x[1] = "walk" THEN x[2] ELSE <<>>
        /\ \A d \in 1 .. Len(s) : Listed(t, d) = Listed(s, d)
    BY <1>1 DEF Listed
  <1>4. ASSUME NEW m \in Nat, NEW n, n = m + 1
        PROVE  /\ n \in 1 .. n /\ \A d \in 1 .. n : d # n => d \in 1 .. m
               /\ \A d \in 1 .. m : d \in 1 .. n /\ d # n
    BY <1>4
  <1> QED
    BY <1>1, <1>2, <1>3, <1>4

WithWalk(s, list) == <<<<"walk", list>>>> \o s
WithCoro(s, c)    == <<<<"co", c>>>> \o s

LEMMA PushWalk ==
  ASSUME NEW s \in Seq(StackFrames), NEW list \in Seq(Coros), NEW t,
         t = WithWalk(s, list)
  PROVE  /\ t \in Seq(StackFrames) /\ t # <<>> /\ t[1] = <<"walk", list>>
         /\ Len(t) \in 1 .. Len(t) /\ Listed(t, Len(t)) = list
         /\ \A d \in 1 .. Len(t) : d # Len(t) => d \in 1 .. Len(s)
         /\ \A d \in 1 .. Len(s) : /\ d \in 1 .. Len(t) /\ d # Len(t)
                                   /\ Listed(t, d) = Listed(s, d)
  <1> DEFINE x == <<"walk", list>>
  <1>1. x \in StackFrames /\ x[1] = "walk" /\ x[2] = list
    BY DEF StackFrames
  <1>2. t = <<x>> \o s
    BY DEF WithWalk
  <1> HIDE DEF x
  <1>3. /\ t \in Seq(StackFrames) /\ t # <<>> /\ t[1] = x
        /\ Len(t) \in 1 .. Len(t)
        /\ Listed(t, Len(t)) = IF x[1] = "walk" THEN x[2] ELSE <<>>
        /\ \A d \in 1 .. Len(t) : d # Len(t) => d \in 1 .. Len(s)
        /\ \A d \in 1 .. Len(s) : /\ d \in 1 .. Len(t) /\ d # Len(t)
                                  /\ Listed(t, d) = Listed(s, d)
    BY <1>1, <1>2, PushLists
  <1>4. Listed(t, Len(t)) = list
    BY <1>1, <1>3
  <1> QED
    BY <1>3, <1>4 DEF x

LEMMA PushCoro ==
  ASSUME NEW s \in Seq(StackFrames), NEW c \in Coros, NEW t, t = WithCoro(s, c)
  PROVE  /\ t \in Seq(StackFrames) /\ t # <<>> /\ t[1] = <<"co", c>>
         /\ Len(t) \in 1 .. Len(t) /\ Listed(t, Len(t)) = <<>>
         /\ \A d \in 1 .. Len(t) : d # Len(t) => d \in 1 .. Len(s)
         /\ \A d \in 1 .. Len(s) : /\ d \in 1 .. Len(t) /\ d # Len(t)
                                   /\ Listed(t, d) = Listed(s, d)
  <1> DEFINE x == <<"co", c>>
  <1>1. x \in StackFrames /\ x[1] = "co"
    BY DEF StackFrames
  <1>2. t = <<x>> \o s
    BY DEF WithCoro
  <1> HIDE DEF x
  <1>3. /\ t \in Seq(StackFrames) /\ t # <<>> /\ t[1] = x
        /\ Len(t) \in 1 .. Len(t)
        /\ Listed(t, Len(t)) = IF x[1] = "walk" THEN x[2] ELSE <<>>
        /\ \A d \in 1 .. Len(t) : d # Len(t) => d \in 1 .. Len(s)
        /\ \A d \in 1 .. Len(s) : /\ d \in 1 .. Len(t) /\ d # Len(t)
                                  /\ Listed(t, d) = Listed(s, d)
    BY <1>1, <1>2, PushLists
  <1>4. Listed(t, Len(t)) = <<>>
    BY <1>1, <1>3
  <1> QED
    BY <1>3, <1>4 DEF x

\* Who is in a list is a coroutine that waits.
LEMMA ListsHoldWaiting ==
  ASSUME GateInductive
  PROVE  /\ stack \in Seq(StackFrames)
         /\ \A c \in R!Elements(waiters) : c \in Coros /\ co[c] = "waiting"
         /\ \A d \in 1 .. Len(stack) : /\ Listed(stack, d) \in Seq(Coros)
                                      /\ \A c \in R!Elements(Listed(stack, d)) :
                                           c \in Coros /\ co[c] = "waiting"
  <1>1. \A l \in Seq(Coros) : \A c \in R!Elements(l) : c \in Coros
    BY DEF R!Elements
  <1>2. stack \in Seq(StackFrames)
    BY DEF GateInductive, StackOK, StackFine
  <1> QED
    BY <1>1, <1>2, FrameAt DEF GateInductive, Types, ListedWait

LEMMA NonEmptyList ==
  ASSUME NEW list \in Seq(Coros), list # <<>>
  PROVE  R!Elements(list) # {}
  BY TailList

\* Popped of the specification, by depth.
LEMMA PoppedByDepth ==
  ASSUME stack \in Seq(StackFrames)
  PROVE  \A c : c \in Popped <=> \E d \in 1 .. Len(stack) : c \in R!Elements(Listed(stack, d))
  <1>1. R!Elements(<<>>) = {}
    BY EmptyList
  <1>2. Popped = UNION {R!Elements(stack[k][2]) : k \in {j \in DOMAIN stack : stack[j][1] = "walk"}}
    BY DEF Popped, R!Elements
  <1> QED
    BY <1>1, <1>2, PoppedListed
-----------------------------------------------------------------------------
(***************************************************************************)
(* The counter.                                                            *)
(***************************************************************************)
LEMMA HolderEnters ==
  ASSUME GateInductive, NEW c \in Coros, holds[c] < MaxHold, holds' = [holds EXCEPT ![c] = @ + 1],
         count' = count + 1
  PROVE  Counted'
  <1> DEFINE h == <<c, holds[c] + 1>>
  <1>1. holds[c] \in 0 .. MaxHold /\ MaxHold \in Nat /\ holds \in [Coros -> 0 .. MaxHold]
    BY GateAssumption DEF GateInductive, Types
  <1>2. h \notin Holders
    BY <1>1 DEF Holders
  <1>3. Holders' = Holders \cup {h}
    <2>1. ASSUME NEW g \in Coros \X (1 .. MaxHold)
          PROVE  g[2] <= holds'[g[1]] <=> g[2] <= holds[g[1]] \/ g = h
      <3>1. PICK b \in Coros, i \in 1 .. MaxHold : g = <<b, i>>
        OBVIOUS
      <3>2. holds[b] \in 0 .. MaxHold /\ holds'[b] = IF b = c THEN holds[b] + 1 ELSE holds[b]
        BY <1>1
      <3>3. i <= holds'[b] <=> i <= holds[b] \/ (b = c /\ i = holds[c] + 1)
        BY <1>1, <3>2
      <3> QED
        BY <3>1, <3>3
    <2>2. h \in Coros \X (1 .. MaxHold)
      BY <1>1
    <2> HIDE DEF h
    <2> QED
      BY <2>1, <2>2 DEF Holders
  <1> HIDE DEF h
  <1>4. IsFiniteSet(Holders') /\ Cardinality(Holders') = Cardinality(Holders) + 1
    BY <1>2, <1>3, FS_AddElement DEF GateInductive, Counted
  <1> QED
    BY <1>4 DEF GateInductive, Counted

LEMMA HolderLeaves ==
  ASSUME GateInductive, NEW c \in Coros, holds[c] > 0, holds' = [holds EXCEPT ![c] = @ - 1],
         count' = count - 1
  PROVE  Counted' /\ count > 0 /\ count' \in Nat
  <1> DEFINE h == <<c, holds[c]>>
  <1>1. holds[c] \in 0 .. MaxHold /\ MaxHold \in Nat /\ holds \in [Coros -> 0 .. MaxHold] /\ count \in Nat
    BY GateAssumption DEF GateInductive, Types
  <1>2. h \in Holders
    BY <1>1 DEF Holders
  <1>3. Holders' = Holders \ {h}
    <2>1. ASSUME NEW g \in Coros \X (1 .. MaxHold)
          PROVE  g[2] <= holds'[g[1]] <=> g[2] <= holds[g[1]] /\ g # h
      <3>1. PICK b \in Coros, i \in 1 .. MaxHold : g = <<b, i>>
        OBVIOUS
      <3>2. holds[b] \in 0 .. MaxHold /\ holds'[b] = IF b = c THEN holds[b] - 1 ELSE holds[b]
        BY <1>1
      <3>3. i <= holds'[b] <=> i <= holds[b] /\ ~(b = c /\ i = holds[c])
        BY <1>1, <3>2
      <3> QED
        BY <3>1, <3>3
    <2> HIDE DEF h
    <2> QED
      BY <2>1 DEF Holders
  <1> HIDE DEF h
  <1>4. IsFiniteSet(Holders') /\ Cardinality(Holders') = Cardinality(Holders) - 1
    BY <1>2, <1>3, FS_RemoveElement DEF GateInductive, Counted
  <1>5. count # 0
    BY <1>2, FS_EmptySet DEF GateInductive, Counted
  <1> QED
    BY <1>1, <1>4, <1>5 DEF GateInductive, Counted

LEMMA SameHolders == ASSUME GateInductive, UNCHANGED <<count, holds>> PROVE Counted'
  BY DEF GateInductive, Counted, Holders
-----------------------------------------------------------------------------
LEMMA InitInv == Init => GateInductive
  <1> SUFFICES ASSUME Init PROVE GateInductive
    OBVIOUS
  <1>1. /\ stack = <<>> /\ waiters = <<>> /\ Len(stack) = 0 /\ count = 0
        /\ \A c \in Coros : co[c] = "ready" /\ holds[c] = 0 /\ ~pending[c]
    BY DEF Init
  <1>2. Types
    <2>1. <<>> \in Seq(Coros)
      BY EmptySeq
    <2>2. co \in [Coros -> States] /\ pending \in [Coros -> BOOLEAN]
      BY DEF Init, States
    <2>3. holds \in [Coros -> 0 .. MaxHold]
      BY GateAssumption DEF Init
    <2>4. count \in Nat /\ closed \in BOOLEAN /\ waiters \in Seq(Coros)
      BY <2>1 DEF Init
    <2> QED
      BY <2>2, <2>3, <2>4 DEF Types
  <1>3. StackOK /\ ReturnedIsOnTop
    <2>1. <<>> \in Seq(StackFrames)
      BY EmptySeq
    <2> QED
      BY <1>1, <2>1 DEF StackOK, ReturnedIsOnTop, StackFine
  <1>4. EachOnce /\ ListedWait
    BY <1>1, EmptyList DEF EachOnce, ListedWait
  <1>5. Counted
    <2>1. Holders = {}
      BY <1>1 DEF Holders
    <2> QED
      BY <1>1, <2>1, FS_EmptySet DEF Counted
  <1>6. ClosedForThem
    BY <1>1 DEF ClosedForThem, CloseReturnsClosedAndEmpty
  <1> QED
    BY <1>2, <1>3, <1>4, <1>5, <1>6 DEF GateInductive

\* A coroutine on top of the stack goes on; stack and lists stay.
LEMMA SameStack ==
  ASSUME GateInductive, NEW c \in Coros, UNCHANGED <<stack, waiters>>,
         stack # <<>>, stack[1] = <<"co", c>>,
         co[c] \in {"running", "returned"}, co'[c] \in {"running", "returned"},
         \A b \in Coros : b # c => co'[b] = co[b]
  PROVE  StackOK' /\ ReturnedIsOnTop' /\ EachOnce' /\ ListedWait'
  <1>1. \A d \in 1 .. Len(stack) : At(stack, d)[1] = "co" => At(stack, d)[2] \in Coros
    BY ListsHoldWaiting, FrameAt DEF StackFrames
  <1>2. StackOK'
    <2>1. \A b \in Coros : Shape(co)[b] \notin Suspended => Shape(co')[b] \notin Suspended
      BY ShapeOf
    <2> QED
      BY <1>1, <2>1 DEF GateInductive, StackOK, StackFine
  <1>3. ReturnedIsOnTop'
    BY DEF GateInductive, ReturnedIsOnTop, Co
  <1>4. EachOnce'
    BY DEF GateInductive, EachOnce
  <1>5. ListedWait'
    BY ListsHoldWaiting DEF GateInductive, ListedWait, InSomeList
  <1> QED
    BY <1>2, <1>3, <1>4, <1>5

\* Who is not on top has not just returned from co_await close().
LEMMA OnlyTopReturned ==
  ASSUME GateInductive, NEW c \in Coros, stack # <<>> /\ stack[1] = <<"co", c>>
  PROVE  \A b \in Coros : co[b] = "returned" => b = c
  BY DEF GateInductive, ReturnedIsOnTop, Co

\* The frames with lists stay, the others have no list.
LEMMA KeptLists ==
  ASSUME GateInductive, UNCHANGED waiters,
         \A d \in 1 .. Len(stack') :
           \/ Listed(stack', d) = <<>>
           \/ d \in 1 .. Len(stack) /\ Listed(stack', d) = Listed(stack, d),
         \A d \in 1 .. Len(stack) :
           \/ Listed(stack, d) = <<>>
           \/ d \in 1 .. Len(stack') /\ Listed(stack', d) = Listed(stack, d),
         \A b \in Coros : co'[b] = "waiting" <=> co[b] = "waiting"
  PROVE  EachOnce' /\ ListedWait'
  <1>1. EachOnce'
    <2>1. \A d \in 1 .. Len(stack') : /\ Once(Listed(stack', d))
                                      /\ Disjoint(Listed(stack', d), waiters')
      BY EmptyList DEF GateInductive, EachOnce, Disjoint
    <2>2. \A d, e \in 1 .. Len(stack') :
            d # e => Disjoint(Listed(stack', d), Listed(stack', e))
      BY EmptyList DEF GateInductive, EachOnce, Disjoint
    <2> QED
      BY <2>1, <2>2 DEF GateInductive, EachOnce
  <1>2. ListedWait'
    <2>1. \A b \in R!Elements(waiters') : co'[b] = "waiting"
      BY ListsHoldWaiting
    <2>2. \A d \in 1 .. Len(stack') : \A b \in R!Elements(Listed(stack', d)) : co'[b] = "waiting"
      BY ListsHoldWaiting, EmptyList
    <2>3. \A b \in Coros : InSomeList(b) => InSomeList(b)'
      BY EmptyList DEF InSomeList
    <2> QED
      BY <2>1, <2>2, <2>3 DEF GateInductive, ListedWait
  <1> QED
    BY <1>1, <1>2

\* The coroutine on top suspends.
LEMMA PopCoro ==
  ASSUME GateInductive, NEW c \in Coros, stack # <<>>, stack[1] = <<"co", c>>, stack' = Tail(stack),
         co[c] = "running", co'[c] \in {"ready", "waiting"},
         \A b \in Coros : b # c => co'[b] = co[b]
  PROVE  /\ StackOK' /\ ReturnedIsOnTop'
         /\ \A d \in 1 .. Len(stack') :
              d \in 1 .. Len(stack) /\ Listed(stack', d) = Listed(stack, d)
         /\ \A d \in 1 .. Len(stack) :
              \/ Listed(stack, d) = <<>>
              \/ d \in 1 .. Len(stack') /\ Listed(stack', d) = Listed(stack, d)
  <1>1. stack \in Seq(StackFrames)
    BY ListsHoldWaiting
  <1>2. /\ At(stack, Len(stack)) = <<"co", c>>
        /\ \A d \in 1 .. Len(stack') : d \in 1 .. Len(stack) /\ Listed(stack', d) = Listed(stack, d)
        /\ \A d \in 1 .. Len(stack) : d # Len(stack) => d \in 1 .. Len(stack')
    BY <1>1, PopLists
  <1>3. Listed(stack, Len(stack)) = <<>>
    BY <1>2 DEF Listed
  <1>4. StackOK'
    <2>1. \A b \in Coros : stack[1] # <<"co", b>> => Shape(co')[b] = Shape(co)[b]
      BY DEF Shape
    <2> QED
      BY <2>1, PopFine DEF GateInductive, StackOK
  <1>5. ReturnedIsOnTop'
    <2>1. \A b \in Coros : co'[b] # "returned"
      BY OnlyTopReturned
    <2> QED
      BY <2>1 DEF ReturnedIsOnTop
  <1> QED
    BY <1>2, <1>3, <1>4, <1>5

LEMMA SuspendInv == ASSUME GateInductive, NEW c \in Coros, Suspend(c) PROVE GateInductive'
  <1>1. /\ stack # <<>> /\ stack[1] = <<"co", c>> /\ stack' = Tail(stack)
        /\ UNCHANGED <<count, closed, waiters, holds, pending>>
        /\ co[c] = "running" /\ co'[c] = "ready" /\ co' \in [Coros -> States]
        /\ \A b \in Coros : b # c => co'[b] = co[b]
    BY DEF Suspend, Running, Co, GateInductive, Types, States
  <1>2. /\ StackOK' /\ ReturnedIsOnTop'
        /\ \A d \in 1 .. Len(stack') :
             d \in 1 .. Len(stack) /\ Listed(stack', d) = Listed(stack, d)
        /\ \A d \in 1 .. Len(stack) :
             \/ Listed(stack, d) = <<>>
             \/ d \in 1 .. Len(stack') /\ Listed(stack', d) = Listed(stack, d)
    BY <1>1, PopCoro
  <1>3. \A b \in Coros : co'[b] = "waiting" <=> co[b] = "waiting"
    BY <1>1
  <1>4. EachOnce' /\ ListedWait'
    BY <1>1, <1>2, <1>3, KeptLists
  <1>5. Types'
    BY <1>1 DEF GateInductive, Types
  <1>6. ClosedForThem'
    <2>1. \A b \in Coros : co'[b] = "returned" => co[b] = "returned"
      BY <1>1
    <2>2. CloseReturnsClosedAndEmpty'
      BY <1>1, <2>1 DEF GateInductive, ClosedForThem, CloseReturnsClosedAndEmpty
    <2> QED
      BY <1>1, <1>2, <2>2 DEF GateInductive, ClosedForThem
  <1> QED
    BY <1>1, <1>2, <1>4, <1>5, <1>6, SameHolders DEF GateInductive

\* co_await close() of a gate that somebody is inside of.
LEMMA WaitInv == ASSUME GateInductive, NEW c \in Coros, AwaitClose(c), count # 0 PROVE GateInductive'
  <1>1. /\ stack # <<>> /\ stack[1] = <<"co", c>> /\ stack' = Tail(stack)
        /\ UNCHANGED <<count, closed, holds>>
        /\ waiters' = Append(waiters, c) /\ waiters' \in Seq(Coros)
        /\ pending[c] /\ pending' \in [Coros -> BOOLEAN]
        /\ \A b \in Coros : pending'[b] => pending[b]
        /\ co[c] = "running" /\ co'[c] = "waiting" /\ co' \in [Coros -> States]
        /\ \A b \in Coros : b # c => co'[b] = co[b]
    <2>1. /\ stack # <<>> /\ stack[1] = <<"co", c>> /\ stack' = Tail(stack)
          /\ UNCHANGED <<count, closed, holds>> /\ waiters' = Append(waiters, c)
          /\ co[c] = "running" /\ co' = [co EXCEPT ![c] = "waiting"]
          /\ pending[c] /\ pending' = [pending EXCEPT ![c] = FALSE]
      BY DEF AwaitClose, Running, Co
    <2>2. waiters' \in Seq(Coros)
      BY <2>1 DEF GateInductive, Types
    <2>3. pending' \in [Coros -> BOOLEAN] /\ \A b \in Coros : pending'[b] => pending[b]
      BY <2>1 DEF GateInductive, Types
    <2>4. /\ co'[c] = "waiting" /\ co' \in [Coros -> States]
          /\ \A b \in Coros : b # c => co'[b] = co[b]
      BY <2>1 DEF GateInductive, Types, States
    <2> QED
      BY <2>1, <2>2, <2>3, <2>4
  <1>2. /\ StackOK' /\ ReturnedIsOnTop'
        /\ \A d \in 1 .. Len(stack') :
             d \in 1 .. Len(stack) /\ Listed(stack', d) = Listed(stack, d)
        /\ \A d \in 1 .. Len(stack) :
             \/ Listed(stack, d) = <<>>
             \/ d \in 1 .. Len(stack') /\ Listed(stack', d) = Listed(stack, d)
    BY <1>1, PopCoro
  <1>3. /\ R!Elements(waiters') = R!Elements(waiters) \cup {c}
        /\ c \notin R!Elements(waiters)
        /\ Once(waiters) => Once(waiters')
        /\ \A d \in 1 .. Len(stack) : c \notin R!Elements(Listed(stack, d))
    BY <1>1, AppendList, ListsHoldWaiting DEF GateInductive, Types
  <1>4. EachOnce'
    <2>1. \A d \in 1 .. Len(stack') : /\ Once(Listed(stack', d))
                                      /\ Disjoint(Listed(stack', d), waiters')
      <3> SUFFICES ASSUME NEW d \in 1 .. Len(stack')
                   PROVE  Once(Listed(stack', d)) /\ Disjoint(Listed(stack', d), waiters')
        OBVIOUS
      <3>1. d \in 1 .. Len(stack) /\ Listed(stack', d) = Listed(stack, d)
        BY <1>2
      <3>2. /\ Once(Listed(stack, d)) /\ Disjoint(Listed(stack, d), waiters)
            /\ c \notin R!Elements(Listed(stack, d))
        BY <1>3, <3>1 DEF GateInductive, EachOnce
      <3> QED
        BY <1>3, <3>1, <3>2 DEF Disjoint
    <2>2. \A d, e \in 1 .. Len(stack') :
            d # e => Disjoint(Listed(stack', d), Listed(stack', e))
      BY <1>2 DEF GateInductive, EachOnce
    <2> QED
      BY <1>3, <2>1, <2>2 DEF GateInductive, EachOnce
  <1>5. ListedWait'
    <2>1. \A b \in R!Elements(waiters') : co'[b] = "waiting"
      BY <1>1, <1>3, ListsHoldWaiting
    <2>2. \A d \in 1 .. Len(stack') : \A b \in R!Elements(Listed(stack', d)) : co'[b] = "waiting"
      BY <1>1, <1>2, ListsHoldWaiting
    <2>3. ASSUME NEW b \in Coros, co'[b] = "waiting" PROVE InSomeList(b)'
      <3>1. b = c \/ InSomeList(b)
        BY <1>1, <2>3 DEF GateInductive, ListedWait
      <3> QED
        BY <1>2, <1>3, <3>1, EmptyList DEF InSomeList
    <2> QED
      BY <2>1, <2>2, <2>3 DEF ListedWait
  <1>6. Types'
    BY <1>1 DEF GateInductive, Types
  <1>7. ClosedForThem'
    <2>1. closed /\ count > 0
      BY <1>1 DEF GateInductive, Types, ClosedForThem
    <2>2. CloseReturnsClosedAndEmpty'
      BY <1>1 DEF GateInductive, ClosedForThem, CloseReturnsClosedAndEmpty
    <2>3. \A d \in 1 .. Len(stack') : Listed(stack', d) # <<>> => closed' /\ count' = 0
      BY <1>1, <1>2 DEF GateInductive, ClosedForThem
    <2> QED
      BY <1>1, <2>1, <2>2, <2>3 DEF ClosedForThem
  <1> QED
    BY <1>1, <1>2, <1>4, <1>5, <1>6, <1>7, SameHolders DEF GateInductive

\* The actions of a coroutine that leave stack and lists as they are.
LEMMA EnterInv == ASSUME GateInductive, NEW c \in Coros, Enter(c) PROVE GateInductive'
  <1>1. /\ UNCHANGED <<closed, waiters, stack, co, pending>>
        /\ stack # <<>> /\ stack[1] = <<"co", c>> /\ co[c] = "running"
        /\ ~closed /\ holds[c] < MaxHold
        /\ count' = count + 1 /\ holds' = [holds EXCEPT ![c] = @ + 1]
    BY DEF Enter, Free, Running, Co
  <1>2. StackOK' /\ ReturnedIsOnTop' /\ EachOnce' /\ ListedWait'
    BY <1>1, SameStack
  <1>3. Counted'
    BY <1>1, HolderEnters
  <1>4. Types'
    <2>1. holds' \in [Coros -> 0 .. MaxHold]
      BY <1>1, GateAssumption DEF GateInductive, Types
    <2> QED
      BY <1>1, <2>1 DEF GateInductive, Types
  <1>5. ClosedForThem'
    BY <1>1 DEF GateInductive, ClosedForThem, CloseReturnsClosedAndEmpty
  <1> QED
    BY <1>2, <1>3, <1>4, <1>5 DEF GateInductive

LEMMA CloseInv == ASSUME GateInductive, NEW c \in Coros, Close(c) PROVE GateInductive'
  <1>1. /\ UNCHANGED <<count, waiters, stack, co, holds>>
        /\ stack # <<>> /\ stack[1] = <<"co", c>> /\ co[c] = "running"
        /\ closed' = TRUE /\ pending' = [pending EXCEPT ![c] = TRUE]
    BY DEF Close, Free, Running, Co
  <1>2. StackOK' /\ ReturnedIsOnTop' /\ EachOnce' /\ ListedWait'
    BY <1>1, SameStack
  <1>3. Types'
    BY <1>1 DEF GateInductive, Types
  <1>4. ClosedForThem'
    BY <1>1 DEF GateInductive, ClosedForThem, CloseReturnsClosedAndEmpty
  <1> QED
    BY <1>1, <1>2, <1>3, <1>4, SameHolders DEF GateInductive

LEMMA ReturnInv == ASSUME GateInductive, NEW c \in Coros, AwaitClose(c), count = 0 PROVE GateInductive'
  <1>1. /\ UNCHANGED <<count, closed, waiters, stack, holds>>
        /\ stack # <<>> /\ stack[1] = <<"co", c>> /\ co[c] = "running"
        /\ pending[c] /\ pending' \in [Coros -> BOOLEAN]
        /\ \A b \in Coros : pending'[b] => pending[b]
        /\ co'[c] = "returned" /\ co' \in [Coros -> States]
        /\ \A b \in Coros : b # c => co'[b] = co[b]
    BY DEF AwaitClose, Running, Co, GateInductive, Types, States
  <1>2. StackOK' /\ ReturnedIsOnTop' /\ EachOnce' /\ ListedWait'
    BY <1>1, SameStack
  <1>3. Types'
    BY <1>1 DEF GateInductive, Types
  <1>4. ClosedForThem'
    <2>1. closed
      BY <1>1 DEF GateInductive, ClosedForThem
    <2> QED
      BY <1>1, <2>1 DEF GateInductive, ClosedForThem, CloseReturnsClosedAndEmpty
  <1> QED
    BY <1>1, <1>2, <1>3, <1>4, SameHolders DEF GateInductive

LEMMA ContinueInv == ASSUME GateInductive, NEW c \in Coros, Continue(c) PROVE GateInductive'
  <1>1. /\ UNCHANGED <<count, closed, waiters, stack, holds, pending>>
        /\ stack # <<>> /\ stack[1] = <<"co", c>> /\ co[c] = "returned"
        /\ co'[c] = "running" /\ co' \in [Coros -> States]
        /\ \A b \in Coros : b # c => co'[b] = co[b]
    BY DEF Continue, Co, GateInductive, Types, States
  <1>2. StackOK' /\ ReturnedIsOnTop' /\ EachOnce' /\ ListedWait'
    BY <1>1, SameStack
  <1>3. Types'
    BY <1>1 DEF GateInductive, Types
  <1>4. ClosedForThem'
    BY <1>1 DEF GateInductive, ClosedForThem, CloseReturnsClosedAndEmpty
  <1> QED
    BY <1>1, <1>2, <1>3, <1>4, SameHolders DEF GateInductive

LEMMA ReopenInv == ASSUME GateInductive, NEW c \in Coros, Reopen(c) PROVE GateInductive'
  <1>1. /\ UNCHANGED <<count, waiters, stack, co, holds, pending>>
        /\ stack # <<>> /\ stack[1] = <<"co", c>> /\ co[c] = "running"
        /\ closed' = FALSE /\ waiters = <<>> /\ Popped = {} /\ \A b \in Coros : ~pending[b]
    BY DEF Reopen, Free, Running, Co
  <1>2. StackOK' /\ ReturnedIsOnTop' /\ EachOnce' /\ ListedWait'
    BY <1>1, SameStack
  <1>3. Types'
    BY <1>1 DEF GateInductive, Types
  <1>4. \A d \in 1 .. Len(stack) : Listed(stack, d) = <<>>
    <2> SUFFICES ASSUME NEW d \in 1 .. Len(stack), Listed(stack, d) # <<>> PROVE FALSE
      OBVIOUS
    <2>1. R!Elements(Listed(stack, d)) # {}
      BY ListsHoldWaiting, NonEmptyList
    <2> QED
      BY <1>1, <2>1, ListsHoldWaiting, PoppedByDepth
  <1>5. \A b \in Coros : co[b] # "returned"
    BY <1>1, OnlyTopReturned
  <1>6. ClosedForThem'
    BY <1>1, <1>4, <1>5 DEF ClosedForThem, CloseReturnsClosedAndEmpty
  <1> QED
    BY <1>1, <1>2, <1>3, <1>6, SameHolders DEF GateInductive

\* leave() that is not the last, or of a gate that is open.
LEMMA LeaveInv ==
  ASSUME GateInductive, NEW c \in Coros, Leave(c), ~(closed /\ count = 1)
  PROVE  GateInductive'
  <1>1. /\ UNCHANGED <<closed, waiters, stack, co, pending>>
        /\ stack # <<>> /\ stack[1] = <<"co", c>> /\ co[c] = "running"
        /\ holds[c] > 0
        /\ count' = count - 1 /\ holds' = [holds EXCEPT ![c] = @ - 1]
    BY DEF Leave, Free, Running, Co
  <1>2. StackOK' /\ ReturnedIsOnTop' /\ EachOnce' /\ ListedWait'
    BY <1>1, SameStack
  <1>3. Counted' /\ count > 0 /\ count' \in Nat
    BY <1>1, HolderLeaves
  <1>4. Types'
    <2>1. holds' \in [Coros -> 0 .. MaxHold]
      BY <1>1, GateAssumption DEF GateInductive, Types
    <2> QED
      BY <1>1, <1>3, <2>1 DEF GateInductive, Types
  <1>5. ClosedForThem'
    <2>1. closed => count' > 0
      BY <1>1, <1>3 DEF GateInductive, Types
    <2> QED
      BY <1>1, <1>3, <2>1 DEF GateInductive, ClosedForThem, CloseReturnsClosedAndEmpty
  <1> QED
    BY <1>2, <1>3, <1>4, <1>5 DEF GateInductive

\* The last leave() of a closed gate, with a loop over the waiters.
LEMMA LastLeaveInv == ASSUME GateInductive, NEW c \in Coros, Leave(c), closed, count = 1 PROVE GateInductive'
  <1>1. /\ UNCHANGED <<closed, co, pending>>
        /\ stack' = <<<<"walk", waiters>>>> \o stack /\ waiters' = <<>>
        /\ stack # <<>> /\ stack[1] = <<"co", c>> /\ co[c] = "running"
        /\ holds[c] > 0
        /\ count' = count - 1 /\ holds' = [holds EXCEPT ![c] = @ - 1]
    BY DEF Leave, Free, Running, Co, Walk
  <1>2. stack \in Seq(StackFrames) /\ <<"walk", waiters>> \in StackFrames
    BY ListsHoldWaiting DEF GateInductive, Types, StackFrames
  <1>3. /\ stack' \in Seq(StackFrames) /\ stack' # <<>>
        /\ Len(stack') \in 1 .. Len(stack')
        /\ Listed(stack', Len(stack')) = waiters
        /\ \A d \in 1 .. Len(stack') : d # Len(stack') => d \in 1 .. Len(stack)
        /\ \A d \in 1 .. Len(stack) : /\ d \in 1 .. Len(stack') /\ d # Len(stack')
                                      /\ Listed(stack', d) = Listed(stack, d)
    <2>1. stack' = WithWalk(stack, waiters) /\ waiters \in Seq(Coros)
      BY <1>1 DEF WithWalk, GateInductive, Types
    <2> QED
      BY <1>2, <2>1, PushWalk
  <1>4. Counted' /\ count' = 0
    <2>1. Counted'
      BY <1>1, HolderLeaves
    <2>2. count' = 0
      BY <1>1
    <2> QED
      BY <2>1, <2>2
  <1>5. Types'
    <2>1. holds' \in [Coros -> 0 .. MaxHold]
      BY <1>1, GateAssumption DEF GateInductive, Types
    <2>2. waiters' \in Seq(Coros)
      BY <1>1, EmptySeq
    <2> QED
      BY <1>1, <1>4, <2>1, <2>2 DEF GateInductive, Types
  <1>6. StackOK'
    <2>1. \A b \in Coros : <<"walk", waiters>> # <<"co", b>>
      OBVIOUS
    <2>2. StackFine(stack, Shape(co)) /\ Shape(co') = Shape(co)
      BY <1>1 DEF GateInductive, StackOK
    <2>3. StackFine(<<<<"walk", waiters>>>> \o stack, Shape(co))
      <3>1. \A b \in Coros : <<"walk", waiters>> = <<"co", b>> =>
              Shape(co)[b] \in Suspended /\ Shape(co)[b] \notin Suspended
        BY <2>1
      <3>2. \A x \in StackFrames :
              (\A b \in Coros : x = <<"co", b>> =>
                 Shape(co)[b] \in Suspended /\ Shape(co)[b] \notin Suspended) =>
              StackFine(<<x>> \o stack, Shape(co))
        BY <2>2, PushFine
      <3> QED
        BY <1>2, <3>1, <3>2
    <2> QED
      BY <1>1, <2>2, <2>3 DEF StackOK
  <1>7. /\ \A b \in Coros : co'[b] # "returned"
        /\ ReturnedIsOnTop'
    BY <1>1, OnlyTopReturned DEF ReturnedIsOnTop
  <1>8. EachOnce'
    <2>1. Once(waiters')
      BY <1>1, EmptyList
    <2>2. \A d \in 1 .. Len(stack') : /\ Once(Listed(stack', d))
                                      /\ Disjoint(Listed(stack', d), waiters')
      BY <1>1, <1>3, EmptyList DEF GateInductive, EachOnce, Disjoint
    <2>3. \A d, e \in 1 .. Len(stack') :
            d # e => Disjoint(Listed(stack', d), Listed(stack', e))
      BY <1>3 DEF GateInductive, EachOnce, Disjoint
    <2> QED
      BY <2>1, <2>2, <2>3 DEF EachOnce
  <1>9. ListedWait'
    <2>1. \A d \in 1 .. Len(stack') : \A b \in R!Elements(Listed(stack', d)) : co'[b] = "waiting"
      BY <1>1, <1>3, ListsHoldWaiting
    <2>2. \A b \in Coros : InSomeList(b) => InSomeList(b)'
      BY <1>3 DEF InSomeList
    <2> QED
      BY <1>1, <2>1, <2>2, EmptyList DEF GateInductive, ListedWait
  <1>10. ClosedForThem'
    BY <1>1, <1>4, <1>7 DEF ClosedForThem, CloseReturnsClosedAndEmpty
  <1> QED
    BY <1>4, <1>5, <1>6, <1>7, <1>8, <1>9, <1>10 DEF GateInductive

\* The event loop resumes a coroutine.
LEMMA ScheduleInv == ASSUME GateInductive, NEW c \in Coros, Schedule(c) PROVE GateInductive'
  <1>1. /\ stack = <<>> /\ stack' = <<<<"co", c>>>> \o stack
        /\ UNCHANGED <<count, closed, waiters, holds, pending>>
        /\ co[c] = "ready" /\ co'[c] = "running" /\ co' \in [Coros -> States]
        /\ \A b \in Coros : b # c => co'[b] = co[b]
    BY DEF Schedule, Co, GateInductive, Types, States
  <1>2. stack \in Seq(StackFrames) /\ <<"co", c>> \in StackFrames
    BY ListsHoldWaiting DEF StackFrames
  <1>3. /\ Listed(stack', Len(stack')) = <<>>
        /\ \A d \in 1 .. Len(stack') : d # Len(stack') => d \in 1 .. Len(stack)
        /\ \A d \in 1 .. Len(stack) : /\ d \in 1 .. Len(stack') /\ d # Len(stack')
                                      /\ Listed(stack', d) = Listed(stack, d)
    <2>1. stack' = WithCoro(stack, c)
      BY <1>1 DEF WithCoro
    <2> QED
      BY <1>2, <2>1, PushCoro
  <1>4. \A b \in Coros : co'[b] = "waiting" <=> co[b] = "waiting"
    BY <1>1
  <1>5. EachOnce' /\ ListedWait'
    BY <1>1, <1>3, <1>4, KeptLists
  <1>6. StackOK'
    <2>1. /\ \A b \in Coros : Shape(co)[b] \notin Suspended => Shape(co')[b] \notin Suspended
          /\ \A b \in Coros : <<"co", c>> = <<"co", b>> =>
               Shape(co)[b] \in Suspended /\ Shape(co')[b] \notin Suspended
      BY <1>1, ShapeOf
    <2>2. StackFine(stack, Shape(co))
      BY DEF GateInductive, StackOK
    <2>3. StackFine(<<<<"co", c>>>> \o stack, Shape(co'))
      BY <1>2, <2>1, <2>2, PushFine
    <2> QED
      BY <1>1, <2>3 DEF StackOK
  <1>7. /\ \A b \in Coros : co'[b] # "returned"
        /\ ReturnedIsOnTop'
    BY <1>1 DEF GateInductive, ReturnedIsOnTop
  <1>8. Types'
    BY <1>1 DEF GateInductive, Types
  <1>9. ClosedForThem'
    <2>1. \A d \in 1 .. Len(stack') : Listed(stack', d) # <<>> => closed' /\ count' = 0
      BY <1>1, <1>3 DEF GateInductive, ClosedForThem
    <2> QED
      BY <1>1, <1>7, <2>1 DEF GateInductive, ClosedForThem, CloseReturnsClosedAndEmpty
  <1> QED
    BY <1>1, <1>5, <1>6, <1>7, <1>8, <1>9, SameHolders DEF GateInductive

\* The loop of leave() on top of the stack, and who else is executed: nobody.
LEMMA WalkOnTop ==
  ASSUME GateInductive, WalkNext
  PROVE  \E list \in Seq(Coros) :
           /\ stack # <<>> /\ stack[1] = <<"walk", list>> /\ stack[1][2] = list
           /\ Len(stack) \in 1 .. Len(stack) /\ Listed(stack, Len(stack)) = list
           /\ \A b \in Coros : co[b] # "returned"
  <1>1. stack \in Seq(StackFrames) /\ stack # <<>> /\ stack[1][1] = "walk"
    BY ListsHoldWaiting DEF WalkNext
  <1>2. /\ Len(stack) \in 1 .. Len(stack) /\ stack[1] \in StackFrames
        /\ At(stack, Len(stack)) = stack[1]
    BY <1>1, PopLists
  <1>3. PICK list \in Seq(Coros) : stack[1] = <<"walk", list>>
    BY <1>1, <1>2 DEF StackFrames
  <1>4. stack[1][2] = list /\ Listed(stack, Len(stack)) = list
    BY <1>2, <1>3 DEF Listed
  <1>5. \A b \in Coros : co[b] # "returned"
    BY <1>3 DEF GateInductive, ReturnedIsOnTop, Co
  <1> QED
    BY <1>1, <1>2, <1>3, <1>4, <1>5

\* The loop is over; who called leave() goes on.
LEMMA WalkEndInv == ASSUME GateInductive, WalkNext, stack[1][2] = <<>> PROVE GateInductive'
  <1>1. /\ stack # <<>> /\ stack[1] = <<"walk", <<>>>>
        /\ Len(stack) \in 1 .. Len(stack) /\ Listed(stack, Len(stack)) = <<>>
        /\ \A b \in Coros : co[b] # "returned"
    BY WalkOnTop
  <1>2. stack' = Tail(stack) /\ UNCHANGED <<count, closed, waiters, co, holds, pending>>
    BY DEF WalkNext
  <1>3. /\ \A d \in 1 .. Len(stack') : d \in 1 .. Len(stack) /\ Listed(stack', d) = Listed(stack, d)
        /\ \A d \in 1 .. Len(stack) : d # Len(stack) => d \in 1 .. Len(stack')
    BY <1>1, <1>2, ListsHoldWaiting, PopLists
  <1>4. EachOnce' /\ ListedWait'
    BY <1>1, <1>2, <1>3, KeptLists
  <1>5. StackOK'
    <2>1. StackFine(stack, Shape(co)) /\ Shape(co') = Shape(co)
      BY <1>2 DEF GateInductive, StackOK
    <2>2. StackFine(Tail(stack), Shape(co))
      BY <1>1, <2>1, PopFine
    <2> QED
      BY <1>2, <2>1, <2>2 DEF StackOK
  <1>6. Types' /\ ReturnedIsOnTop'
    BY <1>1, <1>2 DEF GateInductive, Types, ReturnedIsOnTop
  <1>7. ClosedForThem'
    BY <1>1, <1>2, <1>3 DEF GateInductive, ClosedForThem, CloseReturnsClosedAndEmpty
  <1> QED
    BY <1>2, <1>4, <1>5, <1>6, <1>7, SameHolders DEF GateInductive

\* The stack after a round of the loop: the coroutine above the rest of it.
LEMMA ResumedStack ==
  ASSUME NEW s \in Seq(StackFrames), s # <<>>, NEW h \in Coros, NEW t \in Seq(Coros), NEW r,
         r = Resumed(s, h, t)
  PROVE  /\ r = <<<<"co", h>>>> \o (<<<<"walk", t>>>> \o Tail(s))
         /\ <<"co", h>> \in StackFrames /\ <<"walk", t>> \in StackFrames
         /\ r # <<>> /\ r[1] = <<"co", h>>
         /\ Len(s) \in 1 .. Len(r) /\ Listed(r, Len(s)) = t
         /\ \A d \in 1 .. Len(r) : \/ Listed(r, d) = <<>>
                                   \/ d = Len(s)
                                   \/ d \in 1 .. Len(s) /\ Listed(r, d) = Listed(s, d)
         /\ \A d \in 1 .. Len(s) : d # Len(s) => d \in 1 .. Len(r) /\ Listed(r, d) = Listed(s, d)
  <1>1. /\ <<"co", h>> \in StackFrames /\ <<"walk", t>> \in StackFrames
        /\ r = <<<<"co", h>>>> \o (<<<<"walk", t>>>> \o Tail(s))
        /\ r # <<>> /\ r[1] = <<"co", h>> /\ Len(r) = Len(s) + 1
    BY ResumedShape
  <1>2. Listed(r, Len(s) + 1) = <<>> /\ Listed(r, Len(s)) = t
    BY ResumedTop
  <1>3. \A d \in 1 .. Len(s) - 1 : Listed(r, d) = Listed(s, d)
    BY ResumedBelow
  <1>4. Len(s) \in Nat \ {0}
    BY PopFrame
  <1>5. ASSUME NEW m \in Nat \ {0}, NEW n, n = m + 1
        PROVE  /\ m \in 1 .. n
               /\ \A d \in 1 .. n : d = m + 1 \/ d = m \/ (d \in 1 .. m - 1 /\ d \in 1 .. m)
               /\ \A d \in 1 .. m : d # m => d \in 1 .. m - 1 /\ d \in 1 .. n
    BY <1>5
  <1>6. /\ Len(s) \in 1 .. Len(r)
        /\ \A d \in 1 .. Len(r) : d = Len(s) + 1 \/ d = Len(s) \/ (d \in 1 .. Len(s) - 1 /\ d \in 1 .. Len(s))
        /\ \A d \in 1 .. Len(s) : d # Len(s) => d \in 1 .. Len(s) - 1 /\ d \in 1 .. Len(r)
    BY <1>1, <1>4, <1>5
  <1> QED
    BY <1>1, <1>2, <1>3, <1>6

\* The loop resumes the next waiter, whose co_await close() returns.
LEMMA WalkResumeInv == ASSUME GateInductive, WalkNext, stack[1][2] # <<>> PROVE GateInductive'
  <1>1. PICK list \in Seq(Coros) :
          /\ stack # <<>> /\ stack[1] = <<"walk", list>> /\ stack[1][2] = list
          /\ Len(stack) \in 1 .. Len(stack) /\ Listed(stack, Len(stack)) = list
          /\ \A b \in Coros : co[b] # "returned"
    BY WalkOnTop
  <1>2. PICK h \in Coros, t \in Seq(Coros) :
          /\ h = Head(list) /\ t = Tail(list)
          /\ R!Elements(list) = {h} \cup R!Elements(t)
          /\ Once(list) => Once(t) /\ h \notin R!Elements(t)
    BY <1>1, TailList
  <1>3. /\ stack' = Resumed(stack, h, t)
        /\ co' = [co EXCEPT ![h] = "returned"]
        /\ UNCHANGED <<count, closed, waiters, holds, pending>>
    BY <1>1, <1>2 DEF WalkNext, Resumed, Co, Walk
  <1>4. /\ stack \in Seq(StackFrames)
        /\ Once(list) /\ Disjoint(list, waiters)
        /\ co[h] = "waiting" /\ closed /\ count = 0
    BY <1>1, <1>2, ListsHoldWaiting DEF GateInductive, EachOnce, ClosedForThem
  <1>5. Once(t) /\ h \notin R!Elements(t)
    BY <1>2, <1>4
  <1>6. /\ co'[h] = "returned" /\ co' \in [Coros -> States]
        /\ \A b \in Coros : b # h => co'[b] = co[b]
    BY <1>3 DEF GateInductive, Types, States
  <1>7. /\ stack' = <<<<"co", h>>>> \o (<<<<"walk", t>>>> \o Tail(stack))
        /\ <<"co", h>> \in StackFrames /\ <<"walk", t>> \in StackFrames
        /\ stack' # <<>> /\ stack'[1] = <<"co", h>>
        /\ Len(stack) \in 1 .. Len(stack') /\ Listed(stack', Len(stack)) = t
        /\ \A d \in 1 .. Len(stack') : \/ Listed(stack', d) = <<>>
                                       \/ d = Len(stack)
                                       \/ d \in 1 .. Len(stack) /\ Listed(stack', d) = Listed(stack, d)
        /\ \A d \in 1 .. Len(stack) : d # Len(stack) =>
             d \in 1 .. Len(stack') /\ Listed(stack', d) = Listed(stack, d)
    BY <1>1, <1>3, <1>4, ResumedStack
  <1>8. StackOK'
    <2>1. StackFine(Tail(stack), Shape(co))
      BY <1>1, PopFine DEF GateInductive, StackOK
    <2>2. StackFine(<<<<"walk", t>>>> \o Tail(stack), Shape(co))
      <3>1. \A b \in Coros : <<"walk", t>> = <<"co", b>> =>
              Shape(co)[b] \in Suspended /\ Shape(co)[b] \notin Suspended
        OBVIOUS
      <3>2. <<"walk", t>> \in StackFrames
        BY <1>7
      <3>3. \A x \in StackFrames :
              (\A b \in Coros : x = <<"co", b>> =>
                 Shape(co)[b] \in Suspended /\ Shape(co)[b] \notin Suspended) =>
              StackFine(<<x>> \o Tail(stack), Shape(co))
        BY <2>1, PushFine
      <3> QED
        BY <3>1, <3>2, <3>3
    <2>3. /\ \A b \in Coros : Shape(co)[b] \notin Suspended => Shape(co')[b] \notin Suspended
          /\ \A b \in Coros : <<"co", h>> = <<"co", b>> =>
               Shape(co)[b] \in Suspended /\ Shape(co')[b] \notin Suspended
      BY <1>4, <1>6, ShapeOf
    <2>4. StackFine(<<<<"co", h>>>> \o (<<<<"walk", t>>>> \o Tail(stack)), Shape(co'))
      BY <1>7, <2>2, <2>3, PushFine
    <2> QED
      BY <1>7, <2>4 DEF StackOK
  <1>9. ReturnedIsOnTop'
    BY <1>1, <1>6, <1>7 DEF ReturnedIsOnTop, Co
  <1>10. EachOnce'
    <2>1. \A d \in 1 .. Len(stack) : d # Len(stack) =>
            /\ Disjoint(t, Listed(stack, d)) /\ Disjoint(Listed(stack, d), t)
            /\ Once(Listed(stack, d)) /\ Disjoint(Listed(stack, d), waiters)
      BY <1>1, <1>2 DEF GateInductive, EachOnce, Disjoint
    <2>2. Disjoint(t, waiters)
      BY <1>2, <1>4 DEF Disjoint
    <2>3. \A d \in 1 .. Len(stack') : /\ Once(Listed(stack', d))
                                      /\ Disjoint(Listed(stack', d), waiters')
      <3> SUFFICES ASSUME NEW d \in 1 .. Len(stack')
                   PROVE  Once(Listed(stack', d)) /\ Disjoint(Listed(stack', d), waiters')
        OBVIOUS
      <3>1. CASE Listed(stack', d) = <<>>
        BY <3>1, EmptyList DEF Disjoint
      <3>2. CASE d = Len(stack)
        BY <1>3, <1>5, <1>7, <2>2, <3>2
      <3>3. CASE d # Len(stack) /\ d \in 1 .. Len(stack) /\ Listed(stack', d) = Listed(stack, d)
        BY <1>3, <2>1, <3>3
      <3> QED
        BY <1>7, <3>1, <3>2, <3>3
    <2>4. ASSUME NEW d \in 1 .. Len(stack'), NEW e \in 1 .. Len(stack'), d # e
          PROVE  Disjoint(Listed(stack', d), Listed(stack', e))
      <3>1. CASE Listed(stack', d) = <<>> \/ Listed(stack', e) = <<>>
        BY <3>1, EmptyList DEF Disjoint
      <3>2. CASE d = Len(stack) /\ e \in 1 .. Len(stack) /\ Listed(stack', e) = Listed(stack, e)
        BY <1>7, <2>1, <2>4, <3>2
      <3>3. CASE e = Len(stack) /\ d \in 1 .. Len(stack) /\ Listed(stack', d) = Listed(stack, d)
        BY <1>7, <2>1, <2>4, <3>3
      <3>4. CASE /\ d \in 1 .. Len(stack) /\ Listed(stack', d) = Listed(stack, d)
                 /\ e \in 1 .. Len(stack) /\ Listed(stack', e) = Listed(stack, e)
        BY <2>4, <3>4 DEF GateInductive, EachOnce
      <3>5. /\ \/ Listed(stack', d) = <<>> \/ d = Len(stack)
               \/ d \in 1 .. Len(stack) /\ Listed(stack', d) = Listed(stack, d)
            /\ \/ Listed(stack', e) = <<>> \/ e = Len(stack)
               \/ e \in 1 .. Len(stack) /\ Listed(stack', e) = Listed(stack, e)
        BY <1>7
      <3> QED
        BY <2>4, <3>1, <3>2, <3>3, <3>4, <3>5
    <2> QED
      BY <1>3, <2>3, <2>4 DEF GateInductive, EachOnce
  <1>11. ListedWait'
    <2>1. \A b \in R!Elements(waiters) : b \in Coros /\ co[b] = "waiting" /\ b # h
      BY <1>2, <1>4, ListsHoldWaiting DEF Disjoint
    <2>2. ASSUME NEW d \in 1 .. Len(stack'), NEW b \in R!Elements(Listed(stack', d))
          PROVE  b \in Coros /\ co[b] = "waiting" /\ b # h
      <3>1. CASE d = Len(stack)
        BY <1>1, <1>2, <1>5, <1>7, <2>2, <3>1, ListsHoldWaiting
      <3>2. CASE d # Len(stack)
        <4>1. d \in 1 .. Len(stack) /\ Listed(stack', d) = Listed(stack, d)
          BY <1>7, <2>2, <3>2, EmptyList
        <4>2. Disjoint(Listed(stack, d), list)
          BY <1>1, <3>2, <4>1 DEF GateInductive, EachOnce
        <4> QED
          BY <1>2, <2>2, <4>1, <4>2, ListsHoldWaiting DEF Disjoint
      <3> QED
        BY <3>1, <3>2
    <2>3. ASSUME NEW b \in Coros, b # h, InSomeList(b) PROVE InSomeList(b)'
      <3>1. CASE b \in R!Elements(waiters)
        BY <1>3, <3>1 DEF InSomeList
      <3>2. ASSUME NEW d \in 1 .. Len(stack), b \in R!Elements(Listed(stack, d))
            PROVE  \E e \in 1 .. Len(stack') : b \in R!Elements(Listed(stack', e))
        <4>1. CASE d = Len(stack)
          BY <1>1, <1>2, <1>7, <2>3, <3>2, <4>1
        <4>2. CASE d # Len(stack)
          BY <1>7, <3>2, <4>2
        <4> QED
          BY <4>1, <4>2
      <3> QED
        BY <2>3, <3>1, <3>2 DEF InSomeList
    <2> QED
      BY <1>3, <1>6, <2>1, <2>2, <2>3 DEF GateInductive, ListedWait
  <1>12. Types'
    BY <1>3, <1>6 DEF GateInductive, Types
  <1>13. ClosedForThem'
    BY <1>3, <1>4 DEF GateInductive, ClosedForThem, CloseReturnsClosedAndEmpty
  <1> QED
    BY <1>3, <1>8, <1>9, <1>10, <1>11, <1>12, <1>13, SameHolders DEF GateInductive
-----------------------------------------------------------------------------
LEMMA Invariance == Spec => []GateInductive
  <1>1. GateInductive /\ [Next]_vars => GateInductive'
    <2> SUFFICES ASSUME GateInductive, [Next]_vars PROVE GateInductive'
      OBVIOUS
    <2>1. CASE WalkNext
      BY <2>1, WalkEndInv, WalkResumeInv
    <2>2. ASSUME NEW c \in Coros,
                 \/ Schedule(c) \/ Suspend(c) \/ Enter(c) \/ Leave(c)
                 \/ Close(c) \/ AwaitClose(c) \/ Continue(c) \/ Reopen(c)
          PROVE  GateInductive'
      <3>1. CASE Schedule(c) \/ Suspend(c)
        BY <3>1, ScheduleInv, SuspendInv
      <3>2. CASE Enter(c) \/ Leave(c)
        BY <3>2, EnterInv, LeaveInv, LastLeaveInv
      <3>3. CASE Close(c) \/ AwaitClose(c)
        BY <3>3, CloseInv, ReturnInv, WaitInv
      <3>4. CASE Continue(c) \/ Reopen(c)
        BY <3>4, ContinueInv, ReopenInv
      <3> QED
        BY <2>2, <3>1, <3>2, <3>3, <3>4
    <2>3. CASE UNCHANGED vars
      <3>1. UNCHANGED <<count, closed, waiters, stack, co, holds, pending>>
        BY <2>3 DEF vars
      <3>2. Types' /\ StackOK' /\ ReturnedIsOnTop' /\ EachOnce'
        BY <3>1 DEF GateInductive, Types, StackOK, ReturnedIsOnTop, EachOnce
      <3>3. ListedWait' /\ ClosedForThem'
        BY <3>1 DEF GateInductive, ListedWait, InSomeList, ClosedForThem, CloseReturnsClosedAndEmpty
      <3> QED
        BY <3>1, <3>2, <3>3, SameHolders DEF GateInductive
    <2> QED
      BY <2>1, <2>2, <2>3 DEF Next
  <1> QED
    BY <1>1, InitInv, PTL DEF Spec

(***************************************************************************)
(* co_await close() returns with the gate closed and empty, also to those  *)
(* whom leave() resumes behind others that have used the gate meanwhile,   *)
(* and who waits has somebody inside, or a leave(), that will resume it:   *)
(* for any number of coroutines and holders and any nesting of leave().    *)
(***************************************************************************)
THEOREM GateIsSafe == Spec => []GateInv
  <1>1. GateInductive => GateInv
    <2> SUFFICES ASSUME GateInductive PROVE TypeOK /\ WaitersHaveSomebodyToWakeThem
      BY DEF GateInductive, ClosedForThem, GateInv
    <2>1. ASSUME NEW k \in DOMAIN stack, stack[k][1] = "co"
          PROVE  co[stack[k][2]] \in {"running", "returned"}
      <3>1. Len(stack) + 1 - k \in 1 .. Len(stack) /\ At(stack, Len(stack) + 1 - k) = stack[k]
        BY ListsHoldWaiting DEF At
      <3>2. stack[k] \in StackFrames /\ Shape(co)[stack[k][2]] \notin Suspended
        BY <2>1, <3>1, FrameAt DEF GateInductive, StackOK, StackFine
      <3>3. stack[k][2] \in Coros
        BY <2>1, <3>2 DEF StackFrames
      <3> QED
        BY <3>2, <3>3, ShapeOf DEF GateInductive, Types, States
    <2>2. TypeOK
      BY <2>1 DEF GateInductive, Types, TypeOK, States
    <2>3. ASSUME NEW c \in Coros, co[c] = "waiting", c \notin Popped
          PROVE  closed /\ count > 0 /\ \E i \in DOMAIN waiters : waiters[i] = c
      <3>1. c \in R!Elements(waiters)
        BY <2>3, ListsHoldWaiting, PoppedByDepth DEF GateInductive, ListedWait, InSomeList
      <3>2. waiters # <<>>
        BY <3>1, EmptyList
      <3> QED
        BY <3>1, <3>2 DEF GateInductive, ClosedForThem, R!Elements
    <2> QED
      BY <2>2, <2>3 DEF WaitersHaveSomebodyToWakeThem
  <1> QED
    BY <1>1, Invariance, PTL
=============================================================================
