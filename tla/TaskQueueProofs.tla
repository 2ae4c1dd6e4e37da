-------------------------- MODULE TaskQueueProofs --------------------------
(***************************************************************************)
(* Proofs about TaskQueue, for any number of producers, consumers,         *)
(* drainers and nodes and lists of any length: the type invariant, mutual  *)
(* exclusion and the absence of lost wakeups.                              *)
(***************************************************************************)
EXTENDS TaskQueue, ListProofs, TLAPS

\* The program points at which a thread owns the mutex.
Critical == {"push", "notify", "check", "sleep", "pop_all"}

\* A thread at such a point is the owner: hence there is at most one.
LockInv == \A t \in Threads : pc[t] \in Critical => mtx = t

\* Between its look at `first` and its sleep a consumer owns the mutex, so
\* what it saw is still so.
SleepInv == \A c \in Consumers : pc[c] = "sleep" => first = Null

\* The inductive invariant.  NoLostWakeup alone is not inductive: a consumer
\* that is about to sleep could miss a push, unless the mutex keeps it away.
WakeupInv == TypeOK /\ LockInv /\ SleepInv /\ NoLostWakeup

(***************************************************************************)
(* Who may hold a list: the queue itself, named by the owner of its free   *)
(* mutex, a producer between push and the end of its critical section, a   *)
(* taker that walks its batch.  Pointer is the variable that holds it.     *)
(***************************************************************************)
Holders == Threads \cup {NoThread}
Pointer(x) == IF x = NoThread THEN first
              ELSE IF x \in Producers THEN arg[x].first ELSE top[x]

\* M[x] is the list of holder x: a chain of live nodes that no other holder
\* has, and whose end is where `last` says, if anybody is going to use that.
Holds(M) ==
  /\ \A x \in Holders : IsChain(next, M[x]) /\ Pointer(x) = PointerTo(M[x])
  /\ \A x, y \in Holders : x # y => Members(M[x]) \cap Members(M[y]) = {}
  /\ \A n \in Nodes : n \in alive <=> \E x \in Holders : n \in Members(M[x])
  /\ M[NoThread] # <<>> => last = M[NoThread][Len(M[NoThread])]
  /\ \A p \in Producers : M[p] # <<>> => arg[p].last = M[p][Len(M[p])]

\* What the operations do to the lists: a producer builds one, the queue
\* takes it over, a taker takes the queue, and resumes the first node.
Prepared(M, K, p) == /\ M[p] = <<>>
                     /\ \E s \in DistinctSeqs(Nodes \ alive, MaxList) : K = [M EXCEPT ![p] = s]
Pushed(M, K, p)   == /\ M[p] # <<>>
                     /\ K = [M EXCEPT ![NoThread] = M[NoThread] \o M[p], ![p] = <<>>]
Moved(M, g, h)    == [M EXCEPT ![h] = M[g], ![g] = <<>>]
Popped(M, K, t)   == /\ M[t] = <<>>
                     /\ K = Moved(M, NoThread, t)
Resumed(M, K, t)  == /\ M[t] # <<>>
                     /\ K = [M EXCEPT ![t] = Tail(M[t])]

\* A producer has a list from its call to the end of its push, a taker from
\* its pop to the end of its loop.
HoldersAreBusy ==
  /\ \A p \in Producers : arg[p].first # Null <=> pc[p] \in {"push_lock", "push"}
  /\ \A t \in Takers : top[t] # Null <=> pc[t] = "drain"

\* The inductive invariant of the lists.  The lists themselves are no part of
\* the state: the step of each action says what it does to them.
ListInv ==
  /\ TypeOK /\ LockInv /\ HoldersAreBusy
  /\ \E M \in [Holders -> Seq(Nodes)] : Holds(M)
-----------------------------------------------------------------------------
\* A list handed to push_list: its first and its last node are nodes that did
\* not exist before, and chaining it yields a memory again.
LEMMA DistinctSeqsType ==
  ASSUME NEW S, S \subseteq Nodes, NEW s \in DistinctSeqs(S, MaxList)
  PROVE  /\ Len(s) \in Nat \ {0}
         /\ DOMAIN s = 1 .. Len(s)
         /\ \A i \in 1 .. Len(s) : s[i] \in S
  <1>1. PICK l \in 1 .. MaxList : s \in [1 .. l -> S]
    BY DEF DistinctSeqs
  <1>2. l \in Nat \ {0}
    BY <1>1, MaxListAssumption
  <1>3. s \in Seq(S)
    BY <1>1, <1>2
  <1>4. Len(s) = l
    BY <1>1, <1>2, <1>3
  <1> QED
    BY <1>1, <1>2, <1>4

LEMMA ChainedType ==
  ASSUME NEW nxt \in [Nodes -> Nodes \cup {Null}],
         NEW S, S \subseteq Nodes, NEW s \in DistinctSeqs(S, MaxList)
  PROVE  Chained(nxt, s) \in [Nodes -> Nodes \cup {Null}]
  <1>1. /\ Len(s) \in Nat \ {0}
        /\ \A i \in 1 .. Len(s) : s[i] \in S
    BY DistinctSeqsType
  <1> SUFFICES ASSUME NEW n \in Nodes
               PROVE  Chained(nxt, s)[n] \in Nodes \cup {Null}
    BY DEF Chained
  <1>2. CASE \E i \in 1 .. Len(s) : s[i] = n
    <2> DEFINE i == CHOOSE j \in 1 .. Len(s) : s[j] = n
    <2>1. i \in 1 .. Len(s)
      BY <1>2
    <2>2. Chained(nxt, s)[n] = IF i = Len(s) THEN Null ELSE s[i + 1]
      BY <1>2 DEF Chained
    <2>3. i # Len(s) => i + 1 \in 1 .. Len(s)
      BY <1>1, <2>1
    <2> HIDE DEF i
    <2> QED
      BY <1>1, <2>2, <2>3
  <1>3. CASE ~ \E i \in 1 .. Len(s) : s[i] = n
    BY <1>3 DEF Chained
  <1> QED
    BY <1>2, <1>3
-----------------------------------------------------------------------------
LEMMA InitWakeupInv == Init => WakeupInv
  BY ThreadAssumption
  DEF Init, WakeupInv, TypeOK, LockInv, SleepInv, NoLostWakeup, Waiting, NoList,
      Critical, Threads, Takers

LEMMA TypeStep == TypeOK /\ Next => TypeOK'
  <1> SUFFICES ASSUME TypeOK, Next PROVE TypeOK'
    OBVIOUS
  <1> USE ThreadAssumption DEF Threads, Takers
  <1>1. ASSUME NEW p \in Producers, CallPush(p) PROVE TypeOK'
    <2>1. PICK s \in DistinctSeqs(Nodes \ alive, MaxList) :
            /\ next' = Chained(next, s)
            /\ alive' = alive \cup {s[i] : i \in DOMAIN s}
            /\ arg' = [arg EXCEPT ![p] = [first |-> s[1], last |-> s[Len(s)]]]
      BY <1>1 DEF CallPush
    <2>2. /\ Len(s) \in Nat \ {0}
          /\ DOMAIN s = 1 .. Len(s)
          /\ \A i \in 1 .. Len(s) : s[i] \in Nodes \ alive
      BY DistinctSeqsType
    <2>3. s[1] \in Nodes /\ s[Len(s)] \in Nodes
      BY <2>2
    <2>4. next' \in [Nodes -> Nodes \cup {Null}]
      BY <2>1, ChainedType DEF TypeOK
    <2>5. alive' \in SUBSET Nodes
      BY <2>1, <2>2 DEF TypeOK
    <2>6. arg' \in [Producers -> [first : Nodes \cup {Null}, last : Nodes \cup {Null}]]
      BY <2>1, <2>3 DEF TypeOK
    <2> QED
      BY <1>1, <2>4, <2>5, <2>6 DEF CallPush, TypeOK
  <1>2. ASSUME NEW p \in Producers, PushStep(p) PROVE TypeOK'
    <2>1. CASE PushLock(p)
      BY <2>1 DEF PushLock, Lock, TypeOK
    <2>2. CASE PushBehind(p)
      BY <2>2 DEF PushBehind, Unlock, NoList, TypeOK
    <2>3. CASE PushFirst(p)
      BY <2>3 DEF PushFirst, NoList, TypeOK
    <2>4. CASE PushNotify(p)
      BY <2>4 DEF PushNotify, Waiting, TypeOK
    <2> QED
      BY <1>2, <2>1, <2>2, <2>3, <2>4 DEF PushStep
  <1>3. ASSUME NEW c \in Consumers, PopStep(c) \/ SpuriousWakeup(c) PROVE TypeOK'
    <2>1. CASE PopLock(c) \/ PopRelock(c)
      BY <2>1 DEF PopLock, PopRelock, Lock, TypeOK
    <2>2. CASE PopSeesEmpty(c) \/ SpuriousWakeup(c)
      BY <2>2 DEF PopSeesEmpty, SpuriousWakeup, TypeOK
    <2>3. CASE PopWait(c)
      BY <2>3 DEF PopWait, Unlock, TypeOK
    <2>4. CASE PopTake(c)
      BY <2>4 DEF PopTake, PopAllNolock, Unlock, TypeOK
    <2> QED
      BY <1>3, <2>1, <2>2, <2>3, <2>4 DEF PopStep
  <1>4. ASSUME NEW d \in Drainers, DrainLock(d) \/ DrainTake(d) PROVE TypeOK'
    <2>1. CASE DrainLock(d)
      BY <2>1 DEF DrainLock, Lock, TypeOK
    <2>2. CASE DrainTake(d)
      BY <2>2 DEF DrainTake, PopAllNolock, Unlock, TypeOK
    <2> QED
      BY <1>4, <2>1, <2>2
  <1>5. ASSUME NEW t \in Takers, ResumeTop(t) PROVE TypeOK'
    BY <1>5 DEF ResumeTop, TypeOK
  <1> QED
    BY <1>1, <1>2, <1>3, <1>4, <1>5 DEF Next

LEMMA WakeupStep == WakeupInv /\ Next => LockInv' /\ SleepInv' /\ NoLostWakeup'
  <1> SUFFICES ASSUME TypeOK, LockInv, SleepInv, NoLostWakeup, Next
               PROVE  LockInv' /\ SleepInv' /\ NoLostWakeup'
    BY DEF WakeupInv
  <1> USE ThreadAssumption DEF Threads, Takers, Critical, Waiting
  <1>1. ASSUME NEW p \in Producers, CallPush(p)
        PROVE  LockInv' /\ SleepInv' /\ NoLostWakeup'
    BY <1>1 DEF CallPush, TypeOK, LockInv, SleepInv, NoLostWakeup
  <1>2. ASSUME NEW p \in Producers, PushStep(p)
        PROVE  LockInv' /\ SleepInv' /\ NoLostWakeup'
    <2>1. CASE PushLock(p)
      BY <2>1 DEF PushLock, Lock, TypeOK, LockInv, SleepInv, NoLostWakeup
    <2>2. CASE PushBehind(p)
      BY <2>2 DEF PushBehind, Unlock, TypeOK, LockInv, SleepInv, NoLostWakeup
    <2>3. CASE PushFirst(p)
      BY <2>3 DEF PushFirst, TypeOK, LockInv, SleepInv, NoLostWakeup
    <2>4. CASE PushNotify(p)
      BY <2>4 DEF PushNotify, TypeOK, LockInv, SleepInv, NoLostWakeup
    <2> QED
      BY <1>2, <2>1, <2>2, <2>3, <2>4 DEF PushStep
  <1>3. ASSUME NEW c \in Consumers, PopStep(c) \/ SpuriousWakeup(c)
        PROVE  LockInv' /\ SleepInv' /\ NoLostWakeup'
    <2>1. CASE PopLock(c) \/ PopRelock(c)
      BY <2>1 DEF PopLock, PopRelock, Lock, TypeOK, LockInv, SleepInv, NoLostWakeup
    <2>2. CASE PopSeesEmpty(c) \/ SpuriousWakeup(c)
      BY <2>2 DEF PopSeesEmpty, SpuriousWakeup, TypeOK, LockInv, SleepInv, NoLostWakeup
    <2>3. CASE PopWait(c)
      BY <2>3 DEF PopWait, Unlock, TypeOK, LockInv, SleepInv, NoLostWakeup
    <2>4. CASE PopTake(c)
      BY <2>4 DEF PopTake, PopAllNolock, Unlock, TypeOK, LockInv, SleepInv, NoLostWakeup
    <2> QED
      BY <1>3, <2>1, <2>2, <2>3, <2>4 DEF PopStep
  <1>4. ASSUME NEW d \in Drainers, DrainLock(d) \/ DrainTake(d)
        PROVE  LockInv' /\ SleepInv' /\ NoLostWakeup'
    <2>1. CASE DrainLock(d)
      BY <2>1 DEF DrainLock, Lock, TypeOK, LockInv, SleepInv, NoLostWakeup
    <2>2. CASE DrainTake(d)
      BY <2>2 DEF DrainTake, PopAllNolock, Unlock, TypeOK, LockInv, SleepInv, NoLostWakeup
    <2> QED
      BY <1>4, <2>1, <2>2
  <1>5. ASSUME NEW t \in Takers, ResumeTop(t)
        PROVE  LockInv' /\ SleepInv' /\ NoLostWakeup'
    BY <1>5 DEF ResumeTop, TypeOK, LockInv, SleepInv, NoLostWakeup
  <1> QED
    BY <1>1, <1>2, <1>3, <1>4, <1>5 DEF Next

LEMMA WakeupInvariant == Spec => []WakeupInv
  <1>1. WakeupInv /\ UNCHANGED vars => WakeupInv'
    BY DEF WakeupInv, vars, TypeOK, LockInv, SleepInv, NoLostWakeup, Waiting
  <1>2. WakeupInv /\ Next => WakeupInv'
    BY TypeStep, WakeupStep DEF WakeupInv
  <1> QED
    BY InitWakeupInv, <1>1, <1>2, PTL DEF Spec
-----------------------------------------------------------------------------
\* The fields of task_queue and the locals of its callers keep their types,
\* and a thread walks a batch only while it has one (the postcondition of
\* pop_all_not_empty).
THEOREM TypeCorrect == Spec => []TypeOK
  <1>1. WakeupInv => TypeOK
    BY DEF WakeupInv
  <1> QED
    BY <1>1, WakeupInvariant, PTL

\* At most one thread is inside a critical section of the queue.
THEOREM MutualExclusion ==
  Spec => [](\A t, u \in Threads : pc[t] \in Critical /\ pc[u] \in Critical => t = u)
  <1>1. WakeupInv => \A t, u \in Threads : pc[t] \in Critical /\ pc[u] \in Critical => t = u
    BY DEF WakeupInv, LockInv
  <1> QED
    BY <1>1, WakeupInvariant, PTL

\* push_list's single notify_one on the transition from empty to non-empty
\* is enough: no consumer of pop_all_not_empty sleeps through a push.
THEOREM WakeupsAreNotLost == Spec => []NoLostWakeup
  <1>1. WakeupInv => NoLostWakeup
    BY DEF WakeupInv
  <1> QED
    BY <1>1, WakeupInvariant, PTL
-----------------------------------------------------------------------------
LEMMA InitListInv == Init => ListInv
  <1> SUFFICES ASSUME Init PROVE ListInv
    OBVIOUS
  <1> USE ThreadAssumption DEF Threads, Takers
  <1>1. TypeOK /\ LockInv
    BY InitWakeupInv DEF WakeupInv
  <1>2. HoldersAreBusy
    BY DEF Init, HoldersAreBusy, NoList
  <1> DEFINE M == [x \in Holders |-> <<>>]
  <1>3. \A x \in Holders : M[x] = <<>> /\ Pointer(x) = Null
    BY DEF Init, Holders, Pointer, NoList
  <1>4. M \in [Holders -> Seq(Nodes)] /\ NoThread \in Holders /\ Producers \subseteq Holders
    BY DEF Holders
  <1>5. alive = {}
    BY DEF Init
  <1> HIDE DEF M
  <1>6. Holds(M)
    BY <1>3, <1>4, <1>5, EmptyChain DEF Holds
  <1> QED
    BY <1>1, <1>2, <1>4, <1>6 DEF ListInv

\* Steps that leave memory and pointers alone leave the lists alone.
LEMMA SameLists ==
  ASSUME NEW M, Holds(M), UNCHANGED <<first, last, next, alive, arg, top>>
  PROVE  Holds(M)'
  BY DEF Holds, Pointer

\* push_list's caller builds its list.
LEMMA CallPushLists ==
  ASSUME ListInv, NEW M \in [Holders -> Seq(Nodes)], Holds(M), NEW p \in Producers, CallPush(p)
  PROVE  \E K \in [Holders -> Seq(Nodes)] : Holds(K)' /\ Prepared(M, K, p)
  <1> USE ThreadAssumption DEF Threads, Takers
  <1>1. Holds(M)
    OBVIOUS
  <1>2. PICK s \in DistinctSeqs(Nodes \ alive, MaxList) :
          /\ next' = Chained(next, s)
          /\ alive' = alive \cup {s[i] : i \in DOMAIN s}
          /\ arg' = [arg EXCEPT ![p] = [first |-> s[1], last |-> s[Len(s)]]]
    BY DEF CallPush
  <1>3. UNCHANGED <<first, last, top>> /\ pc[p] = "idle"
    BY DEF CallPush
  <1>4. /\ Len(s) \in Nat \ {0} /\ DOMAIN s = 1 .. Len(s)
        /\ \A i \in 1 .. Len(s) : s[i] \in Nodes \ alive
    BY DistinctSeqsType
  <1>5. s \in Seq(Nodes) /\ NoRepeats(s) /\ s # <<>> /\ PointerTo(s) = s[1]
    BY <1>4 DEF DistinctSeqs, PointerTo
  <1>6. /\ IsChain(next', s)
        /\ \A n \in Nodes \ Members(s) : next'[n] = next[n]
    BY <1>2, <1>5, ChainedIsChain
  <1>7. /\ Members(s) \cap alive = {} /\ alive' = alive \cup Members(s)
        /\ Members(s) \subseteq Nodes
    BY <1>2, <1>4 DEF Members
  <1>8. p \in Holders /\ p # NoThread /\ NoThread \in Holders /\ Producers \subseteq Holders
    BY DEF Holders
  <1>9. arg[p].first = Null
    BY <1>3 DEF ListInv, HoldersAreBusy
  <1>10. M[p] = <<>>
    BY <1>1, <1>8, <1>9, PointerIsNull DEF Holds, Pointer
  <1>11. \A x \in Holders : x # p => Pointer(x)' = Pointer(x)
    BY <1>2, <1>3 DEF Pointer, ListInv, TypeOK, Holders
  <1>12. Pointer(p)' = s[1] /\ arg'[p].last = s[Len(s)] /\ \A q \in Producers : q # p => arg'[q] = arg[q]
    BY <1>2, <1>8 DEF Pointer, ListInv, TypeOK
  <1>13. \A x \in Holders : Members(M[x]) \subseteq alive /\ Members(M[x]) \subseteq Nodes
    BY <1>1, MembersAreNodes DEF Holds
  <1>14. \A x \in Holders : x # p => IsChain(next', M[x])
    <2> SUFFICES ASSUME NEW x \in Holders, x # p PROVE IsChain(next', M[x])
      OBVIOUS
    <2>1. \A n \in Members(M[x]) : next'[n] = next[n]
      BY <1>6, <1>7, <1>13
    <2> QED
      BY <1>1, <2>1, ChainKept DEF Holds
  <1> DEFINE K == [M EXCEPT ![p] = s]
  <1>15. /\ K \in [Holders -> Seq(Nodes)] /\ K[p] = s
         /\ \A x \in Holders : x # p => K[x] = M[x]
    BY <1>5, <1>8
  <1> HIDE DEF K
  <1>16. Holds(K)'
    <2>1. \A x \in Holders : IsChain(next', K[x]) /\ Pointer(x)' = PointerTo(K[x])
      BY <1>1, <1>5, <1>6, <1>11, <1>12, <1>14, <1>15 DEF Holds
    <2>2. \A x, y \in Holders : x # y => Members(K[x]) \cap Members(K[y]) = {}
      BY <1>1, <1>7, <1>13, <1>15 DEF Holds
    <2>3. \A n \in Nodes : n \in alive' <=> \E x \in Holders : n \in Members(K[x])
      <3>1. \A n \in Nodes : n \in alive <=> \E x \in Holders : x # p /\ n \in Members(M[x])
        BY <1>1, <1>10, EmptyChain DEF Holds
      <3> QED
        BY <1>7, <1>8, <1>15, <3>1
    <2>4. K[NoThread] # <<>> => last' = K[NoThread][Len(K[NoThread])]
      BY <1>1, <1>3, <1>8, <1>15 DEF Holds
    <2>5. \A q \in Producers : K[q] # <<>> => arg'[q].last = K[q][Len(K[q])]
      BY <1>1, <1>8, <1>12, <1>15 DEF Holds
    <2> QED
      BY <2>1, <2>2, <2>3, <2>4, <2>5 DEF Holds
  <1>17. Prepared(M, K, p)
    BY <1>10 DEF Prepared, K
  <1> QED
    BY <1>15, <1>16, <1>17

\* push_list behind a queue that is not empty: one list instead of two.
LEMMA PushBehindLists ==
  ASSUME ListInv, NEW M \in [Holders -> Seq(Nodes)], Holds(M), NEW p \in Producers, PushBehind(p)
  PROVE  \E K \in [Holders -> Seq(Nodes)] : Holds(K)' /\ Pushed(M, K, p)
  <1> USE ThreadAssumption DEF Threads, Takers
  <1>1. Holds(M)
    OBVIOUS
  <1>2. /\ UNCHANGED <<first, alive, top>> /\ pc[p] = "push" /\ first # Null
        /\ next' = [next EXCEPT ![last] = arg[p].first] /\ last' = arg[p].last
        /\ arg' = [arg EXCEPT ![p] = NoList]
    BY DEF PushBehind
  <1>3. p \in Holders /\ p # NoThread /\ NoThread \in Holders /\ Producers \subseteq Holders
    BY DEF Holders
  <1>4. arg[p].first # Null
    BY <1>2 DEF ListInv, HoldersAreBusy
  <1>5. /\ Pointer(NoThread) = first /\ Pointer(p) = arg[p].first
        /\ Pointer(NoThread)' = first /\ Pointer(p)' = Null
        /\ \A x \in Holders : x # p => Pointer(x)' = Pointer(x)
    BY <1>2, <1>3 DEF Pointer, ListInv, TypeOK, Holders, NoList
  <1> DEFINE s == M[NoThread]
             t == M[p]
             c == s \o t
  <1>6. /\ IsChain(next, s) /\ IsChain(next, t) /\ first = PointerTo(s) /\ arg[p].first = PointerTo(t)
        /\ Members(s) \cap Members(t) = {}
    BY <1>1, <1>3, <1>5 DEF Holds
  <1>7. s # <<>> /\ t # <<>>
    BY <1>2, <1>4, <1>6, PointerIsNull
  <1>8. last = s[Len(s)] /\ arg[p].last = t[Len(t)]
    BY <1>1, <1>7 DEF Holds
  <1>9. next \in [Nodes -> Nodes \cup {Null}]
    BY DEF ListInv, TypeOK
  <1> HIDE DEF s, t
  <1>10. /\ IsChain(next', c) /\ PointerTo(c) = first /\ Members(c) = Members(s) \cup Members(t)
         /\ last' = c[Len(c)] /\ last \in Members(s) /\ last \in Nodes
    <2>1. next' = [next EXCEPT ![s[Len(s)]] = PointerTo(t)]
      BY <1>2, <1>6, <1>8
    <2>2. /\ IsChain(next', c) /\ PointerTo(c) = first /\ Members(c) = Members(s) \cup Members(t)
          /\ c[Len(c)] = t[Len(t)] /\ s[Len(s)] \in Members(s)
      BY <1>6, <1>7, <1>9, <2>1, ConcatChain
    <2>3. Members(s) \subseteq Nodes
      BY <1>6, MembersAreNodes
    <2> QED
      BY <1>2, <1>8, <2>2, <2>3
  <1>11. c \in Seq(Nodes)
    BY <1>10 DEF IsChain
  <1>12. \A x \in Holders : x \notin {p, NoThread} => IsChain(next', M[x])
    <2> SUFFICES ASSUME NEW x \in Holders, x \notin {p, NoThread} PROVE IsChain(next', M[x])
      OBVIOUS
    <2>1. Members(M[x]) \subseteq Nodes /\ last \notin Members(M[x])
      BY <1>1, <1>3, <1>10, MembersAreNodes DEF Holds, s
    <2>2. \A n \in Members(M[x]) : next'[n] = next[n]
      BY <1>2, <1>9, <1>10, <2>1
    <2> QED
      BY <1>1, <2>2, ChainKept DEF Holds
  <1>13. arg'[p].last = Null /\ \A q \in Producers : q # p => arg'[q] = arg[q]
    BY <1>2 DEF ListInv, TypeOK, NoList
  <1> HIDE DEF c
  <1> DEFINE K == [M EXCEPT ![NoThread] = c, ![p] = <<>>]
  <1>14. /\ K \in [Holders -> Seq(Nodes)] /\ K[NoThread] = c /\ K[p] = <<>>
         /\ \A x \in Holders : x \notin {p, NoThread} => K[x] = M[x]
    BY <1>3, <1>11
  <1> HIDE DEF K
  <1>15. Holds(K)'
    <2>1. \A x \in Holders : IsChain(next', K[x]) /\ Pointer(x)' = PointerTo(K[x])
      <3>1. IsChain(next', K[p]) /\ Pointer(p)' = PointerTo(K[p])
        BY <1>5, <1>14, EmptyChain
      <3>2. IsChain(next', K[NoThread]) /\ Pointer(NoThread)' = PointerTo(K[NoThread])
        BY <1>5, <1>10, <1>14
      <3>3. ASSUME NEW x \in Holders, x \notin {p, NoThread}
            PROVE  IsChain(next', K[x]) /\ Pointer(x)' = PointerTo(K[x])
        <4>1. Pointer(x) = PointerTo(M[x])
          BY <1>1 DEF Holds
        <4> QED
          BY <1>5, <1>12, <1>14, <3>3, <4>1
      <3> QED
        BY <3>1, <3>2, <3>3
    <2>2. \A x \in Holders : x # p => Members(K[x]) = IF x = NoThread THEN Members(s) \cup Members(t)
                                                     ELSE Members(M[x])
      BY <1>10, <1>14
    <2>3. Members(K[p]) = {}
      BY <1>14, EmptyChain
    <2>4. \A x, y \in Holders : x # y => Members(K[x]) \cap Members(K[y]) = {}
      BY <1>1, <1>3, <2>2, <2>3 DEF Holds, s, t
    <2>5. \A n \in Nodes : n \in alive' <=> \E x \in Holders : n \in Members(K[x])
      BY <1>1, <1>2, <1>3, <2>2, <2>3 DEF Holds, s, t
    <2>6. K[NoThread] # <<>> => last' = K[NoThread][Len(K[NoThread])]
      BY <1>10, <1>14
    <2>7. \A q \in Producers : K[q] # <<>> => arg'[q].last = K[q][Len(K[q])]
      BY <1>1, <1>3, <1>13, <1>14 DEF Holds
    <2> QED
      BY <2>1, <2>4, <2>5, <2>6, <2>7 DEF Holds
  <1>16. Pushed(M, K, p)
    BY <1>7 DEF Pushed, K, c, s, t
  <1> QED
    BY <1>14, <1>15, <1>16

\* A list that changes hands: from holder g to holder h, who had none.
LEMMA ListsMove ==
  ASSUME NEW M \in [Holders -> Seq(Nodes)], Holds(M),
         NEW g \in Holders, NEW h \in Holders, g # h,
         next' = next, alive' = alive, Pointer(h) = Null,
         Pointer(h)' = Pointer(g), Pointer(g)' = Null,
         \A x \in Holders : x \notin {g, h} => Pointer(x)' = Pointer(x),
         NoThread \notin {g, h} => last' = last,
         h = NoThread /\ M[g] # <<>> => last' = M[g][Len(M[g])],
         \A q \in Producers : q \notin {g, h} => arg'[q] = arg[q],
         h \notin Producers
  PROVE  \E K \in [Holders -> Seq(Nodes)] : Holds(K)' /\ K = Moved(M, g, h)
  <1> USE ThreadAssumption DEF Threads, Takers
  <1>0. NoThread \in Holders /\ Producers \subseteq Holders
    BY DEF Holders
  <1> DEFINE K == [M EXCEPT ![h] = M[g], ![g] = <<>>]
  <1>1. /\ K \in [Holders -> Seq(Nodes)] /\ K[h] = M[g] /\ K[g] = <<>>
        /\ \A x \in Holders : x \notin {g, h} => K[x] = M[x]
    OBVIOUS
  <1> HIDE DEF K
  <1>2. M[h] = <<>>
    BY PointerIsNull DEF Holds
  <1>3. Holds(K)'
    <2>1. \A x \in Holders : IsChain(next', K[x]) /\ Pointer(x)' = PointerTo(K[x])
      BY <1>1, EmptyChain, ZenonT(60) DEF Holds
    <2>2. Members(K[g]) = {} /\ Members(M[h]) = {}
      BY <1>1, <1>2, EmptyChain
    <2>3. \A x, y \in Holders : x # y => Members(K[x]) \cap Members(K[y]) = {}
      <3>1. \A x, y \in Holders : x # y => Members(M[x]) \cap Members(M[y]) = {}
        BY DEF Holds
      <3>2. \A x \in Holders : Members(K[x]) = IF x = g THEN {} ELSE IF x = h THEN Members(M[g])
                                                             ELSE Members(M[x])
        BY <1>1, <2>2
      <3> QED
        BY <3>1, <3>2
    <2>4. \A n \in Nodes : n \in alive' <=> \E x \in Holders : n \in Members(K[x])
      BY <1>1, <2>2 DEF Holds
    <2>5. K[NoThread] # <<>> => last' = K[NoThread][Len(K[NoThread])]
      BY <1>0, <1>1 DEF Holds
    <2>6. \A q \in Producers : K[q] # <<>> => arg'[q].last = K[q][Len(K[q])]
      BY <1>0, <1>1 DEF Holds
    <2> QED
      BY <2>1, <2>3, <2>4, <2>5, <2>6 DEF Holds
  <1>4. K = Moved(M, g, h)
    BY DEF K, Moved
  <1> QED
    BY <1>1, <1>3, <1>4

\* push_list on an empty queue: the producer's list becomes the queue.
LEMMA PushFirstLists ==
  ASSUME ListInv, NEW M \in [Holders -> Seq(Nodes)], Holds(M), NEW p \in Producers, PushFirst(p)
  PROVE  \E K \in [Holders -> Seq(Nodes)] : Holds(K)' /\ Pushed(M, K, p)
  <1> USE ThreadAssumption DEF Threads, Takers
  <1>1. Holds(M)
    OBVIOUS
  <1>2. /\ UNCHANGED <<next, alive, top>> /\ first = Null
        /\ first' = arg[p].first /\ last' = arg[p].last
        /\ arg' = [arg EXCEPT ![p] = NoList]
    BY DEF PushFirst
  <1>3. p \in Holders /\ p # NoThread /\ NoThread \in Holders /\ NoThread \notin Producers
    BY DEF Holders
  <1>4. /\ Pointer(NoThread) = Null /\ Pointer(NoThread)' = Pointer(p) /\ Pointer(p)' = Null
        /\ \A x \in Holders : x \notin {p, NoThread} => Pointer(x)' = Pointer(x)
        /\ \A q \in Producers : q \notin {p, NoThread} => arg'[q] = arg[q]
    BY <1>2, <1>3 DEF Pointer, ListInv, TypeOK, Holders, NoList
  <1>5. M[p] # <<>> => last' = M[p][Len(M[p])]
    BY <1>1, <1>2 DEF Holds
  <1>6. PICK K \in [Holders -> Seq(Nodes)] :
          Holds(K)' /\ K = Moved(M, p, NoThread)
    BY <1>1, <1>2, <1>3, <1>4, <1>5, ListsMove
  <1>7. M[NoThread] = <<>> /\ M[p] # <<>> /\ M[p] \in Seq(Nodes)
    BY <1>1, <1>3, <1>4, PointerIsNull DEF Holds, Pointer, ListInv, HoldersAreBusy, PushFirst
  <1>8. M[NoThread] \o M[p] = M[p]
    BY <1>7
  <1> QED
    BY <1>6, <1>7, <1>8 DEF Pushed, Moved

\* pop_all_nolock: the queue's list becomes the taker's batch.
LEMMA PopAllLists ==
  ASSUME ListInv, NEW M \in [Holders -> Seq(Nodes)], Holds(M), NEW t \in Takers, PopAllNolock(t), pc[t] # "drain"
  PROVE  \E K \in [Holders -> Seq(Nodes)] : Holds(K)' /\ Popped(M, K, t)
  <1> USE ThreadAssumption DEF Threads, Takers
  <1>1. Holds(M)
    OBVIOUS
  <1>2. /\ UNCHANGED <<last, next, alive, arg>> /\ first' = Null
        /\ top' = [top EXCEPT ![t] = first]
    BY DEF PopAllNolock
  <1>3. t \in Holders /\ t # NoThread /\ NoThread \in Holders /\ t \notin Producers
    BY DEF Holders
  <1>4. top[t] = Null
    BY DEF ListInv, HoldersAreBusy
  <1>5. /\ Pointer(t) = Null /\ Pointer(t)' = Pointer(NoThread) /\ Pointer(NoThread)' = Null
        /\ \A x \in Holders : x \notin {NoThread, t} => Pointer(x)' = Pointer(x)
    BY <1>2, <1>3, <1>4 DEF Pointer, ListInv, TypeOK, Holders
  <1>6. PICK K \in [Holders -> Seq(Nodes)] :
          Holds(K)' /\ K = Moved(M, NoThread, t)
    BY <1>1, <1>2, <1>3, <1>5, ListsMove
  <1>7. M[t] = <<>>
    BY <1>1, <1>3, <1>5, PointerIsNull DEF Holds
  <1> QED
    BY <1>6, <1>7 DEF Popped

\* A round of the loop over a batch: its first node leaves it and dies.
LEMMA ResumeLists ==
  ASSUME ListInv, NEW M \in [Holders -> Seq(Nodes)], Holds(M), NEW t \in Takers, ResumeTop(t)
  PROVE  \E K \in [Holders -> Seq(Nodes)] : Holds(K)' /\ Resumed(M, K, t)
  <1> USE ThreadAssumption DEF Threads, Takers
  <1>1. Holds(M)
    OBVIOUS
  <1>2. /\ UNCHANGED <<first, last, next, arg>> /\ pc[t] = "drain"
        /\ top' = [top EXCEPT ![t] = next[top[t]]] /\ alive' = alive \ {top[t]}
    BY DEF ResumeTop
  <1>3. t \in Holders /\ t # NoThread /\ NoThread \in Holders /\ t \notin Producers /\ Producers \subseteq Holders
    BY DEF Holders
  <1>4. top[t] # Null /\ Pointer(t) = top[t] /\ Pointer(t)' = next[top[t]]
    BY <1>2, <1>3 DEF ListInv, HoldersAreBusy, TypeOK, Pointer
  <1>5. \A x \in Holders : x # t => Pointer(x)' = Pointer(x)
    BY <1>2, <1>3 DEF Pointer, ListInv, TypeOK, Holders
  <1> DEFINE s == M[t]
             r == Tail(s)
  <1>6. IsChain(next, s) /\ top[t] = PointerTo(s)
    BY <1>1, <1>3, <1>4 DEF Holds
  <1> HIDE DEF s
  <1>7. s # <<>> /\ top[t] \in Members(s)
    BY <1>4, <1>6, PointerIsNull
  <1>8. IsChain(next, r) /\ PointerTo(r) = next[top[t]] /\ Members(r) = Members(s) \ {top[t]}
    BY <1>6, <1>7, TailChain
  <1>9. r \in Seq(Nodes)
    BY <1>8 DEF IsChain
  <1> HIDE DEF r
  <1> DEFINE K == [M EXCEPT ![t] = r]
  <1>10. /\ K \in [Holders -> Seq(Nodes)] /\ K[t] = r
         /\ \A x \in Holders : x # t => K[x] = M[x]
    BY <1>3, <1>9
  <1> HIDE DEF K
  <1>11. Holds(K)'
    <2>1. \A x \in Holders : IsChain(next', K[x]) /\ Pointer(x)' = PointerTo(K[x])
      BY <1>1, <1>2, <1>4, <1>5, <1>8, <1>10 DEF Holds
    <2>2. \A x, y \in Holders : x # y => Members(K[x]) \cap Members(K[y]) = {}
      <3>1. \A x, y \in Holders : x # y => Members(M[x]) \cap Members(M[y]) = {}
        BY DEF Holds
      <3>2. \A x \in Holders : Members(K[x]) \subseteq Members(M[x])
        BY <1>8, <1>10 DEF s
      <3> QED
        BY <3>1, <3>2
    <2>3. \A n \in Nodes : n \in alive' <=> \E x \in Holders : n \in Members(K[x])
      <3>1. \A x \in Holders : x # t => top[t] \notin Members(M[x])
        BY <1>1, <1>3, <1>7 DEF Holds, s
      <3>2. \A n \in Nodes : n \in alive' <=> n \in alive /\ n # top[t]
        BY <1>2
      <3>3. \A x \in Holders : Members(K[x]) = Members(M[x]) \ {top[t]}
        BY <1>8, <1>10, <3>1 DEF s
      <3>4. \A n \in Nodes : n \in alive <=> \E x \in Holders : n \in Members(M[x])
        BY DEF Holds
      <3> QED
        BY <3>2, <3>3, <3>4
    <2>4. K[NoThread] # <<>> => last' = K[NoThread][Len(K[NoThread])]
      BY <1>1, <1>2, <1>3, <1>10 DEF Holds
    <2>5. \A q \in Producers : K[q] # <<>> => arg'[q].last = K[q][Len(K[q])]
      BY <1>1, <1>2, <1>3, <1>10 DEF Holds
    <2> QED
      BY <2>1, <2>2, <2>3, <2>4, <2>5 DEF Holds
  <1>12. Resumed(M, K, t)
    BY <1>7 DEF Resumed, K, r, s
  <1> QED
    BY <1>10, <1>11, <1>12

LEMMA HoldersStep == ListInv /\ Next => LockInv' /\ HoldersAreBusy'
  <1> SUFFICES ASSUME TypeOK, LockInv, HoldersAreBusy, Next PROVE LockInv' /\ HoldersAreBusy'
    BY DEF ListInv
  <1> USE ThreadAssumption DEF Threads, Takers, Critical
  <1>1. ASSUME NEW p \in Producers, CallPush(p) PROVE LockInv' /\ HoldersAreBusy'
    <2>1. PICK s \in DistinctSeqs(Nodes \ alive, MaxList) :
            arg' = [arg EXCEPT ![p] = [first |-> s[1], last |-> s[Len(s)]]]
      BY <1>1 DEF CallPush
    <2>2. s[1] # Null
      <3>1. /\ Len(s) \in Nat \ {0} /\ \A i \in 1 .. Len(s) : s[i] \in Nodes \ alive
        BY DistinctSeqsType
      <3> QED
        BY <3>1, NullIsNoNode
    <2> QED
      BY <1>1, <2>1, <2>2 DEF CallPush, TypeOK, LockInv, HoldersAreBusy
  <1>2. ASSUME NEW p \in Producers, PushStep(p) PROVE LockInv' /\ HoldersAreBusy'
    <2>1. CASE PushLock(p)
      BY <2>1 DEF PushLock, Lock, TypeOK, LockInv, HoldersAreBusy
    <2>2. CASE PushBehind(p)
      BY <2>2 DEF PushBehind, Unlock, NoList, TypeOK, LockInv, HoldersAreBusy
    <2>3. CASE PushFirst(p)
      BY <2>3 DEF PushFirst, NoList, TypeOK, LockInv, HoldersAreBusy
    <2>4. CASE PushNotify(p)
      BY <2>4 DEF PushNotify, Waiting, TypeOK, LockInv, HoldersAreBusy
    <2> QED
      BY <1>2, <2>1, <2>2, <2>3, <2>4 DEF PushStep
  <1>3. ASSUME NEW c \in Consumers, PopStep(c) \/ SpuriousWakeup(c) PROVE LockInv' /\ HoldersAreBusy'
    <2>1. CASE PopLock(c) \/ PopRelock(c)
      BY <2>1 DEF PopLock, PopRelock, Lock, TypeOK, LockInv, HoldersAreBusy
    <2>2. CASE PopSeesEmpty(c) \/ SpuriousWakeup(c)
      BY <2>2 DEF PopSeesEmpty, SpuriousWakeup, TypeOK, LockInv, HoldersAreBusy
    <2>3. CASE PopWait(c)
      BY <2>3 DEF PopWait, Unlock, TypeOK, LockInv, HoldersAreBusy
    <2>4. CASE PopTake(c)
      BY <2>4 DEF PopTake, PopAllNolock, Unlock, TypeOK, LockInv, HoldersAreBusy
    <2> QED
      BY <1>3, <2>1, <2>2, <2>3, <2>4 DEF PopStep
  <1>4. ASSUME NEW d \in Drainers, DrainLock(d) \/ DrainTake(d) PROVE LockInv' /\ HoldersAreBusy'
    <2>1. CASE DrainLock(d)
      BY <2>1 DEF DrainLock, Lock, TypeOK, LockInv, HoldersAreBusy
    <2>2. CASE DrainTake(d)
      BY <2>2 DEF DrainTake, PopAllNolock, Unlock, TypeOK, LockInv, HoldersAreBusy
    <2> QED
      BY <1>4, <2>1, <2>2
  <1>5. ASSUME NEW t \in Takers, ResumeTop(t) PROVE LockInv' /\ HoldersAreBusy'
    BY <1>5 DEF ResumeTop, TypeOK, LockInv, HoldersAreBusy
  <1> QED
    BY <1>1, <1>2, <1>3, <1>4, <1>5 DEF Next

\* Every step does one of these things to the lists, or nothing.
LEMMA ListsStep ==
  ASSUME ListInv, NEW M \in [Holders -> Seq(Nodes)], Holds(M), Next
  PROVE  \E K \in [Holders -> Seq(Nodes)] :
           /\ Holds(K)'
           /\ \/ K = M
              \/ \E p \in Producers : Prepared(M, K, p) \/ Pushed(M, K, p)
              \/ \E t \in Takers : Popped(M, K, t) \/ Resumed(M, K, t)
  <1> DEFINE Steps(K) == \/ K = M
                         \/ \E p \in Producers : Prepared(M, K, p) \/ Pushed(M, K, p)
                         \/ \E t \in Takers : Popped(M, K, t) \/ Resumed(M, K, t)
             Goal == \E K \in [Holders -> Seq(Nodes)] : Holds(K)' /\ Steps(K)
  <1>0. ASSUME UNCHANGED <<first, last, next, alive, arg, top>> PROVE Goal
    BY <1>0, SameLists
  <1>1. ASSUME NEW p \in Producers, CallPush(p) PROVE Goal
    BY <1>1, CallPushLists
  <1>2. ASSUME NEW p \in Producers, PushStep(p) PROVE Goal
    <2>2. CASE PushBehind(p)
      BY <2>2, PushBehindLists
    <2>3. CASE PushFirst(p)
      BY <2>3, PushFirstLists
    <2> HIDE DEF Goal
    <2>1. CASE PushLock(p) \/ PushNotify(p)
      BY <1>0, <2>1 DEF PushLock, PushNotify
    <2> QED
      BY <1>2, <2>1, <2>2, <2>3 DEF PushStep
  <1>3. ASSUME NEW c \in Consumers, PopStep(c) \/ SpuriousWakeup(c) PROVE Goal
    <2>2. CASE PopTake(c)
      BY <2>2, PopAllLists DEF PopTake, Takers
    <2> HIDE DEF Goal
    <2>1. CASE PopLock(c) \/ PopSeesEmpty(c) \/ PopWait(c) \/ PopRelock(c) \/ SpuriousWakeup(c)
      BY <1>0, <2>1 DEF PopLock, PopSeesEmpty, PopWait, PopRelock, SpuriousWakeup
    <2> QED
      BY <1>3, <2>1, <2>2 DEF PopStep
  <1>4. ASSUME NEW d \in Drainers, DrainLock(d) \/ DrainTake(d) PROVE Goal
    <2>2. CASE DrainTake(d)
      BY <2>2, PopAllLists DEF DrainTake, Takers
    <2> HIDE DEF Goal
    <2>1. CASE DrainLock(d)
      BY <1>0, <2>1 DEF DrainLock
    <2> QED
      BY <1>4, <2>1, <2>2
  <1>5. ASSUME NEW t \in Takers, ResumeTop(t) PROVE Goal
    BY <1>5, ResumeLists
  <1>6. Goal
    <2> HIDE DEF Goal
    <2> QED
      BY <1>1, <1>2, <1>3, <1>4, <1>5 DEF Next
  <1> QED
    BY <1>6

LEMMA ListStep == ListInv /\ Next => ListInv'
  <1> SUFFICES ASSUME ListInv, Next PROVE ListInv'
    OBVIOUS
  <1>1. \E M \in [Holders -> Seq(Nodes)] : Holds(M)'
    BY ListsStep DEF ListInv
  <1> QED
    BY <1>1, TypeStep, HoldersStep DEF ListInv

\* The lists of the holders are the ones that following `next` finds.
LEMMA HoldersPartition == ListInv => ListsPartitionLiveNodes
  <1> SUFFICES ASSUME ListInv PROVE ListsPartitionLiveNodes
    OBVIOUS
  <1> USE ThreadAssumption DEF Threads, Takers
  <1>1. PICK M \in [Holders -> Seq(Nodes)] : Holds(M)
    BY DEF ListInv
  <1>2. \A x \in Holders : ListOf(next, Pointer(x)) = M[x]
    BY <1>1, ListOfChain DEF Holds
  <1>3. \A x \in Holders : NodesOf(next, Pointer(x)) = Members(M[x])
    BY <1>2 DEF NodesOf, Members
  <1>4. Heads = {Pointer(x) : x \in Holders}
    <2>1. Pointer(NoThread) = first /\ NoThread \in Holders
      BY DEF Pointer, Holders
    <2>2. \A p \in Producers : Pointer(p) = arg[p].first /\ p \in Holders
      BY DEF Pointer, Holders
    <2>3. \A t \in Takers : Pointer(t) = top[t] /\ t \in Holders
      BY DEF Pointer, Holders
    <2>4. Holders = {NoThread} \cup Producers \cup Takers
      BY DEF Holders
    <2> HIDE DEF Takers
    <2>5. ASSUME NEW h \in Heads PROVE \E x \in Holders : h = Pointer(x)
      BY <2>1, <2>2, <2>3 DEF Heads
    <2>6. ASSUME NEW x \in Holders PROVE Pointer(x) \in Heads
      BY <2>1, <2>2, <2>3, <2>4 DEF Heads
    <2> QED
      BY <2>5, <2>6
  <1>5. TypeOK
    BY DEF ListInv
  <1>6. first # Null => LET q == ListOf(next, first) IN q[Len(q)] = last
    <2>1. NoThread \in Holders /\ Pointer(NoThread) = first
      BY DEF Holders, Pointer
    <2>2. ListOf(next, first) = M[NoThread]
      BY <1>2, <2>1
    <2>3. first # Null => M[NoThread] # <<>>
      BY <1>1, <2>1, PointerIsNull DEF Holds
    <2> QED
      BY <1>1, <2>2, <2>3 DEF Holds
  <1>7. \A h \in Heads : NoRepeats(ListOf(next, h))
    BY <1>1, <1>2, <1>4 DEF Holds, IsChain
  <1>8. \A h, g \in Heads : h # g => NodesOf(next, h) \cap NodesOf(next, g) = {}
    <2>1. \A x, y \in Holders : x # y => NodesOf(next, Pointer(x)) \cap NodesOf(next, Pointer(y)) = {}
      BY <1>1, <1>3 DEF Holds
    <2> QED
      BY <1>4, <2>1
  <1>9. UNION {NodesOf(next, h) : h \in Heads} = alive
    <2>1. \A x \in Holders : Members(M[x]) \subseteq Nodes
      BY <1>1, MembersAreNodes DEF Holds
    <2>2. \A n : n \in alive <=> \E x \in Holders : n \in NodesOf(next, Pointer(x))
      BY <1>1, <1>3, <1>5, <2>1 DEF Holds, TypeOK
    <2> QED
      BY <1>4, <2>2
  <1> QED
    BY <1>5, <1>6, <1>7, <1>8, <1>9 DEF ListsPartitionLiveNodes

LEMMA ListInvariant == Spec => []ListInv
  <1>1. ListInv /\ UNCHANGED vars => ListInv'
    <2> SUFFICES ASSUME ListInv, UNCHANGED vars PROVE ListInv'
      OBVIOUS
    <2>1. TypeOK' /\ LockInv' /\ HoldersAreBusy'
      BY DEF ListInv, vars, TypeOK, LockInv, HoldersAreBusy
    <2>2. \E M \in [Holders -> Seq(Nodes)] : Holds(M)'
      BY SameLists DEF ListInv, vars
    <2> QED
      BY <2>1, <2>2 DEF ListInv
  <1> QED
    BY InitListInv, ListStep, <1>1, PTL DEF Spec

(***************************************************************************)
(* The lists of task_queue survive `last` being left stale by pop_all and  *)
(* the recycling of nodes: for any number of threads, nodes and list       *)
(* lengths the queue, the batches and the lists being pushed are disjoint, *)
(* without cycles, and hold exactly the nodes that live.                   *)
(***************************************************************************)
THEOREM ListsStayDisjoint == Spec => []ListsPartitionLiveNodes
  BY ListInvariant, HoldersPartition, PTL
-----------------------------------------------------------------------------
\* What AbstractQueue sees of lists M, through the refinement mapping.
LEMMA Mapping ==
  ASSUME NEW M \in [Holders -> Seq(Nodes)], Holds(M)
  PROVE  /\ [p \in Producers |-> ListOf(next, arg[p].first)] = [p \in Producers |-> M[p]]
         /\ ListOf(next, first) = M[NoThread]
         /\ [t \in Takers |-> ListOf(next, top[t])] = [t \in Takers |-> M[t]]
  <1> USE ThreadAssumption DEF Threads, Takers
  <1>1. \A x \in Holders : ListOf(next, Pointer(x)) = M[x]
    BY ListOfChain DEF Holds
  <1>2. /\ NoThread \in Holders /\ Pointer(NoThread) = first
        /\ \A p \in Producers : p \in Holders /\ Pointer(p) = arg[p].first
        /\ \A t \in Takers : t \in Holders /\ Pointer(t) = top[t]
    BY DEF Holders, Pointer
  <1> QED
    BY <1>1, <1>2

LEMMA MappingNext ==
  ASSUME NEW K \in [Holders -> Seq(Nodes)], Holds(K)'
  PROVE  /\ [p \in Producers |-> ListOf(next, arg[p].first)]' = [p \in Producers |-> K[p]]
         /\ ListOf(next, first)' = K[NoThread]
         /\ [t \in Takers |-> ListOf(next, top[t])]' = [t \in Takers |-> K[t]]
  <1> USE ThreadAssumption DEF Threads, Takers
  <1>1. \A x \in Holders : ListOf(next', Pointer(x)') = K[x]
    BY ListOfChain DEF Holds
  <1>2. /\ NoThread \in Holders /\ Pointer(NoThread)' = first'
        /\ \A p \in Producers : p \in Holders /\ Pointer(p)' = arg'[p].first
        /\ \A t \in Takers : t \in Holders /\ Pointer(t)' = top'[t]
    BY DEF Holders, Pointer
  <1> QED
    BY <1>1, <1>2

(***************************************************************************)
(* task_queue, with its mutex, its condition variable and its pointers,    *)
(* implements the atomic FIFO queue its users see: a push takes effect     *)
(* where it links its list, a pop where it exchanges `first`.              *)
(***************************************************************************)
THEOREM QueueIsAtomic == Spec => ImplementsAbstractQueue
  <1> DEFINE pe == [p \in Producers |-> ListOf(next, arg[p].first)]
             it == ListOf(next, first)
             ta == [t \in Takers |-> ListOf(next, top[t])]
  <1>1. Init => Abstract!Init
    <2> SUFFICES ASSUME Init PROVE Abstract!Init
      OBVIOUS
    <2>1. ListOf(next, Null) = <<>>
      BY ListOfChain, EmptyChain
    <2> QED
      BY <2>1 DEF Init, NoList, Abstract!Init
  <1>2. ListInv /\ [Next]_vars => [Abstract!Next]_(Abstract!vars)
    <2> SUFFICES ASSUME ListInv, [Next]_vars PROVE Abstract!Next \/ UNCHANGED <<pe, it, ta>>
      BY DEF Abstract!vars
    <2>1. CASE UNCHANGED vars
      BY <2>1 DEF vars
    <2>2. CASE Next
      <3>1. PICK M \in [Holders -> Seq(Nodes)] : Holds(M)
        BY DEF ListInv
      <3>2. PICK K \in [Holders -> Seq(Nodes)] :
              /\ Holds(K)'
              /\ \/ K = M
                 \/ \E p \in Producers : Prepared(M, K, p) \/ Pushed(M, K, p)
                 \/ \E t \in Takers : Popped(M, K, t) \/ Resumed(M, K, t)
        BY <2>2, <3>1, ListsStep
      <3>3. /\ pe = [p \in Producers |-> M[p]] /\ it = M[NoThread] /\ ta = [t \in Takers |-> M[t]]
        BY <3>1, Mapping
      <3>4. /\ pe' = [p \in Producers |-> K[p]] /\ it' = K[NoThread] /\ ta' = [t \in Takers |-> K[t]]
        BY <3>2, MappingNext
      <3>5. /\ NoThread \in Holders /\ Producers \subseteq Holders /\ Takers \subseteq Holders
            /\ NoThread \notin Producers /\ NoThread \notin Takers /\ Producers \cap Takers = {}
        BY ThreadAssumption DEF Holders, Threads
      <3>6. CASE K = M
        BY <3>3, <3>4, <3>6
      <3>7. ASSUME NEW p \in Producers, Prepared(M, K, p) PROVE Abstract!Next
        <4>1. PICK s \in DistinctSeqs(Nodes \ alive, MaxList) : K = [M EXCEPT ![p] = s]
          BY <3>7 DEF Prepared
        <4>2. pe[p] = <<>> /\ pe' = [pe EXCEPT ![p] = s] /\ it' = it /\ ta' = ta
          <5> HIDE DEF pe, it, ta
          <5>1. M[p] = <<>> /\ \A x \in Holders : K[x] = IF x = p THEN s ELSE M[x]
            BY <3>7, <4>1 DEF Prepared
          <5>2. pe' = [pe EXCEPT ![p] = s]
            BY <3>3, <3>4, <3>5, <5>1
          <5> QED
            BY <3>3, <3>4, <3>5, <5>1, <5>2
        <4>3. /\ s \in UNION {[1 .. l -> Nodes] : l \in 1 .. MaxList}
              /\ DOMAIN s = 1 .. Len(s) /\ \A i \in DOMAIN s : s[i] \in Nodes \ alive
          <5>1. /\ Len(s) \in Nat \ {0} /\ DOMAIN s = 1 .. Len(s)
                /\ \A i \in 1 .. Len(s) : s[i] \in Nodes \ alive
            BY DistinctSeqsType
          <5>2. PICK l \in 1 .. MaxList : s \in [1 .. l -> Nodes \ alive]
            BY DEF DistinctSeqs
          <5>3. s \in [1 .. l -> Nodes]
            BY <5>2
          <5> QED
            BY <5>1, <5>3
        <4>4. \A i, j \in DOMAIN s : s[i] = s[j] => i = j
          BY <4>3 DEF DistinctSeqs, NoRepeats
        <4>5. \A x \in Holders : {M[x][i] : i \in DOMAIN M[x]} \subseteq alive
          <5>1. \A x \in Holders : Members(M[x]) \subseteq alive
            BY <3>1, MembersAreNodes DEF Holds
          <5> QED
            BY <5>1 DEF Members
        <4>6. ASSUME NEW n \in Nodes \ alive PROVE Abstract!Fresh(n)
          <5>1. \A q \in Producers : n \notin {pe[q][i] : i \in DOMAIN pe[q]}
            BY <3>3, <3>5, <4>5
          <5>2. n \notin {it[i] : i \in DOMAIN it}
            BY <3>3, <3>5, <4>5
          <5>3. \A t \in Takers : n \notin {ta[t][i] : i \in DOMAIN ta[t]}
            BY <3>3, <3>5, <4>5
          <5> QED
            BY <5>1, <5>2, <5>3 DEF Abstract!Fresh, Abstract!SeqRange
        <4>7. Abstract!Prepare(p)
          BY <4>2, <4>3, <4>4, <4>6 DEF Abstract!Prepare
        <4> QED
          BY <4>7 DEF Abstract!Next
      <3>8. ASSUME NEW p \in Producers, Pushed(M, K, p) PROVE Abstract!Next
        <4>1. /\ pe[p] # <<>> /\ pe' = [pe EXCEPT ![p] = <<>>] /\ it' = it \o pe[p] /\ ta' = ta
          <5> HIDE DEF pe, it, ta
          <5>1. M[p] # <<>> /\ \A x \in Holders : K[x] = IF x = p THEN <<>> ELSE
                                 IF x = NoThread THEN M[NoThread] \o M[p] ELSE M[x]
            BY <3>5, <3>8 DEF Pushed
          <5>2. pe' = [pe EXCEPT ![p] = <<>>]
            BY <3>3, <3>4, <3>5, <5>1
          <5>3. ta' = ta /\ it' = M[NoThread] \o M[p] /\ pe[p] = M[p] /\ it = M[NoThread]
            BY <3>3, <3>4, <3>5, <5>1
          <5> QED
            BY <5>1, <5>2, <5>3
        <4>2. Abstract!Push(p)
          BY <4>1 DEF Abstract!Push
        <4> QED
          BY <4>2 DEF Abstract!Next
      <3>9. ASSUME NEW t \in Takers, Popped(M, K, t) PROVE Abstract!Next \/ UNCHANGED <<pe, it, ta>>
        <4>1. /\ ta[t] = <<>> /\ pe' = pe /\ it' = <<>> /\ ta' = [ta EXCEPT ![t] = it]
          <5> HIDE DEF pe, it, ta
          <5>1. M[t] = <<>> /\ \A x \in Holders : K[x] = IF x = NoThread THEN <<>> ELSE
                                 IF x = t THEN M[NoThread] ELSE M[x]
            BY <3>5, <3>9 DEF Popped, Moved
          <5>2. ta' = [ta EXCEPT ![t] = it]
            BY <3>3, <3>4, <3>5, <5>1
          <5> QED
            BY <3>3, <3>4, <3>5, <5>1, <5>2
        <4>2. CASE it # <<>>
          <5>1. Abstract!PopAll(t)
            BY <4>1, <4>2 DEF Abstract!PopAll
          <5> QED
            BY <5>1 DEF Abstract!Next
        <4>3. CASE it = <<>>
          BY <4>1, <4>3
        <4> QED
          BY <4>2, <4>3
      <3>10. ASSUME NEW t \in Takers, Resumed(M, K, t) PROVE Abstract!Next
        <4>1. /\ ta[t] # <<>> /\ pe' = pe /\ it' = it /\ ta' = [ta EXCEPT ![t] = Tail(ta[t])]
          <5> HIDE DEF pe, it, ta
          <5>1. M[t] # <<>> /\ \A x \in Holders : K[x] = IF x = t THEN Tail(M[t]) ELSE M[x]
            BY <3>5, <3>10 DEF Resumed
          <5>2. ta' = [ta EXCEPT ![t] = Tail(M[t])]
            BY <3>3, <3>4, <3>5, <5>1
          <5>3. pe' = pe /\ it' = it /\ ta[t] = M[t]
            BY <3>3, <3>4, <3>5, <5>1
          <5> QED
            BY <5>1, <5>2, <5>3
        <4>2. Abstract!Resume(t)
          BY <4>1 DEF Abstract!Resume
        <4> QED
          BY <4>2 DEF Abstract!Next
      <3> QED
        BY <3>2, <3>6, <3>7, <3>8, <3>9, <3>10
    <2> QED
      BY <2>1, <2>2
  <1>3. Spec => []ListInv
    BY ListInvariant
  <1> QED
    BY <1>1, <1>2, <1>3, PTL DEF Spec, ImplementsAbstractQueue, Abstract!Spec
=============================================================================
