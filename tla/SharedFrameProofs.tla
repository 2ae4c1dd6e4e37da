------------------------- MODULE SharedFrameProofs -------------------------
(***************************************************************************)
(* Proofs about the components of MCSharedFrame, for every value of the    *)
(* constants.  First AsyncTask: the shared frame is destroyed exactly      *)
(* once, after its last use, and never leaked.  Then LogicalThread, whose  *)
(* frame is destroyed by the side that informs second.  Then Latch: the    *)
(* count is zero when the first waiter is released, and neither the latch  *)
(* nor a waiter's node is used after its time.  Then Events: the           *)
(* lock-free stacks lose nobody and give nobody away twice, also when a    *)
(* node is pushed again at an address that other threads hold in a push;   *)
(* when_all and when_any resume main once, with inputs newer than its      *)
(* subscription, and their callbacks use only an awaiter that is alive.    *)
(* At the end BlockingGet: get() gives the result of a task that jumps     *)
(* between threads, and both frames outlive those who execute them.        *)
(***************************************************************************)
EXTENDS MCSharedFrame, FiniteSetTheorems, SequenceTheorems, TLAPS

Held(f) == \E o \in Objs : obj[o] = f

\* The coroutine has not given up its reference yet.
Live(f) == cpc[f] \in {"body", "set_ready", "notify", "release"}

\* Some async_task holds f and has not given up its reference yet.
Counted(f) == \E o \in Objs : obj[o] = f /\ ~(opc = "destroy" /\ on = o)

\* A frame belongs to one async_task at most.
OneHolder == \A o, x \in Objs : obj[o] = obj[x] /\ obj[o] # Null => o = x

\* The reference count is what its name says.
RefCount ==
  \A f \in Frames : refs[f] = (IF Live(f) THEN 1 ELSE 0) + (IF Counted(f) THEN 1 ELSE 0)

\* Where a frame is in its life: destroyed if and only if both have left it.
Life ==
  \A f \in Frames :
    /\ cpc[f] \in {"unborn", "destroy"} => ~Held(f)
    /\ frees[f] = IF cpc[f] = "end" /\ ~Held(f) THEN 1 ELSE 0
    /\ opc = "destroy" /\ obj[on] = f => cpc[f] = "end"

\* The inductive invariant: neither property is inductive without the exact
\* meaning of the reference count and the uniqueness of the holder.
Inv == TypeOK /\ OneHolder /\ RefCount /\ Life
-----------------------------------------------------------------------------
LEMMA InitInv == Init => Inv
  BY AsyncAssumption
  DEF Init, Inv, TypeOK, OneHolder, RefCount, Life, Held, Live, Counted

LEMMA CoroStepInv == ASSUME Inv, NEW f \in Frames, CoroStep(f) PROVE Inv'
  <1> USE AsyncAssumption DEF Inv, OneHolder, Held, Live, Counted, consumerVars, promiseVars
  <1>1. CASE CoroReturn(f)
    BY <1>1 DEF CoroReturn, TypeOK, RefCount, Life
  <1>2. CASE FinalSetReady(f)
    BY <1>2 DEF FinalSetReady, TypeOK, RefCount, Life
  <1>3. CASE FinalNotify(f)
    BY <1>3 DEF FinalNotify, TypeOK, RefCount, Life
  <1>4. CASE FinalRelease(f)
    <2>1. TypeOK'
      BY <1>4 DEF FinalRelease, TypeOK, RefCount
    <2>2. RefCount'
      BY <1>4, <2>1 DEF FinalRelease, TypeOK, RefCount
    <2>3. refs[f] = 1 <=> ~Held(f)
      BY <1>4 DEF FinalRelease, TypeOK, RefCount, Life
    <2>4. Life'
      BY <1>4, <2>3 DEF FinalRelease, TypeOK, Life
    <2> QED
      BY <1>4, <2>1, <2>2, <2>4 DEF FinalRelease
  <1>5. CASE FinalDestroy(f)
    BY <1>5 DEF FinalDestroy, TypeOK, RefCount, Life
  <1> QED
    BY <1>1, <1>2, <1>3, <1>4, <1>5 DEF CoroStep

LEMMA ConsumerStepInv == ASSUME Inv, ConsumerCall \/ ConsumerStep PROVE Inv'
  <1> USE AsyncAssumption DEF Inv, Held, Live, Counted, consumerVars, promiseVars
  <1>1. ASSUME NEW o \in Objs, NEW f \in Frames, Create(o, f) PROVE Inv'
    <2>1. TypeOK' /\ OneHolder'
      BY <1>1 DEF Create, TypeOK, OneHolder, Life
    <2>2. RefCount'
      BY <1>1 DEF Create, TypeOK, RefCount, Life
    <2>3. Life'
      BY <1>1 DEF Create, TypeOK, Life
    <2> QED
      BY <2>1, <2>2, <2>3
  <1>2. ASSUME NEW o \in Objs, NEW x \in Objs, Swap(o, x) PROVE Inv'
    <2>1. TypeOK' /\ OneHolder'
      BY <1>2 DEF Swap, TypeOK, OneHolder
    <2>2. ASSUME NEW f \in Frames
          PROVE  (Held(f)' <=> Held(f)) /\ (Counted(f)' <=> Counted(f))
      BY <1>2 DEF Swap, TypeOK
    <2>3. RefCount'
      BY <1>2, <2>2 DEF Swap, TypeOK, RefCount
    <2>4. Life'
      BY <1>2, <2>2 DEF Swap, TypeOK, Life
    <2> QED
      BY <2>1, <2>3, <2>4
  <1>3. ASSUME NEW o \in Objs, WaitBegin(o) PROVE Inv'
    BY <1>3 DEF WaitBegin, TypeOK, OneHolder, RefCount, Life
  <1>4. ASSUME NEW o \in Objs, Detach(o) PROVE Inv'
    <2>0. PICK f \in Frames : f = obj[o]
      BY <1>4 DEF Detach, TypeOK
    <2>1. f \in Frames /\ Held(f) /\ Counted(f) /\ opc = "idle" /\ obj[o] = f
      BY <1>4, <2>0 DEF Detach, TypeOK
    <2>2. refs[f] \in {1, 2} /\ (refs[f] = 1 <=> cpc[f] = "end")
      BY <2>1 DEF TypeOK, RefCount, Life
    <2>3. CASE refs[f] = 1
      <3>1. /\ opc' = "destroy" /\ on' = o /\ obj' = obj
            /\ refs' = [refs EXCEPT ![f] = @ - 1]
            /\ UNCHANGED <<cpc, ready, kind, frees, goal>>
        BY <1>4, <2>1, <2>3 DEF Detach
      <3>2. TypeOK' /\ OneHolder'
        BY <2>1, <2>2, <3>1 DEF TypeOK, OneHolder
      <3>3. ~Counted(f)' /\ \A g \in Frames \ {f} : Counted(g)' <=> Counted(g)
        BY <2>1, <3>1 DEF OneHolder, TypeOK
      <3>4. RefCount'
        BY <2>1, <2>2, <2>3, <3>1, <3>3 DEF RefCount, TypeOK
      <3>5. Life'
        BY <2>1, <2>2, <2>3, <3>1 DEF Life, TypeOK
      <3> QED
        BY <3>2, <3>4, <3>5
    <2>4. CASE refs[f] # 1
      <3>1. /\ opc' = "idle" /\ on' = o /\ obj' = [obj EXCEPT ![o] = Null]
            /\ refs' = [refs EXCEPT ![f] = @ - 1]
            /\ UNCHANGED <<cpc, ready, kind, frees, goal>>
        BY <1>4, <2>1, <2>4 DEF Detach
      <3>2. TypeOK' /\ OneHolder'
        BY <2>1, <2>2, <2>4, <3>1 DEF TypeOK, OneHolder
      <3>3. /\ ~Counted(f)' /\ ~Held(f)'
            /\ \A g \in Frames \ {f} : (Counted(g)' <=> Counted(g)) /\ (Held(g)' <=> Held(g))
        <4>1. \A y \in Objs : obj'[y] = IF y = o THEN Null ELSE obj[y]
          BY <3>1 DEF TypeOK
        <4>2. \A y \in Objs : obj[y] = f => y = o
          BY <2>1 DEF OneHolder
        <4>3. ~Counted(f)' /\ ~Held(f)'
          BY <2>1, <4>1, <4>2
        <4>4. ASSUME NEW g \in Frames \ {f}
              PROVE  (Counted(g)' <=> Counted(g)) /\ (Held(g)' <=> Held(g))
          <5>1. \A y \in Objs : obj'[y] = g <=> obj[y] = g
            BY <2>1, <4>1, <4>2, <4>4
          <5>2. opc # "destroy" /\ opc' # "destroy"
            BY <2>1, <3>1
          <5> QED
            BY <5>1, <5>2
        <4> QED
          BY <4>3, <4>4
      <3>4. RefCount'
        BY <2>1, <2>2, <2>4, <3>1, <3>3 DEF RefCount, TypeOK
      <3>5. Life'
        BY <2>1, <2>2, <2>4, <3>1, <3>3 DEF Life, TypeOK
      <3> QED
        BY <3>2, <3>4, <3>5
    <2> QED
      BY <2>3, <2>4
  <1>5. CASE WaitLoad
    BY <1>5 DEF WaitLoad, TypeOK, OneHolder, RefCount, Life
  <1>6. CASE GetRead
    BY <1>6 DEF GetRead, TypeOK, OneHolder, RefCount, Life
  <1>7. CASE DetachDestroy
    <2>0. PICK f \in Frames : f = obj[on]
      BY <1>7 DEF DetachDestroy, TypeOK
    <2>1. on \in Objs /\ obj[on] = f /\ Held(f) /\ cpc[f] = "end" /\ frees[f] = 0
      BY <1>7, <2>0 DEF DetachDestroy, TypeOK, Life
    <2>2. /\ obj' = [obj EXCEPT ![on] = Null] /\ opc' = "idle"
          /\ frees' = [frees EXCEPT ![f] = @ + 1]
          /\ UNCHANGED <<cpc, ready, refs, kind, on, goal>>
      BY <1>7, <2>1 DEF DetachDestroy
    <2>3. TypeOK' /\ OneHolder'
      BY <2>1, <2>2 DEF TypeOK, OneHolder
    <2>4. /\ ~Held(f)' /\ ~Counted(f)' /\ ~Counted(f)
          /\ \A g \in Frames \ {f} : (Counted(g)' <=> Counted(g)) /\ (Held(g)' <=> Held(g))
      <3>1. \A y \in Objs : obj'[y] = IF y = on THEN Null ELSE obj[y]
        BY <2>2 DEF TypeOK
      <3>2. \A y \in Objs : obj[y] = f => y = on
        BY <2>1 DEF OneHolder
      <3>3. opc = "destroy"
        BY <1>7 DEF DetachDestroy
      <3>4. ~Held(f)' /\ ~Counted(f)' /\ ~Counted(f)
        BY <2>1, <3>1, <3>2, <3>3
      <3>5. ASSUME NEW g \in Frames \ {f}
            PROVE  (Counted(g)' <=> Counted(g)) /\ (Held(g)' <=> Held(g))
        <4>1. \A y \in Objs : obj'[y] = g <=> obj[y] = g
          BY <2>1, <3>1, <3>2, <3>5
        <4>2. opc' # "destroy"
          BY <2>2
        <4>3. \A y \in Objs : obj[y] = g => y # on
          BY <2>1, <3>2, <3>5
        <4> QED
          BY <4>1, <4>2, <4>3
      <3> QED
        BY <3>4, <3>5
    <2>5. RefCount'
      BY <2>1, <2>2, <2>4 DEF RefCount, TypeOK
    <2>6. Life'
      BY <2>1, <2>2, <2>4 DEF Life, TypeOK
    <2> QED
      BY <2>3, <2>5, <2>6
  <1> QED
    BY <1>1, <1>2, <1>3, <1>4, <1>5, <1>6, <1>7 DEF ConsumerCall, ConsumerStep

LEMMA Invariance == Spec => []Inv
  <1>1. Inv /\ UNCHANGED vars => Inv'
    BY DEF Inv, vars, TypeOK, OneHolder, RefCount, Life, Held, Live, Counted
  <1>2. Inv /\ Next => Inv'
    BY CoroStepInv, ConsumerStepInv DEF Next
  <1> QED
    BY InitInv, <1>1, <1>2, PTL DEF Spec
-----------------------------------------------------------------------------
\* The state of the promises and of the async_tasks keeps its types; a consumer
\* inside an operation has a frame to work on.
THEOREM TypesHold == Spec => []TypeOK
  <1>1. Inv => TypeOK
    BY DEF Inv
  <1> QED
    BY <1>1, Invariance, PTL

\* The reference count of async_task_promise works: its frame is destroyed at
\* most once and only after final_suspend and every async_task have left it.
THEOREM FrameSafety == Spec => []FrameDiesAfterLastUse
  <1>1. Inv => FrameDiesAfterLastUse
    BY DEF Inv, TypeOK, Life, Held, FrameDiesAfterLastUse
  <1> QED
    BY <1>1, Invariance, PTL

\* ... and a frame that both have left has been destroyed by one of them.
THEOREM FramesDoNotLeak == Spec => []NoFrameLeaks
  <1>1. Inv => NoFrameLeaks
    BY DEF Inv, TypeOK, Life, Held, NoFrameLeaks
  <1> QED
    BY <1>1, Invariance, PTL
-----------------------------------------------------------------------------
\* A logical_thread holds f, and has not told the coroutine that it leaves.
ThreadHeld(f)   == \E o \in Objs : lobj[o] = f
ThreadShares(f) == \E o \in Objs : lobj[o] = f /\ ~(lopc = "notify" /\ lon = o)

\* A frame belongs to one logical_thread at most.
ThreadOneHolder == \A o, x \in Objs : lobj[o] = lobj[x] /\ lobj[o] # Null => o = x

\* What the owner thread is going to do: stop() joins what it still holds, and
\* a move assignment waits for nothing else than its target.
ThreadPlan ==
  /\ \A o \in todo : lobj[o] # Null /\ (lopc # "idle" => lon # o)
  /\ lopc = "notify" => todo = {}
  /\ from # Null => todo = {} /\ lopc \in {"load", "blocked", "destroy"} /\ from # lon

\* The flag of a coroutine that runs says whether its owner has left; the
\* flag of one that has ended is set, and it was destroyed by its owner or,
\* if that had left before, by itself.
ThreadLife ==
  \A f \in Frames :
    /\ lcpc[f] = "unborn" => ~ThreadHeld(f) /\ ~flag[f]
    /\ lcpc[f] \in {"body", "exchange"} => (flag[f] <=> ~ThreadShares(f))
    /\ lcpc[f] = "destroy" => flag[f] /\ ~ThreadShares(f)
    /\ lcpc[f] \in {"notify", "end"} => flag[f]
    /\ lfrees[f] = IF lcpc[f] \in {"notify", "end"} /\ ~ThreadShares(f) THEN 1 ELSE 0
    /\ lopc = "destroy" /\ lobj[lon] = f => lcpc[f] \in {"notify", "end"}

\* The inductive invariant: LogicalFrameSafe says nothing of the flag.
ThreadInv == L!TypeOK /\ ThreadOneHolder /\ ThreadPlan /\ ThreadLife
-----------------------------------------------------------------------------
LEMMA ThreadInitInv == ASSUME L!ConstantsAreSane, L!Init PROVE ThreadInv
  BY DEF L!Init, ThreadInv, L!ConstantsAreSane, L!TypeOK, ThreadOneHolder, ThreadPlan, ThreadLife, ThreadHeld, ThreadShares

LEMMA ThreadCoroInv ==
  ASSUME ThreadInv, NEW f \in Frames, L!CoroReturn(f) \/ L!CoroFinal(f) PROVE ThreadInv'
  <1> USE DEF ThreadInv, L!TypeOK, L!ConstantsAreSane, ThreadOneHolder, ThreadPlan, ThreadHeld, ThreadShares, L!ownerVars, L!promiseVars
  <1>1. CASE L!CoroReturn(f)
    BY <1>1 DEF L!CoroReturn, ThreadLife
  <1>2. CASE L!FinalInform(f)
    BY <1>2 DEF L!FinalInform, ThreadLife
  <1>3. CASE L!FinalNotify(f)
    <2>1. L!TypeOK' /\ ThreadOneHolder' /\ ThreadPlan'
      BY <1>3 DEF L!FinalNotify
    <2>2. ASSUME NEW g \in Frames PROVE (ThreadHeld(g)' <=> ThreadHeld(g)) /\ (ThreadShares(g)' <=> ThreadShares(g))
      BY <1>3 DEF L!FinalNotify
    <2>3. ThreadLife'
      BY <1>3, <2>2 DEF L!FinalNotify, ThreadLife
    <2> QED
      BY <2>1, <2>3
  <1>4. CASE L!FinalDestroy(f)
    BY <1>4 DEF L!FinalDestroy, ThreadLife
  <1> QED
    BY <1>1, <1>2, <1>3, <1>4 DEF L!CoroFinal

LEMMA ThreadCallInv == ASSUME ThreadInv, L!OwnerCall PROVE ThreadInv'
  <1> USE DEF ThreadInv, L!TypeOK, L!ConstantsAreSane, L!ownerVars, L!promiseVars
  <1>0. todo = {}
    BY DEF L!OwnerCall
  <1>1. ASSUME NEW o \in Objs, L!RequestStop(o) PROVE ThreadInv'
    BY <1>1 DEF L!RequestStop, ThreadOneHolder, ThreadPlan, ThreadLife, ThreadHeld, ThreadShares
  <1>2. ASSUME NEW o \in Objs, L!Join(o) PROVE ThreadInv'
    BY <1>0, <1>2 DEF L!Join, ThreadOneHolder, ThreadPlan, ThreadLife, ThreadHeld, ThreadShares
  <1>3. ASSUME NEW o \in Objs, NEW x \in Objs \cup {Null}, o # x, L!CancelAndJoin(o, x) PROVE ThreadInv'
    BY <1>0, <1>3 DEF L!CancelAndJoin, ThreadOneHolder, ThreadPlan, ThreadLife, ThreadHeld, ThreadShares
  <1>4. ASSUME NEW o \in Objs, L!Detach(o) PROVE ThreadInv'
    BY <1>0, <1>4 DEF L!Detach, ThreadOneHolder, ThreadPlan, ThreadLife, ThreadHeld, ThreadShares
  <1>5. ASSUME NEW o \in Objs, NEW f \in Frames, L!Create(o, f) PROVE ThreadInv'
    BY <1>0, <1>5 DEF L!Create, ThreadOneHolder, ThreadPlan, ThreadLife, ThreadHeld, ThreadShares
  <1>6. ASSUME NEW o \in Objs, NEW x \in Objs, L!Swap(o, x) PROVE ThreadInv'
    BY <1>0, <1>6 DEF L!Swap, ThreadOneHolder, ThreadPlan, ThreadLife, ThreadHeld, ThreadShares
  <1>7. ASSUME NEW S \in SUBSET Objs, L!StopAll(S) PROVE ThreadInv'
    BY <1>0, <1>7 DEF L!StopAll, ThreadOneHolder, ThreadPlan, ThreadLife, ThreadHeld, ThreadShares
  <1> QED
    BY <1>1, <1>2, <1>3, <1>4, <1>5, <1>6, <1>7 DEF L!OwnerCall, L!Destructor, L!MoveAssign

LEMMA ThreadOwnerInv == ASSUME ThreadInv, L!OwnerStep PROVE ThreadInv'
  <1> USE DEF ThreadInv, L!TypeOK, L!ConstantsAreSane, L!ownerVars, L!promiseVars
  <1>1. CASE L!JoinNext
    BY <1>1 DEF L!JoinNext, ThreadOneHolder, ThreadPlan, ThreadLife, ThreadHeld, ThreadShares
  <1>2. CASE L!JoinLoad
    BY <1>2 DEF L!JoinLoad, ThreadOneHolder, ThreadPlan, ThreadLife, ThreadHeld, ThreadShares
  <1>3. CASE L!OwnerDestroy
    BY <1>3 DEF L!OwnerDestroy, ThreadOneHolder, ThreadPlan, ThreadLife, ThreadHeld, ThreadShares
  <1>4. CASE L!DetachNotify
    BY <1>4 DEF L!DetachNotify, ThreadOneHolder, ThreadPlan, ThreadLife, ThreadHeld, ThreadShares
  <1> QED
    BY <1>1, <1>2, <1>3, <1>4 DEF L!OwnerStep

LEMMA ThreadInvariance == ASSUME L!ConstantsAreSane PROVE L!Spec => []ThreadInv
  <1>1. ThreadInv /\ UNCHANGED L!vars => ThreadInv'
    BY DEF ThreadInv, L!vars, L!TypeOK, L!ConstantsAreSane, ThreadOneHolder, ThreadPlan, ThreadLife, ThreadHeld, ThreadShares
  <1>2. ThreadInv /\ L!Next => ThreadInv'
    BY ThreadCoroInv, ThreadCallInv, ThreadOwnerInv DEF L!Next
  <1>3. L!Init => ThreadInv
    BY ThreadInitInv
  <1> QED
    BY <1>1, <1>2, <1>3, PTL DEF L!Spec
-----------------------------------------------------------------------------
\* try_inform of two_way_bound decides who destroys the frame of a
\* logical_thread: it is destroyed exactly once, by the joiner or by the side
\* that comes second, however many coroutines and variables there are and
\* however the handles are moved, stopped, joined and detached.
THEOREM LogicalThreadSafety == L!Spec => []LogicalFrameSafe
  <1>1. L!ConstantsAreSane
    BY AsyncAssumption DEF L!ConstantsAreSane
  <1>2. ThreadInv => LogicalFrameSafe
    BY DEF ThreadInv, L!TypeOK, L!ConstantsAreSane, ThreadLife, ThreadHeld, ThreadShares,
           LogicalFrameSafe, L!LogicalFrameSafe, L!FrameDestroyedOnce, L!NoFrameLeaks
  <1> QED
    BY <1>1, <1>2, ThreadInvariance, PTL
-----------------------------------------------------------------------------
\* count_down(0) is not called: it wakes the waiters a second time when the
\* count is zero, and breaks what is proved here.
NothingCountsZero == T!ConstantsAreSane /\ 0 \notin Decrements

\* The calls that will count down, and what they will subtract, unit by unit.
LatchPending == {a \in Actors : \/ tpc[a] = "fetch_sub"
                                \/ tkind[a] # "wait" /\ tpc[a] \in {"load", "cas"}}
LatchUnits == UNION {{a} \X (1 .. n[a]) : a \in LatchPending}

\* The counter is what no call has taken yet and what the calls will subtract.
LatchAccounts ==
  /\ IsFiniteSet(LatchUnits) /\ counter = budget + Cardinality(LatchUnits)
  /\ \A a \in LatchPending : n[a] > 0

\* Before it is pushed a coroutine can be found by nobody.
LatchCallsAreFresh ==
  \A a \in Actors :
    /\ tpc[a] \in {"idle", "await_ready"} => tkind[a] = "wait"
    /\ tpc[a] \in {"idle", "await_ready", "load", "cas"} => co[a] = "running"

\* Counting, then one call that has found the last count, then its walk over
\* the waiters of the closed stack.
LatchWaking == {"read_exe", "close", "attach"}
LatchPhases ==
  /\ counter > 0 => top # Closed /\ \A a \in Actors : tpc[a] \notin LatchWaking
  /\ top # Closed => /\ ~destroyed
                     /\ \A a \in Actors : tpc[a] # "attach" /\ co[a] \in {"running", "suspended"}
  /\ top = Closed => \A a \in Actors : tpc[a] \notin {"read_exe", "close"}
  /\ \A a, b \in Actors : tpc[a] \in LatchWaking /\ tpc[b] \in LatchWaking => a = b
  /\ \A a \in Actors : rest[a] # Null => tpc[a] = "attach"
  /\ \A a \in Actors : next[a] = Closed => top = Closed
  /\ destroyed => \A a \in Actors : tpc[a] \notin {"await_ready", "load", "cas"}

\* The list: nodes of suspended coroutines lead to nodes of suspended ones, no
\* two to the same, and none to the first of the list.
FirstWaiterOK(h) == co[h] = "suspended" /\ \A x \in Actors : co[x] = "suspended" => next[x] # h
WaitersOK ==
  /\ \A x \in Actors : co[x] = "suspended" =>
       next[x] = Null \/ (next[x] \in Actors /\ co[next[x]] = "suspended")
  /\ \A x, y \in Actors : co[x] = "suspended" /\ co[y] = "suspended" /\ next[x] = next[y] /\ next[x] # Null => x = y
  /\ top \in Actors => FirstWaiterOK(top)
  /\ \A a \in Actors : rest[a] # Null => FirstWaiterOK(rest[a])

\* The inductive invariant: what is checked says nothing of who may wake.
LatchInv == T!TypeOK /\ LatchAccounts /\ LatchCallsAreFresh /\ LatchPhases /\ WaitersOK
-----------------------------------------------------------------------------
(***************************************************************************)
(* The account of the count.                                               *)
(***************************************************************************)
LEMMA LatchUnitsOf ==
  ASSUME NEW a, NEW m \in Nat
  PROVE  IsFiniteSet({a} \X (1 .. m)) /\ Cardinality({a} \X (1 .. m)) = m
  <1>1. IsFiniteSet(1 .. m) /\ Cardinality(1 .. m) = m
    BY FS_Interval
  <1>2. IsFiniteSet({a}) /\ Cardinality({a}) = 1
    BY FS_Singleton
  <1>3. IsFiniteSet({a} \X (1 .. m)) /\ Cardinality({a} \X (1 .. m)) = 1 * m
    BY <1>1, <1>2, FS_Product, ZenonT(60)
  <1> QED
    BY <1>3

\* Nobody counts down from zero.
LEMMA LatchZeroMeansNobody == ASSUME LatchInv, counter = 0 PROVE budget = 0 /\ LatchPending = {}
  <1>1. Cardinality(LatchUnits) \in Nat /\ budget \in Nat /\ 0 = budget + Cardinality(LatchUnits)
    BY FS_CardinalityType DEF LatchInv, LatchAccounts, T!TypeOK
  <1>2. budget = 0 /\ Cardinality(LatchUnits) = 0
    BY <1>1
  <1>3. LatchUnits = {}
    BY <1>2, FS_EmptySet DEF LatchInv, LatchAccounts
  <1>4. ASSUME NEW a \in LatchPending PROVE FALSE
    <2>1. n[a] > 0 /\ n[a] \in Nat
      BY DEF LatchInv, LatchAccounts, T!TypeOK, LatchPending
    <2>2. 1 \in 1 .. n[a]
      BY <2>1
    <2>3. <<a, 1>> \in {a} \X (1 .. n[a])
      BY <2>2
    <2>4. <<a, 1>> \in LatchUnits
      BY <2>3 DEF LatchUnits
    <2> QED
      BY <1>3, <2>4
  <1> QED
    BY <1>2, <1>4

LEMMA LatchSameAccounts ==
  ASSUME LatchAccounts, LatchPending' = LatchPending, UNCHANGED <<n, budget, counter>>
  PROVE  LatchAccounts'
  BY DEF LatchAccounts, LatchUnits

\* A call takes m from the budget.
LEMMA LatchTakeFromBudget ==
  ASSUME T!TypeOK, LatchAccounts, NEW a \in Actors, NEW m \in Nat, m > 0, m <= budget,
         a \notin LatchPending, LatchPending' = LatchPending \cup {a},
         n' = [n EXCEPT ![a] = m], budget' = budget - m, counter' = counter
  PROVE  LatchAccounts' /\ budget' \in 0 .. MaxCount
  <1> DEFINE taken == {a} \X (1 .. m)
  <1>1. LatchUnits' = LatchUnits \cup taken
    <2>1. \A b \in LatchPending : b # a /\ b \in Actors /\ n'[b] = n[b]
      BY DEF LatchPending, T!TypeOK
    <2>2. n'[a] = m
      BY DEF T!TypeOK
    <2> QED
      BY <2>1, <2>2 DEF LatchUnits
  <1>2. LatchUnits \cap taken = {}
    BY DEF LatchUnits
  <1>3. IsFiniteSet(taken) /\ Cardinality(taken) = m
    BY LatchUnitsOf
  <1> HIDE DEF taken
  <1>4. IsFiniteSet(LatchUnits') /\ Cardinality(LatchUnits') = Cardinality(LatchUnits) + m - Cardinality({})
    BY <1>1, <1>2, <1>3, FS_Union DEF LatchAccounts
  <1>5. Cardinality({}) = 0 /\ Cardinality(LatchUnits) \in Nat
    BY FS_EmptySet, FS_CardinalityType DEF LatchAccounts
  <1>6. counter' = budget' + Cardinality(LatchUnits') /\ budget' \in 0 .. MaxCount
    BY <1>4, <1>5 DEF LatchAccounts, T!TypeOK, T!ConstantsAreSane
  <1>7. \A b \in LatchPending' : n'[b] > 0
    BY DEF LatchAccounts, LatchPending, T!TypeOK
  <1> QED
    BY <1>4, <1>6, <1>7 DEF LatchAccounts

\* fetch_sub subtracts what the call has taken.
LEMMA LatchSubtract ==
  ASSUME T!TypeOK, LatchAccounts, NEW a \in LatchPending, LatchPending' = LatchPending \ {a},
         n' = n, budget' = budget, counter' = counter - n[a]
  PROVE  LatchAccounts' /\ counter' \in 0 .. MaxCount /\ n[a] > 0 /\ counter > 0
  <1> DEFINE taken == {a} \X (1 .. n[a])
  <1>0. n[a] \in Nat /\ n[a] > 0 /\ counter \in 0 .. MaxCount /\ budget \in Nat /\ MaxCount \in Nat
    BY DEF T!TypeOK, LatchPending, LatchAccounts, T!ConstantsAreSane
  <1>1. LatchUnits' = LatchUnits \ taken
    BY DEF LatchUnits
  <1>2. LatchUnits \cap taken = taken
    BY DEF LatchUnits
  <1>3. Cardinality(taken) = n[a]
    BY <1>0, LatchUnitsOf
  <1> HIDE DEF taken
  <1>4. IsFiniteSet(LatchUnits') /\ Cardinality(LatchUnits') = Cardinality(LatchUnits) - n[a]
    <2>1. IsFiniteSet(LatchUnits)
      BY DEF LatchAccounts
    <2>2. /\ IsFiniteSet(LatchUnits \ taken)
          /\ Cardinality(LatchUnits \ taken) = Cardinality(LatchUnits) - Cardinality(LatchUnits \cap taken)
      BY <2>1, FS_Difference
    <2> QED
      BY <1>1, <1>2, <1>3, <2>2
  <1>5. Cardinality(LatchUnits') \in Nat /\ Cardinality(LatchUnits) \in Nat
    BY <1>4, FS_CardinalityType DEF LatchAccounts
  <1>6. counter = budget + Cardinality(LatchUnits)
    BY DEF LatchAccounts
  <1>7. counter' = budget' + Cardinality(LatchUnits') /\ counter' \in 0 .. MaxCount /\ counter > 0
    BY <1>0, <1>4, <1>5, <1>6
  <1>8. \A b \in LatchPending' : n'[b] > 0
    BY DEF LatchAccounts
  <1> QED
    BY <1>0, <1>4, <1>7, <1>8 DEF LatchAccounts
-----------------------------------------------------------------------------
LEMMA LatchInitInv == NothingCountsZero /\ T!Init => LatchInv
  <1> SUFFICES ASSUME NothingCountsZero, T!Init PROVE LatchInv
    OBVIOUS
  <1>1. T!TypeOK
    BY DEF NothingCountsZero, T!ConstantsAreSane, T!Init, T!TypeOK
  <1>2. LatchPending = {} /\ LatchUnits = {}
    BY DEF T!Init, LatchPending, LatchUnits
  <1>3. LatchAccounts
    <2>1. counter = budget /\ budget \in Nat /\ IsFiniteSet({}) /\ Cardinality({}) = 0
      BY FS_EmptySet DEF T!Init, NothingCountsZero, T!ConstantsAreSane
    <2> QED
      BY <1>2, <2>1 DEF LatchAccounts
  <1>4. LatchCallsAreFresh /\ LatchPhases
    BY DEF T!Init, LatchCallsAreFresh, LatchPhases, LatchWaking, NothingCountsZero, T!ConstantsAreSane
  <1>5. WaitersOK
    BY DEF T!Init, WaitersOK, FirstWaiterOK, NothingCountsZero, T!ConstantsAreSane
  <1> QED
    BY <1>1, <1>3, <1>4, <1>5 DEF LatchInv

\* The calls.
LEMMA LatchCallInv ==
  ASSUME NothingCountsZero, LatchInv, NEW a \in Actors, T!Call(a)
  PROVE  LatchInv'
  <1> USE DEF LatchInv
  <1>1. CASE T!CallWait(a)
    <2>1. T!TypeOK' /\ LatchCallsAreFresh'
      BY <1>1 DEF T!CallWait, T!TypeOK, LatchCallsAreFresh, T!ConstantsAreSane
    <2>2. LatchPending' = LatchPending
      BY <1>1 DEF T!CallWait, T!TypeOK, LatchCallsAreFresh, LatchPending
    <2>3. LatchAccounts'
      BY <1>1, <2>2, LatchSameAccounts DEF T!CallWait
    <2>4. LatchPhases'
      BY <1>1 DEF T!CallWait, T!TypeOK, LatchPhases, LatchWaking
    <2>5. WaitersOK'
      BY <1>1 DEF T!CallWait, WaitersOK, FirstWaiterOK
    <2> QED
      BY <2>1, <2>3, <2>4, <2>5
  <1>2. ASSUME NEW m \in Decrements, T!CallArriveAndWait(a, m) \/ T!CallCountDown(a, m) PROVE LatchInv'
    <2>0. m \in Nat /\ m > 0
      BY DEF NothingCountsZero, T!ConstantsAreSane
    <2>1. /\ tpc[a] = "idle" /\ ~destroyed /\ m <= budget /\ budget' = budget - m
          /\ n' = [n EXCEPT ![a] = m]
          /\ UNCHANGED <<top, counter, destroyed, co, next, rest>>
          /\ tpc'[a] \in {"load", "fetch_sub"} /\ tkind'[a] # "wait"
          /\ \A b \in Actors : b # a => tpc'[b] = tpc[b] /\ tkind'[b] = tkind[b]
      BY <1>2 DEF T!CallArriveAndWait, T!CallCountDown, T!TypeOK
    <2>2. a \notin LatchPending /\ LatchPending' = LatchPending \cup {a}
      BY <2>1 DEF LatchPending
    <2>3. LatchAccounts' /\ budget' \in 0 .. MaxCount
      BY <2>0, <2>1, <2>2, LatchTakeFromBudget
    <2>4. T!TypeOK'
      BY <1>2, <2>0, <2>1, <2>3 DEF T!CallArriveAndWait, T!CallCountDown, T!TypeOK, T!ConstantsAreSane
    <2>5. LatchCallsAreFresh'
      BY <2>1 DEF LatchCallsAreFresh
    <2>6. LatchPhases'
      BY <2>1 DEF LatchPhases, LatchWaking
    <2>7. WaitersOK'
      BY <2>1 DEF WaitersOK, FirstWaiterOK
    <2> QED
      BY <2>3, <2>4, <2>5, <2>6, <2>7
  <1> QED
    BY <1>1, <1>2 DEF T!Call

\* Steps before the push, which nobody else can see.
LEMMA LatchBeforePushInv ==
  ASSUME LatchInv, NEW a \in Actors, T!AwaitReady(a) \/ T!StackLoad(a) \/ T!TryPushClosed(a) \/ T!CasFails(a)
  PROVE  LatchInv'
  <1> USE DEF LatchInv
  <1>1. T!TypeOK'
    BY DEF T!AwaitReady, T!StackLoad, T!TryPushClosed, T!CasFails, T!TypeOK, T!ConstantsAreSane
  <1>2. /\ UNCHANGED <<top, counter, destroyed, budget, tkind, n, rest>>
        /\ tpc[a] \in {"await_ready", "load", "cas"} /\ co[a] = "running"
        /\ tpc'[a] \in {"load", "cas", "end"} /\ co'[a] \in {"running", "returned"}
        /\ (tpc'[a] # "end" => co'[a] = "running")
        /\ (tpc'[a] = "end" => tkind[a] = "wait")
        /\ (tpc[a] = "await_ready" => tkind[a] = "wait")
        /\ (co'[a] = "returned" => top = Closed)
        /\ \A b \in Actors : b # a => tpc'[b] = tpc[b] /\ co'[b] = co[b] /\ next'[b] = next[b]
        /\ (next'[a] = next[a] \/ next'[a] = top)
    BY DEF T!AwaitReady, T!StackLoad, T!TryPushClosed, T!CasFails, T!TypeOK, LatchCallsAreFresh, LatchPhases
  <1>3. LatchPending' = LatchPending
    BY <1>2 DEF LatchPending
  <1>4. LatchAccounts'
    BY <1>2, <1>3, LatchSameAccounts
  <1>5. LatchCallsAreFresh'
    BY <1>2 DEF LatchCallsAreFresh
  <1>6. LatchPhases'
    BY <1>2 DEF LatchPhases, LatchWaking
  <1>7. WaitersOK'
    <2>1. \A b \in Actors : co'[b] = "suspended" <=> co[b] = "suspended"
      BY <1>2
    <2>2. \A b \in Actors : co[b] = "suspended" => next'[b] = next[b]
      BY <1>2
    <2>3. \A h \in Actors : FirstWaiterOK(h) => FirstWaiterOK(h)'
      BY <2>1, <2>2 DEF FirstWaiterOK
    <2>4. \A b \in Actors : rest[b] # Null => rest[b] \in Actors
      BY DEF T!TypeOK
    <2> QED
      BY <1>2, <2>1, <2>2, <2>3, <2>4 DEF WaitersOK
  <1> QED
    BY <1>1, <1>4, <1>5, <1>6, <1>7

\* A push onto a stack that is not closed: the node is the first of the list.
LEMMA LatchPushInv == ASSUME LatchInv, NEW a \in Actors, T!CasSucceeds(a) PROVE LatchInv'
  <1> USE DEF LatchInv
  <1>1. T!TypeOK'
    BY DEF T!CasSucceeds, T!TypeOK, T!ConstantsAreSane
  <1>2. /\ UNCHANGED <<counter, destroyed, budget, tkind, n, next, rest>>
        /\ tpc[a] = "cas" /\ co[a] = "running" /\ co'[a] = "suspended"
        /\ tpc'[a] = (IF tkind[a] = "wait" THEN "end" ELSE "fetch_sub")
        /\ next[a] = top /\ top' = a
        /\ \A b \in Actors : b # a => tpc'[b] = tpc[b] /\ co'[b] = co[b]
    BY DEF T!CasSucceeds, T!TypeOK, LatchCallsAreFresh
  <1>3. top # Closed
    <2>1. CASE tkind[a] = "wait"
      BY <1>2, <2>1 DEF T!CasSucceeds
    <2>2. CASE tkind[a] # "wait"
      <3>1. a \in LatchPending
        BY <1>2, <2>2 DEF LatchPending
      <3>2. counter > 0
        BY <3>1, LatchZeroMeansNobody DEF T!TypeOK
      <3> QED
        BY <3>2 DEF LatchPhases
    <2> QED
      BY <2>1, <2>2
  <1>4. LatchPending' = LatchPending
    BY <1>2 DEF LatchPending
  <1>5. LatchAccounts'
    BY <1>2, <1>4, LatchSameAccounts
  <1>6. LatchCallsAreFresh'
    BY <1>2 DEF LatchCallsAreFresh
  <1>7. top' # Closed
    BY <1>1, <1>2 DEF T!TypeOK, T!ConstantsAreSane
  <1>8. LatchPhases'
    BY <1>2, <1>3, <1>7 DEF LatchPhases, LatchWaking
  <1>9. WaitersOK'
    <2>1. \A x \in Actors : co'[x] = "suspended" <=> x = a \/ co[x] = "suspended"
      BY <1>2
    <2>2. top = Null \/ (top \in Actors /\ FirstWaiterOK(top))
      BY <1>3 DEF WaitersOK, T!TypeOK
    <2>3. \A x \in Actors : co[x] = "suspended" => next[x] # a /\ (next[x] = top => top = Null)
      BY <1>2, <2>2 DEF WaitersOK, FirstWaiterOK, T!TypeOK, T!ConstantsAreSane
    <2>4. next[a] # a
      BY <1>2, <2>2 DEF FirstWaiterOK, T!TypeOK, T!ConstantsAreSane
    <2>5. FirstWaiterOK(a)'
      BY <1>2, <2>1, <2>3, <2>4 DEF FirstWaiterOK
    <2>6. \A x \in Actors : co'[x] = "suspended" =>
            next'[x] = Null \/ (next'[x] \in Actors /\ co'[next'[x]] = "suspended")
      <3> SUFFICES ASSUME NEW x \in Actors, co'[x] = "suspended", next[x] # Null
                   PROVE  next[x] \in Actors /\ co'[next[x]] = "suspended"
        BY <1>2
      <3>1. CASE x = a
        BY <1>2, <2>1, <2>2, <3>1 DEF FirstWaiterOK
      <3>2. CASE x # a
        BY <2>1, <3>2 DEF WaitersOK
      <3> QED
        BY <3>1, <3>2
    <2>7. \A x, y \in Actors : co'[x] = "suspended" /\ co'[y] = "suspended" /\ next'[x] = next'[y]
                              /\ next'[x] # Null => x = y
      BY <1>2, <2>1, <2>3 DEF WaitersOK
    <2>8. \A b \in Actors : rest[b] = Null
      BY <1>3 DEF LatchPhases
    <2> QED
      BY <1>2, <2>5, <2>6, <2>7, <2>8 DEF WaitersOK
  <1> QED
    BY <1>1, <1>5, <1>6, <1>8, <1>9

\* fetch_sub: the counter reaches zero once, and the one who finds it is alone.
LEMMA LatchCountDownInv == ASSUME LatchInv, NEW a \in Actors, T!CountDown(a) PROVE LatchInv'
  <1> USE DEF LatchInv
  <1>1. /\ UNCHANGED <<top, destroyed, budget, tkind, n, co, next, rest>>
        /\ tpc[a] = "fetch_sub" /\ counter' = counter - n[a]
        /\ tpc'[a] = (IF counter = n[a] THEN "read_exe" ELSE "end")
        /\ \A b \in Actors : b # a => tpc'[b] = tpc[b]
        /\ tpc' \in [Actors -> {"idle", "await_ready", "load", "cas", "fetch_sub",
                                "read_exe", "close", "attach", "end"}]
    BY DEF T!CountDown, T!TypeOK
  <1>2. a \in LatchPending /\ LatchPending' = LatchPending \ {a}
    BY <1>1 DEF LatchPending
  <1>3. LatchAccounts' /\ counter' \in 0 .. MaxCount /\ n[a] > 0 /\ counter > 0
    BY <1>1, <1>2, LatchSubtract
  <1>4. T!TypeOK'
    BY <1>1, <1>3 DEF T!TypeOK, T!ConstantsAreSane
  <1>5. LatchCallsAreFresh'
    BY <1>1 DEF LatchCallsAreFresh
  <1>6. top # Closed /\ \A b \in Actors : tpc[b] \notin LatchWaking
    BY <1>3 DEF LatchPhases
  <1>7. counter' > 0 => tpc'[a] = "end"
    <2>1. counter \in Nat /\ n[a] \in Nat
      BY DEF T!TypeOK
    <2> QED
      BY <1>1, <2>1
  <1>8. LatchPhases'
    BY <1>1, <1>6, <1>7 DEF LatchPhases, LatchWaking
  <1>9. WaitersOK'
    BY <1>1 DEF WaitersOK, FirstWaiterOK
  <1> QED
    BY <1>3, <1>4, <1>5, <1>8, <1>9

\* The last one copies the executor and closes the stack.
LEMMA LatchCloseInv == ASSUME LatchInv, NEW a \in Actors, T!WakeupReadExe(a) \/ T!WakeupClose(a) PROVE LatchInv'
  <1> USE DEF LatchInv
  <1>1. CASE T!WakeupReadExe(a)
    <2>1. /\ UNCHANGED <<top, counter, destroyed, budget, tkind, n, co, next, rest>>
          /\ tpc[a] = "read_exe" /\ tpc'[a] = "close"
          /\ \A b \in Actors : b # a => tpc'[b] = tpc[b]
      BY <1>1 DEF T!WakeupReadExe, T!TypeOK
    <2>2. T!TypeOK'
      BY <1>1 DEF T!WakeupReadExe, T!TypeOK, T!ConstantsAreSane
    <2>3. LatchPending' = LatchPending
      BY <2>1 DEF LatchPending
    <2>4. LatchAccounts'
      BY <2>1, <2>3, LatchSameAccounts
    <2>5. LatchCallsAreFresh' /\ LatchPhases'
      BY <2>1 DEF LatchCallsAreFresh, LatchPhases, LatchWaking
    <2>6. WaitersOK'
      BY <2>1 DEF WaitersOK, FirstWaiterOK
    <2> QED
      BY <2>2, <2>4, <2>5, <2>6
  <1>2. CASE T!WakeupClose(a)
    <2>1. /\ UNCHANGED <<counter, destroyed, budget, tkind, n, co, next>>
          /\ tpc[a] = "close" /\ tpc'[a] = "attach" /\ top' = Closed
          /\ rest'[a] = (IF top = Closed THEN Null ELSE top)
          /\ \A b \in Actors : b # a => tpc'[b] = tpc[b] /\ rest'[b] = rest[b]
      BY <1>2 DEF T!WakeupClose, T!TypeOK
    <2>2. T!TypeOK'
      BY <1>2 DEF T!WakeupClose, T!TypeOK, T!ConstantsAreSane
    <2>3. LatchPending' = LatchPending
      BY <2>1 DEF LatchPending
    <2>4. LatchAccounts'
      BY <2>1, <2>3, LatchSameAccounts
    <2>5. /\ top # Closed /\ ~(counter > 0) /\ ~destroyed
          /\ \A b \in Actors : b # a => tpc[b] \notin LatchWaking
      BY <2>1 DEF LatchPhases, LatchWaking
    <2>6. LatchCallsAreFresh' /\ LatchPhases'
      BY <2>1, <2>5 DEF LatchCallsAreFresh, LatchPhases, LatchWaking
    <2>7. WaitersOK'
      <3>1. \A b \in Actors : rest[b] = Null
        BY <2>5 DEF LatchPhases
      <3>2. rest'[a] = top /\ top \in Actors \cup {Null} /\ (top \in Actors => FirstWaiterOK(top))
        BY <2>1, <2>5 DEF T!TypeOK, WaitersOK
      <3>3. top' \notin Actors
        BY <2>1, <2>2 DEF T!TypeOK, T!ConstantsAreSane
      <3>4. \A b \in Actors : rest'[b] # Null => FirstWaiterOK(rest'[b])
        BY <2>1, <3>1, <3>2
      <3> QED
        BY <2>1, <3>3, <3>4 DEF WaitersOK, FirstWaiterOK
    <2> QED
      BY <2>2, <2>4, <2>6, <2>7
  <1> QED
    BY <1>1, <1>2

\* attach_list takes the first node off the list before it attaches it.
LEMMA LatchAttachInv == ASSUME LatchInv, NEW a \in Actors, T!AttachList(a) PROVE LatchInv'
  <1> USE DEF LatchInv
  <1>1. /\ UNCHANGED <<top, counter, destroyed, budget, tkind, n, next>> /\ tpc[a] = "attach"
    BY DEF T!AttachList
  <1>2. top = Closed /\ ~(counter > 0) /\ top \notin Actors
    BY <1>1 DEF LatchPhases, LatchWaking, T!TypeOK, T!ConstantsAreSane
  <1>3. CASE rest[a] = Null
    <2>1. UNCHANGED <<co, rest>> /\ tpc'[a] = "end" /\ \A b \in Actors : b # a => tpc'[b] = tpc[b]
      BY <1>1, <1>3 DEF T!AttachList, T!TypeOK
    <2>2. T!TypeOK'
      BY <1>3 DEF T!AttachList, T!TypeOK, T!ConstantsAreSane
    <2>3. LatchPending' = LatchPending
      BY <1>1, <2>1 DEF LatchPending
    <2>4. LatchAccounts'
      BY <1>1, <2>3, LatchSameAccounts
    <2>5. LatchCallsAreFresh' /\ LatchPhases'
      BY <1>1, <1>3, <2>1 DEF LatchCallsAreFresh, LatchPhases, LatchWaking
    <2>6. WaitersOK'
      BY <1>1, <2>1 DEF WaitersOK, FirstWaiterOK
    <2> QED
      BY <2>2, <2>4, <2>5, <2>6
  <1>4. ASSUME NEW h \in Actors, h = rest[a] PROVE LatchInv'
    <2>1. /\ tpc' = tpc /\ co'[h] = "attached" /\ rest'[a] = next[h]
          /\ \A b \in Actors : b # h => co'[b] = co[b]
          /\ \A b \in Actors : b # a => rest'[b] = rest[b]
      BY <1>4 DEF T!AttachList, T!TypeOK, T!ConstantsAreSane
    <2>2. /\ co[h] = "suspended" /\ \A x \in Actors : co[x] = "suspended" => next[x] # h
      BY <1>4 DEF WaitersOK, FirstWaiterOK, T!TypeOK, T!ConstantsAreSane
    <2>3. next[h] = Null \/ (next[h] \in Actors /\ co[next[h]] = "suspended" /\ next[h] # h)
      BY <2>2 DEF WaitersOK
    <2>4. T!TypeOK'
      <3>1. /\ co' \in [Actors -> {"running", "suspended", "attached", "returned"}]
            /\ rest' \in [Actors -> Actors \cup {Null}]
        BY <1>4, <2>3 DEF T!AttachList, T!TypeOK, T!ConstantsAreSane
      <3> QED
        BY <1>1, <2>1, <3>1 DEF T!TypeOK, T!ConstantsAreSane
    <2>5. LatchPending' = LatchPending
      BY <1>1, <2>1 DEF LatchPending
    <2>6. LatchAccounts'
      BY <1>1, <2>5, LatchSameAccounts
    <2>7. LatchCallsAreFresh'
      BY <1>1, <2>1, <2>2 DEF LatchCallsAreFresh
    <2>8. LatchPhases'
      BY <1>1, <1>2, <2>1 DEF LatchPhases, LatchWaking
    <2>9. \A b \in Actors : b # a => rest[b] = Null
      BY <1>1 DEF LatchPhases, LatchWaking
    <2>10. WaitersOK'
      <3>1. \A x \in Actors : co'[x] = "suspended" <=> x # h /\ co[x] = "suspended"
        BY <2>1
      <3>2. \A x \in Actors : co'[x] = "suspended" =>
              next[x] = Null \/ (next[x] \in Actors /\ co'[next[x]] = "suspended")
        BY <2>2, <3>1 DEF WaitersOK
      <3>3. \A x, y \in Actors : co'[x] = "suspended" /\ co'[y] = "suspended" /\ next[x] = next[y]
                                /\ next[x] # Null => x = y
        BY <3>1 DEF WaitersOK
      <3>4. next[h] # Null => /\ co'[next[h]] = "suspended"
                             /\ \A x \in Actors : co'[x] = "suspended" => next[x] # next[h]
        BY <2>2, <2>3, <3>1 DEF WaitersOK
      <3>5. \A b \in Actors : rest'[b] # Null =>
              /\ co'[rest'[b]] = "suspended"
              /\ \A x \in Actors : co'[x] = "suspended" => next[x] # rest'[b]
        BY <1>1, <2>1, <2>9, <3>4
      <3> QED
        BY <1>1, <1>2, <3>2, <3>3, <3>5 DEF WaitersOK, FirstWaiterOK
    <2> QED
      BY <2>4, <2>6, <2>7, <2>8, <2>10
  <1> QED
    BY <1>3, <1>4 DEF T!TypeOK

\* A released coroutine goes on, and may destroy the latch.
LEMMA LatchReleasedInv == ASSUME LatchInv, NEW a \in Actors, T!ExecutorResumes(a) \/ T!Destroy(a) PROVE LatchInv'
  <1> USE DEF LatchInv
  <1>1. T!TypeOK'
    BY DEF T!ExecutorResumes, T!Destroy, T!TypeOK, T!ConstantsAreSane
  <1>2. /\ UNCHANGED <<top, counter, budget, tkind, n, tpc, next, rest>>
        /\ co[a] \in {"attached", "returned"} /\ co'[a] = "returned"
        /\ \A b \in Actors : b # a => co'[b] = co[b]
        /\ destroyed' = destroyed \/
             (destroyed' /\ \A b \in Actors : tpc[b] \notin {"await_ready", "load", "cas"})
    BY DEF T!ExecutorResumes, T!Destroy, T!TypeOK
  <1>3. top = Closed
    BY <1>2 DEF LatchPhases
  <1>4. LatchPending' = LatchPending
    BY <1>2 DEF LatchPending
  <1>5. LatchAccounts'
    BY <1>2, <1>4, LatchSameAccounts
  <1>6. LatchCallsAreFresh' /\ LatchPhases'
    BY <1>2, <1>3 DEF LatchCallsAreFresh, LatchPhases, LatchWaking
  <1>7. WaitersOK'
    <2>1. \A b \in Actors : co'[b] = "suspended" <=> co[b] = "suspended"
      BY <1>2
    <2>2. \A h \in Actors : FirstWaiterOK(h) => FirstWaiterOK(h)'
      BY <1>2, <2>1 DEF FirstWaiterOK
    <2>3. \A b \in Actors : rest[b] # Null => rest[b] \in Actors
      BY DEF T!TypeOK
    <2> QED
      BY <1>2, <2>1, <2>2, <2>3 DEF WaitersOK
  <1> QED
    BY <1>1, <1>5, <1>6, <1>7

LEMMA LatchInvariance == ASSUME NothingCountsZero PROVE T!Spec => []LatchInv
  <1>1. LatchInv /\ UNCHANGED T!vars => LatchInv'
    BY DEF LatchInv, T!vars, T!TypeOK, T!ConstantsAreSane, LatchAccounts, LatchUnits, LatchPending, LatchCallsAreFresh, LatchPhases,
           LatchWaking, WaitersOK, FirstWaiterOK
  <1>2. LatchInv /\ T!Next => LatchInv'
    BY LatchCallInv, LatchBeforePushInv, LatchPushInv, LatchCountDownInv, LatchCloseInv, LatchAttachInv, LatchReleasedInv DEF T!Next, T!ThreadStep
  <1>3. T!Init => LatchInv
    BY LatchInitInv
  <1> QED
    BY <1>1, <1>2, <1>3, PTL DEF T!Spec
-----------------------------------------------------------------------------
\* wait() and arrive_and_wait() return only when the count is zero: for any
\* number of calls of count_down(n), wait() and arrive_and_wait(n), n > 0, and
\* any interleaving of their accesses to the counter and to the stack.
THEOREM LatchOpensAtZero == ASSUME NothingCountsZero PROVE T!Spec => []NobodyPassesEarly
  <1>1. LatchInv => NobodyPassesEarly
    BY DEF LatchInv, LatchPhases, NobodyPassesEarly, T!NobodyPassesEarly, T!TypeOK
  <1> QED
    BY <1>1, LatchInvariance, PTL

\* A latch may be destroyed right after a wait() has returned: the thread that
\* wakes the waiters has copied the executor and closed the stack by then, and
\* it reads a node before the coroutine that holds the node can go on.
THEOREM LatchMayBeDestroyed == ASSUME NothingCountsZero PROVE T!Spec => []NothingDeadIsTouched
  <1>1. ASSUME LatchInv PROVE NothingDeadIsTouched
    <2>1. T!NoUseAfterDestroy
      <3> SUFFICES ASSUME destroyed, NEW a \in Actors
                   PROVE  tpc[a] \notin {"await_ready", "load", "cas", "fetch_sub", "read_exe", "close"}
        BY DEF T!NoUseAfterDestroy
      <3>1. top = Closed /\ counter = 0
        BY <1>1 DEF LatchInv, LatchPhases, T!TypeOK
      <3>2. a \notin LatchPending
        BY <1>1, <3>1, LatchZeroMeansNobody
      <3> QED
        BY <1>1, <3>1, <3>2 DEF LatchInv, LatchPhases, LatchPending
    <2>2. T!AttachListSeesLiveNodes
      BY <1>1 DEF LatchInv, WaitersOK, FirstWaiterOK, T!AttachListSeesLiveNodes
    <2> QED
      BY <1>1, <2>1, <2>2 DEF LatchInv, NothingDeadIsTouched, T!NothingDeadIsTouched
  <1> QED
    BY <1>1, LatchInvariance, PTL
-----------------------------------------------------------------------------
\* Facts about linked lists, for the nodes of subscribers.
LP == INSTANCE ListProofs WITH Nodes <- E!Nodes

\* What the theorems assume.  nullptr is no node.
EventsAssumption == E!ConstantsAreSane /\ IsFiniteSet(Subs) /\ Null \notin E!Nodes

\* The places where lists are, and their pointers.
Ev(e)  == <<"ev", e>>
Th(t)  == <<"th", t>>
Places == {Ev(e) : e \in 1 .. N} \cup {Th(t) : t \in Threads}
Heads  == [l \in Places |-> IF l[1] = "ev" THEN etop[l[2]] ELSE erest[l[2]]]

\* The nodes of the list at place l.
Mem(l) == LP!NodesOf(enext, Heads[l])

\* Each place holds a list and they share no node; a coroutine that is
\* subscribed is in the stack of its event, one that was popped in the list of
\* a notify_all.
Lists == LP!Separate(Places, Heads, enext)
Listed ==
  /\ \A e \in 1 .. N : \A x \in E!Nodes :
       x \in Mem(Ev(e)) <=> node[x] = "subscribed" /\ E!EventOf(x) = e
  /\ \A t \in Threads : \A x \in Mem(Th(t)) : node[x] = "popped"
  /\ \A x \in E!Nodes : node[x] = "popped" => \E t \in Threads : x \in Mem(Th(t))

\* What a thread does to the node in its hands; no other thread has it.
Calls == {"count", "store", "main"}
HandOK(t) ==
  /\ epc[t] = "walk" <=> cur[t] = Null
  /\ epc[t] \in {"register", "crashed"} => cur[t] \in E!Cbs /\ node[cur[t]] = "none"
  /\ epc[t] \in {"load", "cas"} => node[cur[t]] = "pushing"
  /\ epc[t] \in {"resume"} \cup Calls => node[cur[t]] = "run"
  /\ epc[t] \in Calls => cur[t] \in E!Cbs
  /\ epc[t] = "count" => mode = "all"
  /\ epc[t] = "store" => mode = "any"
ThreadsOK ==
  /\ \A t \in Threads : HandOK(t)
  /\ \A t, u \in Threads : cur[t] = cur[u] /\ cur[t] # Null => t = u

\* One thread at a time subscribes main in a round, to one event after the
\* other; rounds begin when the one before has ended.
Registers(t, r) == epc[t] \in {"register", "crashed", "load", "cas"} /\ cur[t] \in E!Cbs /\ cur[t][2] = r
RoundsOK ==
  /\ \A t \in Threads, r \in 1 .. Rounds, i, j \in 1 .. N :
       Registers(t, r) /\ cur[t] = E!Cb(r, i) /\ j > i => node[E!Cb(r, j)] = "none"
  /\ \A t, u \in Threads, r \in 1 .. Rounds : Registers(t, r) /\ Registers(u, r) => t = u
  /\ \A r \in 1 .. Rounds : awaiter[r] = "none" =>
       \A i \in 1 .. N : node[E!Cb(r, i)] = "none" /\ \A t \in Threads : cur[t] # E!Cb(r, i)
  /\ \A r \in 1 .. Rounds : r < Rounds => (awaiter[r] = "dead" <=> awaiter[r + 1] # "none")

\* The callbacks of a round that have counted, and who is to resume main, which
\* is the last one of when_all and the first one of when_any.
HasCounted(x) == node[x] = "run" /\ \A t \in Threads : cur[t] = x => epc[t] \notin {"resume", "count"}
HasStored(x)  == node[x] = "run" /\ \A t \in Threads : cur[t] = x => epc[t] # "resume"
Done(r) == {i \in 1 .. N : HasCounted(E!Cb(r, i))}
Chosen(t, r) == epc[t] \in {"store", "main"} /\ cur[t][2] = r
CountsOK ==
  /\ \A r \in 1 .. Rounds : count[r] = Cardinality(Done(r))
  /\ \A r \in 1 .. Rounds : resumes[r] = IF awaiter[r] = "dead" THEN 1 ELSE 0
  /\ \A t \in Threads, r \in 1 .. Rounds : Chosen(t, r) => awaiter[r] = "alive"
  /\ \A t, u \in Threads, r \in 1 .. Rounds : Chosen(t, r) /\ Chosen(u, r) => t = u
  /\ \A r \in 1 .. Rounds : awaiter[r] = "dead" \/ (\E t \in Threads : Chosen(t, r)) =>
       IF mode = "all" THEN count[r] = N ELSE count[r] >= 1

\* Inputs are newer than the subscription from the moment of the notification
\* on, on their way through the list, the node and the awaiter.
Stored(r) == awaiter[r] = "dead" \/ \E t \in Threads : epc[t] = "main" /\ cur[t][2] = r
InputsOK ==
  /\ \A x \in E!Cbs : since[x] <= fired
  /\ \A t \in Threads : \A x \in Mem(Th(t)) : x \in E!Cbs => val[t] > since[x]
  /\ \A t \in Threads : epc[t] \in {"resume", "store"} /\ cur[t] \in E!Cbs => value[cur[t]] > since[cur[t]]
  /\ mode = "all" => \A r \in 1 .. Rounds, i \in 1 .. N :
       HasStored(E!Cb(r, i)) => input[r][i] > since[E!Cb(r, i)]
  /\ mode = "any" => \A r \in 1 .. Rounds :
       /\ ~Stored(r) => \A i \in 1 .. N : input[r][i] = 0
       /\ Stored(r) => \E i \in 1 .. N : /\ node[E!Cb(r, i)] = "run"
                                         /\ input[r][i] > since[E!Cb(r, i)]
                                         /\ \A j \in 1 .. N : j # i => input[r][j] = 0

\* The inductive invariant.
EventsInv == E!TypeOK /\ Lists /\ Listed /\ ThreadsOK /\ RoundsOK /\ CountsOK /\ InputsOK
-----------------------------------------------------------------------------
\* What the nodes of callbacks and of plain subscribers look like.
LEMMA EventNodeFacts ==
  /\ \A r \in 1 .. Rounds, i \in 1 .. N :
       /\ E!Cb(r, i) \in E!Cbs /\ E!Cb(r, i)[1] = "cb" /\ E!Cb(r, i)[2] = r /\ E!Cb(r, i)[3] = i
  /\ \A x \in E!Cbs : /\ x \in E!Nodes /\ x[1] = "cb" /\ x[2] \in 1 .. Rounds /\ x[3] \in 1 .. N
                      /\ x = E!Cb(x[2], x[3]) /\ E!EventOf(x) = x[3]
  /\ \A s \in Subs : E!Sub(s) \in E!Nodes /\ E!Sub(s)[1] = "sub" /\ E!Sub(s)[2] = s
  /\ \A x \in E!Nodes : x \notin E!Cbs => /\ x[1] = "sub" /\ x[2] \in Subs
                                          /\ x = E!Sub(x[2]) /\ E!EventOf(x) = 1
  BY DEF E!Nodes, E!Cbs, E!Cb, E!Sub, E!EventOf

\* Events and the proofs about lists walk along a list in the same way.
LEMMA EventOperators == \A nxt, p : E!NodesOf(nxt, p) = LP!NodesOf(nxt, p)
  <1>1. \A nxt, p : E!ListOf(nxt, p) = LP!ListOf(nxt, p)
    BY DEF E!ListOf, LP!ListOf, E!Cardinality, LP!Cardinality
  <1> QED
    BY <1>1 DEF E!NodesOf, LP!NodesOf

\* There are finitely many nodes, so that a walk has an end.
LEMMA EventNodesFinite == ASSUME EventsAssumption PROVE IsFiniteSet(E!Nodes)
  <1> DEFINE subNodes == {E!Sub(s) : s \in Subs}
             pairs == (1 .. Rounds) \X (1 .. N)
             f == [s \in Subs |-> E!Sub(s)]
             g == [p \in pairs |-> E!Cb(p[1], p[2])]
  <1>1. IsFiniteSet(1 .. Rounds) /\ IsFiniteSet(1 .. N)
    BY FS_Interval DEF EventsAssumption, E!ConstantsAreSane
  <1>2. IsFiniteSet(pairs)
    BY <1>1, FS_Product
  <1>3. f \in Surjection(Subs, subNodes)
    BY DEF Surjection
  <1>4. g \in Surjection(pairs, E!Cbs)
    <2>1. g \in [pairs -> E!Cbs]
      BY DEF E!Cbs
    <2>2. ASSUME NEW r \in 1 .. Rounds, NEW i \in 1 .. N PROVE <<r, i>> \in pairs /\ g[<<r, i>>] = E!Cb(r, i)
      OBVIOUS
    <2> HIDE DEF g, pairs
    <2>3. ASSUME NEW x \in E!Cbs PROVE \E p \in pairs : g[p] = x
      <3>1. x[2] \in 1 .. Rounds /\ x[3] \in 1 .. N /\ x = E!Cb(x[2], x[3])
        BY EventNodeFacts
      <3>2. <<x[2], x[3]>> \in pairs /\ g[<<x[2], x[3]>>] = x
        BY <2>2, <3>1
      <3> QED
        BY <3>2
    <2> QED
      BY <2>1, <2>3 DEF Surjection
  <1>5. IsFiniteSet(subNodes) /\ IsFiniteSet(E!Cbs)
    BY <1>2, <1>3, <1>4, FS_Surjection DEF EventsAssumption
  <1> HIDE DEF subNodes
  <1>6. E!Nodes = E!Cbs \cup subNodes
    BY DEF E!Nodes, subNodes
  <1> QED
    BY <1>5, <1>6, FS_Union

\* The assumptions of LinkedLists hold of the nodes of subscribers.
LEMMA EventListsApply ==
  ASSUME EventsAssumption PROVE LP!IsFiniteSet(E!Nodes) /\ Null \notin E!Nodes
  BY EventNodesFinite DEF EventsAssumption, IsFiniteSet, LP!IsFiniteSet

\* Places do not coincide.
LEMMA EventPlaces ==
  /\ \A e \in 1 .. N : Ev(e) \in Places
  /\ \A t \in Threads : Th(t) \in Places
  /\ \A e, f \in 1 .. N : Ev(e) = Ev(f) => e = f
  /\ \A t, u \in Threads : Th(t) = Th(u) => t = u
  /\ \A e \in 1 .. N, t \in Threads : Ev(e) # Th(t)
  /\ \A l \in Places : (\E e \in 1 .. N : l = Ev(e)) \/ (\E t \in Threads : l = Th(t))
  BY DEF Ev, Th, Places

\* What Heads is at each place, before and after a step.
LEMMA EventHeads ==
  /\ Heads = [l \in Places |-> Heads[l]] /\ Heads' = [l \in Places |-> Heads'[l]]
  /\ \A e \in 1 .. N : Heads[Ev(e)] = etop[e] /\ Heads'[Ev(e)] = etop'[e]
  /\ \A t \in Threads : Heads[Th(t)] = erest[t] /\ Heads'[Th(t)] = erest'[t]
  <1>1. /\ \A e \in 1 .. N : Ev(e)[1] = "ev" /\ Ev(e)[2] = e
        /\ \A t \in Threads : Th(t)[1] = "th" /\ Th(t)[2] = t
    BY DEF Ev, Th
  <1>2. Heads = [l \in Places |-> Heads[l]] /\ Heads' = [l \in Places |-> Heads'[l]]
    BY DEF Heads, Places
  <1>3. /\ \A l \in Places : Heads[l] = IF l[1] = "ev" THEN etop[l[2]] ELSE erest[l[2]]
        /\ \A l \in Places : Heads'[l] = IF l[1] = "ev" THEN etop'[l[2]] ELSE erest'[l[2]]
    BY DEF Heads, Places
  <1> QED
    BY <1>1, <1>2, <1>3, EventPlaces

\* Pointers are nodes or nullptr.
LEMMA EventHeadsType ==
  ASSUME E!TypeOK' PROVE Heads' \in [Places -> E!Nodes \cup {Null}]
  <1>1. /\ \A e \in 1 .. N : etop'[e] \in E!Nodes \cup {Null}
        /\ \A t \in Threads : erest'[t] \in E!Nodes \cup {Null}
    BY DEF E!TypeOK
  <1>2. \A l \in Places : Heads'[l] \in E!Nodes \cup {Null}
    BY <1>1, EventPlaces, EventHeads
  <1>3. Heads' = [l \in Places |-> Heads'[l]]
    BY EventHeads
  <1> HIDE DEF Heads
  <1> QED
    BY <1>2, <1>3, Zenon

\* A list is made of nodes, is empty if its pointer is nullptr, and shares no node.
LEMMA EventInPlace ==
  ASSUME EventsAssumption, Lists, NEW l \in Places
  PROVE  /\ Mem(l) \subseteq E!Nodes
         /\ Heads[l] = Null => Mem(l) = {}
         /\ Heads[l] # Null => Heads[l] \in Mem(l)
         /\ \A m \in Places : l # m => Mem(l) \cap Mem(m) = {}
  <1>1. LP!Separate(Places, Heads, enext)
    BY DEF Lists
  <1>2. \A m \in Places : l # m => Mem(l) \cap Mem(m) = {}
    BY <1>1 DEF LP!Separate, Mem
  <1> QED
    BY <1>1, <1>2, LP!InList, EventListsApply DEF Mem

\* A step that writes only to the `next` fields of nodes in no list.
LEMMA EventsUnmoved ==
  ASSUME EventsAssumption, Lists, UNCHANGED <<etop, erest>>,
         \A l \in Places : \A x \in Mem(l) : enext'[x] = enext[x]
  PROVE  /\ Lists'
         /\ \A l \in Places : Mem(l)' = Mem(l)
  <1>1. Heads' = Heads
    BY DEF Heads
  <1>2. LP!Separate(Places, Heads, enext)
    BY DEF Lists
  <1>3. /\ LP!Separate(Places, Heads, enext')
        /\ \A l \in Places : LP!NodesOf(enext', Heads[l]) = LP!NodesOf(enext, Heads[l])
    BY <1>2, LP!SeparateKept, EventListsApply DEF Mem
  <1> QED
    BY <1>1, <1>3 DEF Lists, Mem

\* push: a node in no list whose `next` is the top of the stack of event e.
LEMMA EventPush ==
  ASSUME EventsAssumption, E!TypeOK, E!TypeOK', Lists, NEW e \in 1 .. N, NEW x \in E!Nodes,
         \A l \in Places : x \notin Mem(l), enext[x] = etop[e],
         etop' = [etop EXCEPT ![e] = x], UNCHANGED <<enext, erest>>
  PROVE  /\ Lists'
         /\ Mem(Ev(e))' = Mem(Ev(e)) \cup {x}
         /\ \A l \in Places : l # Ev(e) => Mem(l)' = Mem(l)
  <1>1. LP!Separate(Places, Heads, enext) /\ Heads' \in [Places -> E!Nodes \cup {Null}]
    BY EventHeadsType DEF Lists
  <1>2. enext \in [E!Nodes -> E!Nodes \cup {Null}] /\ Ev(e) \in Places /\ enext[x] = Heads[Ev(e)]
    BY EventPlaces, EventHeads DEF E!TypeOK
  <1>3. etop'[e] = x /\ \A f \in 1 .. N : f # e => etop'[f] = etop[f]
    BY DEF E!TypeOK
  <1>4. Heads'[Ev(e)] = x /\ \A l \in Places : l # Ev(e) => Heads'[l] = Heads[l]
    BY <1>3, EventPlaces, EventHeads
  <1>5. \A l \in Places : x \notin LP!NodesOf(enext, Heads[l])
    BY DEF Mem
  <1> HIDE DEF Heads
  <1>6. /\ LP!Separate(Places, Heads', enext)
        /\ LP!NodesOf(enext, Heads'[Ev(e)]) = LP!NodesOf(enext, Heads[Ev(e)]) \cup {x}
    BY <1>1, <1>2, <1>4, <1>5, LP!SeparatePush, EventListsApply
  <1> QED
    BY <1>4, <1>6 DEF Lists, Mem

\* try_pop_all: the list of event e goes to thread t, which had none.
LEMMA EventPop ==
  ASSUME EventsAssumption, E!TypeOK, E!TypeOK', Lists, NEW e \in 1 .. N, NEW t \in Threads,
         erest[t] = Null, erest' = [erest EXCEPT ![t] = etop[e]],
         etop' = [etop EXCEPT ![e] = Null], UNCHANGED enext
  PROVE  /\ Lists'
         /\ Mem(Th(t))' = Mem(Ev(e)) /\ Mem(Ev(e))' = {} /\ Mem(Th(t)) = {}
         /\ \A l \in Places : l # Ev(e) /\ l # Th(t) => Mem(l)' = Mem(l)
  <1>1. LP!Separate(Places, Heads, enext) /\ Heads' \in [Places -> E!Nodes \cup {Null}]
    BY EventHeadsType DEF Lists
  <1>2. /\ etop'[e] = Null /\ \A f \in 1 .. N : f # e => etop'[f] = etop[f]
        /\ erest'[t] = etop[e] /\ \A u \in Threads : u # t => erest'[u] = erest[u]
    BY DEF E!TypeOK
  <1>3. /\ Ev(e) \in Places /\ Th(t) \in Places /\ Ev(e) # Th(t) /\ Heads[Th(t)] = Null
        /\ Heads'[Th(t)] = Heads[Ev(e)] /\ Heads'[Ev(e)] = Null
        /\ \A l \in Places : l # Ev(e) /\ l # Th(t) => Heads'[l] = Heads[l]
    BY ONLY erest[t] = Null, <1>2, EventPlaces, EventHeads, SMTT(30)
  <1> HIDE DEF Heads
  <1>4. LP!Separate(Places, Heads', enext)
    BY <1>1, <1>3, LP!SeparateMove, EventListsApply
  <1>5. LP!NodesOf(enext, Heads'[Ev(e)]) = {} /\ LP!NodesOf(enext, Heads[Th(t)]) = {}
    BY <1>1, <1>3, <1>4, LP!InList, EventListsApply
  <1> QED
    BY <1>3, <1>4, <1>5 DEF Lists, Mem

\* notify_all takes the first node out of the list of thread t.
LEMMA EventWalk ==
  ASSUME EventsAssumption, E!TypeOK, E!TypeOK', Lists, NEW t \in Threads, NEW x, x = erest[t], x # Null,
         erest' = [erest EXCEPT ![t] = enext[x]], enext' = [enext EXCEPT ![x] = Null], UNCHANGED etop
  PROVE  /\ Lists'
         /\ x \in Mem(Th(t)) /\ Mem(Th(t))' = Mem(Th(t)) \ {x}
         /\ \A l \in Places : l # Th(t) => Mem(l)' = Mem(l)
  <1>1. LP!Separate(Places, Heads, enext) /\ Heads' \in [Places -> E!Nodes \cup {Null}]
    BY EventHeadsType DEF Lists
  <1>2. /\ erest'[t] = enext[x] /\ \A u \in Threads : u # t => erest'[u] = erest[u]
        /\ \A y \in E!Nodes : y # x => enext'[y] = enext[y]
    BY DEF E!TypeOK
  <1>3. /\ Th(t) \in Places /\ Heads[Th(t)] = x /\ Heads'[Th(t)] = enext[x]
        /\ \A l \in Places : l # Th(t) => Heads'[l] = Heads[l]
    BY ONLY x = erest[t], UNCHANGED etop, <1>2, EventPlaces, EventHeads
  <1>4. /\ x \in Mem(Th(t))
        /\ \A l \in Places : Mem(l) \subseteq E!Nodes
        /\ \A l \in Places : l # Th(t) => x \notin Mem(l)
    BY <1>3, EventInPlace
  <1> HIDE DEF Heads
  <1>5. /\ LP!Separate(Places, Heads', enext)
        /\ LP!NodesOf(enext, Heads'[Th(t)]) = LP!NodesOf(enext, Heads[Th(t)]) \ {x}
    BY <1>1, <1>3, LP!SeparateStep, EventListsApply
  <1>6. \A l \in Places : LP!NodesOf(enext, Heads'[l]) \subseteq Mem(l) \ {x}
    BY <1>3, <1>4, <1>5 DEF Mem
  <1>7. \A l \in Places : \A y \in LP!NodesOf(enext, Heads'[l]) : enext'[y] = enext[y]
    BY <1>2, <1>4, <1>6
  <1>8. /\ LP!Separate(Places, Heads', enext')
        /\ \A l \in Places : LP!NodesOf(enext', Heads'[l]) = LP!NodesOf(enext, Heads'[l])
    BY ONLY EventsAssumption, <1>5, <1>7, LP!SeparateKept, EventListsApply
  <1> QED
    BY <1>3, <1>4, <1>5, <1>8 DEF Lists, Mem

\* Sets of events, and when such a set is full.
LEMMA EventSets ==
  ASSUME EventsAssumption
  PROVE  /\ N \in Nat \ {0}
         /\ \A D \in SUBSET (1 .. N) :
              /\ Cardinality(D) \in 0 .. N
              /\ Cardinality(D) = N => D = 1 .. N
              /\ \A i \in (1 .. N) \ D : Cardinality(D) < N /\ Cardinality(D \cup {i}) = Cardinality(D) + 1
  <1>1. N \in Nat \ {0} /\ 1 \in Int /\ N \in Int
    BY DEF EventsAssumption, E!ConstantsAreSane
  <1>2. IsFiniteSet(1 .. N) /\ Cardinality(1 .. N) = N
    BY <1>1, FS_Interval
  <1>3. ASSUME NEW D \in SUBSET (1 .. N)
        PROVE  /\ Cardinality(D) \in 0 .. N /\ IsFiniteSet(D)
               /\ Cardinality(D) = N => D = 1 .. N
    <2>1. IsFiniteSet(D) /\ Cardinality(D) <= N /\ (Cardinality(D) = N => D = 1 .. N)
      BY <1>2, FS_Subset
    <2>2. Cardinality(D) \in Nat
      BY <2>1, FS_CardinalityType
    <2> QED
      BY <1>1, <2>1, <2>2
  <1>4. ASSUME NEW D \in SUBSET (1 .. N), NEW i \in (1 .. N) \ D
        PROVE  Cardinality(D) < N /\ Cardinality(D \cup {i}) = Cardinality(D) + 1
    <2>1. Cardinality(D) # N
      BY <1>3
    <2>2. Cardinality(D \cup {i}) = Cardinality(D) + 1
      BY <1>3, FS_AddElement
    <2> QED
      BY <1>1, <1>3, <2>1, <2>2
  <1> QED
    BY <1>1, <1>3, <1>4

\* Callbacks that have counted are callbacks.
LEMMA DoneSet == \A r \in 1 .. Rounds : Done(r) \subseteq 1 .. N
  BY DEF Done

\* The node in the hands of a thread, which is in no list.
LEMMA EventInHand ==
  ASSUME EventsAssumption, EventsInv, NEW t \in Threads, epc[t] # "walk"
  PROVE  /\ cur[t] \in E!Nodes /\ E!EventOf(cur[t]) \in 1 .. N /\ cur[t] # Null
         /\ node[cur[t]] = "none" => cur[t] \in E!Cbs
         /\ \A l \in Places : Mem(l) \subseteq E!Nodes \ {cur[t]}
  <1>1. /\ cur[t] \in E!Nodes /\ cur[t] # Null
        /\ node[cur[t]] \in {"none", "pushing", "run"}
        /\ node[cur[t]] = "none" => cur[t] \in E!Cbs
    BY DEF EventsInv, E!TypeOK, ThreadsOK, HandOK, Calls
  <1>2. E!EventOf(cur[t]) \in 1 .. N
    BY <1>1, EventNodeFacts, EventSets
  <1>3. \A l \in Places : \A y \in Mem(l) : y \in E!Nodes /\ node[y] \in {"subscribed", "popped"}
    <2>1. ASSUME NEW l \in Places, NEW y \in Mem(l) PROVE y \in E!Nodes
      BY EventInPlace DEF EventsInv
    <2> QED
      BY <2>1, EventPlaces DEF EventsInv, Listed
  <1> QED
    BY <1>1, <1>2, <1>3

\* A step that moves no list, and changes no node in one.
LEMMA EventListsKept ==
  ASSUME EventsAssumption, Lists, Listed, UNCHANGED <<etop, erest>>,
         \A l \in Places : \A x \in Mem(l) : enext'[x] = enext[x],
         \A x \in E!Nodes : node'[x] = node[x] \/ {node[x], node'[x]} \cap {"subscribed", "popped"} = {}
  PROVE  Lists' /\ Listed' /\ \A l \in Places : Mem(l)' = Mem(l)
  <1>1. Lists' /\ \A l \in Places : Mem(l)' = Mem(l)
    BY EventsUnmoved
  <1>2. \A x \in E!Nodes : /\ node'[x] = "subscribed" <=> node[x] = "subscribed"
                           /\ node'[x] = "popped" <=> node[x] = "popped"
    OBVIOUS
  <1>3. \A l \in Places : Mem(l) \subseteq E!Nodes
    BY EventInPlace
  <1> QED
    BY <1>1, <1>2, <1>3, EventPlaces DEF Listed

\* What a step of thread t must leave true of the others, of its own node, and
\* of the rounds, for the parts of the invariant that it does not touch.
LEMMA EventThreadsKept ==
  ASSUME ThreadsOK, NEW t \in Threads, HandOK(t)', UNCHANGED mode,
         \A u \in Threads : u # t => cur'[u] = cur[u] /\ epc'[u] = epc[u],
         \A u \in Threads : u # t /\ cur[u] # Null => node'[cur[u]] = node[cur[u]],
         \A u \in Threads : u # t /\ cur'[t] # Null => cur[u] # cur'[t]
  PROVE  ThreadsOK'
  <1>1. ASSUME NEW u \in Threads, u # t PROVE HandOK(u)'
    BY <1>1 DEF ThreadsOK, HandOK, Calls
  <1> HIDE DEF HandOK
  <1> QED
    BY <1>1 DEF ThreadsOK

\* A step that registers nothing and begins no round.
LEMMA EventRoundsKept ==
  ASSUME RoundsOK, UNCHANGED awaiter,
         \A u \in Threads, r \in 1 .. Rounds : Registers(u, r)' => Registers(u, r) /\ cur'[u] = cur[u],
         \A x \in E!Cbs : node[x] = "none" => node'[x] = "none",
         \A u \in Threads : cur'[u] = cur[u] \/ cur'[u] \notin E!Cbs \/ node[cur'[u]] # "none"
  PROVE  RoundsOK'
  <1> USE EventNodeFacts
  <1>1. \A u \in Threads, r \in 1 .. Rounds, i, j \in 1 .. N :
          Registers(u, r)' /\ cur'[u] = E!Cb(r, i) /\ j > i => node'[E!Cb(r, j)] = "none"
    BY DEF RoundsOK
  <1>2. \A t, u \in Threads, r \in 1 .. Rounds : Registers(t, r)' /\ Registers(u, r)' => t = u
    BY DEF RoundsOK
  <1>3. \A r \in 1 .. Rounds : awaiter'[r] = "none" =>
          \A i \in 1 .. N : node'[E!Cb(r, i)] = "none" /\ \A u \in Threads : cur'[u] # E!Cb(r, i)
    BY DEF RoundsOK
  <1> QED
    BY <1>1, <1>2, <1>3 DEF RoundsOK

\* A step that no callback counts in, and that chooses nobody.
LEMMA EventCountsKept ==
  ASSUME CountsOK, UNCHANGED <<mode, count, resumes, awaiter>>,
         \A x \in E!Cbs : HasCounted(x)' = HasCounted(x),
         \A u \in Threads, r \in 1 .. Rounds : Chosen(u, r)' = Chosen(u, r)
  PROVE  CountsOK'
  <1>1. \A r \in 1 .. Rounds : Done(r)' = Done(r)
    BY EventNodeFacts DEF Done
  <1> QED
    BY <1>1 DEF CountsOK

\* A step that neither notifies nor stores an input in an awaiter.
LEMMA EventInputsKept ==
  ASSUME InputsOK, UNCHANGED <<mode, since, fired, input>>,
         \A u \in Threads : Mem(Th(u))' \subseteq Mem(Th(u)) /\ (val'[u] = val[u] \/ Mem(Th(u))' = {}),
         \A u \in Threads : epc'[u] \in {"resume", "store"} /\ cur'[u] \in E!Cbs
                              => value'[cur'[u]] > since[cur'[u]],
         \A x \in E!Cbs : node[x] = "run" => node'[x] = "run",
         \A x \in E!Cbs : mode = "all" /\ HasStored(x)' => HasStored(x),
         \A r \in 1 .. Rounds : mode = "any" => Stored(r)' = Stored(r)
  PROVE  InputsOK'
  <1> USE EventNodeFacts
  <1>1. \A u \in Threads : \A x \in Mem(Th(u))' : x \in E!Cbs => val'[u] > since'[x]
    BY DEF InputsOK
  <1>2. mode' = "all" => \A r \in 1 .. Rounds, i \in 1 .. N :
          HasStored(E!Cb(r, i))' => input'[r][i] > since'[E!Cb(r, i)]
    BY DEF InputsOK
  <1>3. mode' = "any" => \A r \in 1 .. Rounds :
          /\ ~Stored(r)' => \A i \in 1 .. N : input'[r][i] = 0
          /\ Stored(r)' => \E i \in 1 .. N : /\ node'[E!Cb(r, i)] = "run"
                                             /\ input'[r][i] > since'[E!Cb(r, i)]
                                             /\ \A j \in 1 .. N : j # i => input'[r][j] = 0
    BY DEF InputsOK
  <1> QED
    BY <1>1, <1>2, <1>3 DEF InputsOK
-----------------------------------------------------------------------------
\* A plain coroutine takes its node in its hands.
LEMMA EventsSubscribe ==
  ASSUME EventsAssumption, EventsInv, NEW t \in Threads, NEW s \in Subs, E!Subscribe(t, s)
  PROVE  EventsInv'
  <1>0. /\ E!TypeOK /\ Lists /\ Listed /\ ThreadsOK /\ RoundsOK /\ CountsOK /\ InputsOK
        /\ N \in Nat \ {0} /\ Rounds \in Nat \ {0} /\ MaxNotify \in Nat /\ MaxAgain \in Nat
    BY DEF EventsInv, EventsAssumption, E!ConstantsAreSane
  <1>1. /\ epc[t] = "walk" /\ cur[t] = Null /\ node[E!Sub(s)] = "none"
        /\ E!Sub(s) \in E!Nodes /\ E!Sub(s) \notin E!Cbs /\ E!Sub(s) # Null
        /\ \A u \in Threads : cur[u] # E!Sub(s)
    BY <1>0, EventInHand, EventNodeFacts DEF E!Subscribe, E!Idle, ThreadsOK, HandOK, EventsAssumption
  <1>2. /\ cur' = [cur EXCEPT ![t] = E!Sub(s)]
        /\ epc' = [epc EXCEPT ![t] = "load"]
        /\ node' = [node EXCEPT ![E!Sub(s)] = "pushing"]
        /\ UNCHANGED <<mode, etop, enext, value, since, again, awaiter, count, input, resumes, erest, val, fired>>
    BY <1>0, <1>1 DEF E!Subscribe, E!mainVars, E!walkVars, E!Idle
  <1>3. E!TypeOK'
    BY <1>0, <1>1, <1>2 DEF E!TypeOK, E!ConstantsAreSane
  <1>4. /\ cur'[t] = E!Sub(s)
        /\ \A u \in Threads : u # t => cur'[u] = cur[u]
        /\ epc'[t] = "load"
        /\ \A u \in Threads : u # t => epc'[u] = epc[u]
        /\ node'[E!Sub(s)] = "pushing"
        /\ \A y \in E!Nodes : y # E!Sub(s) => node'[y] = node[y]
    <2>1. /\ cur = [z \in Threads |-> cur[z]]
          /\ epc = [z \in Threads |-> epc[z]]
          /\ node = [z \in E!Nodes |-> node[z]]
      BY <1>0 DEF E!TypeOK
    <2> QED
      BY <1>1, <1>2, <2>1, EventNodeFacts
  <1>5. Lists' /\ Listed' /\ \A l \in Places : Mem(l)' = Mem(l)
    BY <1>0, <1>1, <1>2, <1>4, EventListsKept
  <1>6. ThreadsOK'
    <2>1. HandOK(t)'
      BY <1>0, <1>1, <1>2, <1>4, EventNodeFacts DEF ThreadsOK, HandOK, Calls
    <2>2. \A u \in Threads : u # t => cur'[u] = cur[u] /\ epc'[u] = epc[u]
      BY <1>2, <1>4, EventNodeFacts
    <2>3. \A u \in Threads : u # t /\ cur[u] # Null => node'[cur[u]] = node[cur[u]]
      BY <1>0, <1>1, <1>2, <1>4, EventNodeFacts DEF ThreadsOK, HandOK, Calls, E!TypeOK
    <2>4. \A u \in Threads : u # t /\ cur'[t] # Null => cur[u] # cur'[t]
      BY <1>0, <1>1, <1>2, <1>4, EventNodeFacts DEF ThreadsOK, HandOK, Calls, E!TypeOK
    <2> QED
      BY <1>0, <1>2, <2>1, <2>2, <2>3, <2>4, EventThreadsKept
  <1>7. RoundsOK'
    <2>1. \A u \in Threads, r \in 1 .. Rounds : Registers(u, r)' => Registers(u, r) /\ cur'[u] = cur[u]
      BY <1>1, <1>2, <1>4, EventNodeFacts DEF Registers
    <2>2. \A x \in E!Cbs : node[x] = "none" => node'[x] = "none"
      BY <1>1, <1>2, <1>4, EventNodeFacts
    <2>3. \A u \in Threads : cur'[u] = cur[u] \/ cur'[u] \notin E!Cbs \/ node[cur'[u]] # "none"
      BY <1>1, <1>2, <1>4, EventNodeFacts DEF EventsAssumption
    <2> QED
      BY <1>0, <1>2, <2>1, <2>2, <2>3, EventRoundsKept
  <1>8. CountsOK'
    <2>1. \A x \in E!Cbs : HasCounted(x)' = HasCounted(x)
      BY <1>0, <1>1, <1>2, <1>4, EventNodeFacts DEF HasCounted, ThreadsOK
    <2>2. \A u \in Threads, r \in 1 .. Rounds : Chosen(u, r)' = Chosen(u, r)
      BY <1>1, <1>2, <1>4, EventNodeFacts DEF Chosen
    <2> QED
      BY <1>0, <1>2, <2>1, <2>2, EventCountsKept
  <1>9. InputsOK'
    <2>1. \A u \in Threads : Mem(Th(u))' \subseteq Mem(Th(u)) /\ val'[u] = val[u]
      BY <1>2, <1>5, EventPlaces
    <2>2. \A u \in Threads : epc'[u] \in {"resume", "store"} /\ cur'[u] \in E!Cbs
                              => value'[cur'[u]] > since[cur'[u]]
      BY <1>0, <1>1, <1>2, <1>4, EventNodeFacts DEF InputsOK, ThreadsOK
    <2>3. \A x \in E!Cbs : (node[x] = "run" => node'[x] = "run") /\ (mode = "all" /\ HasStored(x)' => HasStored(x))
      BY <1>0, <1>1, <1>2, <1>4, EventNodeFacts DEF HasStored, ThreadsOK
    <2>4. \A r \in 1 .. Rounds : mode = "any" => Stored(r)' = Stored(r)
      BY <1>1, <1>2, <1>4, EventNodeFacts DEF Stored
    <2> QED
      BY <1>0, <1>2, <2>1, <2>2, <2>3, <2>4, EventInputsKept
  <1> QED
    BY <1>3, <1>5, <1>6, <1>7, <1>8, <1>9 DEF EventsInv

\* set_callback starts the job that subscribes.
LEMMA EventsRegister ==
  ASSUME EventsAssumption, EventsInv, NEW t \in Threads, E!Register(t)
  PROVE  EventsInv'
  <1>0. /\ E!TypeOK /\ Lists /\ Listed /\ ThreadsOK /\ RoundsOK /\ CountsOK /\ InputsOK
        /\ N \in Nat \ {0} /\ Rounds \in Nat \ {0} /\ MaxNotify \in Nat /\ MaxAgain \in Nat
    BY DEF EventsInv, EventsAssumption, E!ConstantsAreSane
  <1>1. /\ epc[t] = "register" /\ cur[t] \in E!Cbs /\ node[cur[t]] = "none"
        /\ cur[t] \in E!Nodes /\ cur[t] # Null /\ \A l \in Places : Mem(l) \subseteq E!Nodes \ {cur[t]}
    BY <1>0, EventInHand, EventNodeFacts DEF E!Register, ThreadsOK, HandOK, Calls
  <1>2. /\ epc' = [epc EXCEPT ![t] = "load"]
        /\ node' = [node EXCEPT ![cur[t]] = "pushing"]
        /\ UNCHANGED <<mode, etop, enext, value, since, again, awaiter, count, input, resumes, cur, erest, val, fired>>
    BY <1>0, <1>1 DEF E!Register, E!mainVars, E!walkVars, E!Idle
  <1>3. E!TypeOK'
    BY <1>0, <1>1, <1>2 DEF E!TypeOK, E!ConstantsAreSane
  <1>4. /\ epc'[t] = "load"
        /\ \A u \in Threads : u # t => epc'[u] = epc[u]
        /\ node'[cur[t]] = "pushing"
        /\ \A y \in E!Nodes : y # cur[t] => node'[y] = node[y]
    <2>1. /\ epc = [z \in Threads |-> epc[z]]
          /\ node = [z \in E!Nodes |-> node[z]]
      BY <1>0 DEF E!TypeOK
    <2> QED
      BY <1>1, <1>2, <2>1, EventNodeFacts
  <1>5. Lists' /\ Listed' /\ \A l \in Places : Mem(l)' = Mem(l)
    BY <1>0, <1>1, <1>2, <1>4, EventListsKept
  <1>6. ThreadsOK'
    <2>1. HandOK(t)'
      BY <1>0, <1>1, <1>2, <1>4, EventNodeFacts DEF ThreadsOK, HandOK, Calls
    <2>2. \A u \in Threads : u # t => cur'[u] = cur[u] /\ epc'[u] = epc[u]
      BY <1>2, <1>4, EventNodeFacts
    <2>3. \A u \in Threads : u # t /\ cur[u] # Null => node'[cur[u]] = node[cur[u]]
      BY <1>0, <1>1, <1>2, <1>4, EventNodeFacts DEF ThreadsOK, HandOK, Calls, E!TypeOK
    <2>4. \A u \in Threads : u # t /\ cur'[t] # Null => cur[u] # cur'[t]
      BY <1>0, <1>1, <1>2, <1>4, EventNodeFacts DEF ThreadsOK, HandOK, Calls, E!TypeOK
    <2> QED
      BY <1>0, <1>2, <2>1, <2>2, <2>3, <2>4, EventThreadsKept
  <1>7. RoundsOK'
    <2>1. \A u \in Threads, r \in 1 .. Rounds : Registers(u, r)' = Registers(u, r)
      BY <1>1, <1>2, <1>4, EventNodeFacts DEF Registers
    <2>2. Registers(t, cur[t][2]) /\ awaiter[cur[t][2]] # "none"
      BY <1>0, <1>1, EventNodeFacts DEF Registers, RoundsOK
    <2>3. \A u \in Threads, r \in 1 .. Rounds, i, j \in 1 .. N :
            Registers(u, r)' /\ cur'[u] = E!Cb(r, i) /\ j > i => node'[E!Cb(r, j)] = "none"
      <3> SUFFICES ASSUME NEW u \in Threads, NEW r \in 1 .. Rounds, NEW i \in 1 .. N, NEW j \in 1 .. N,
                          Registers(u, r), cur[u] = E!Cb(r, i), j > i
                   PROVE  node'[E!Cb(r, j)] = "none"
        BY <1>2, <2>1
      <3>1. node[E!Cb(r, j)] = "none"
        BY <1>0 DEF RoundsOK
      <3>2. CASE E!Cb(r, j) = cur[t]
        <4>1. u = t
          BY <1>0, <2>2, <3>2, EventNodeFacts DEF RoundsOK
        <4> QED
          BY <3>2, <4>1, EventNodeFacts
      <3> QED
        BY <1>4, <3>1, <3>2, EventNodeFacts
    <2>4. \A r \in 1 .. Rounds : awaiter[r] = "none" =>
            \A i \in 1 .. N : node'[E!Cb(r, i)] = "none" /\ \A u \in Threads : cur'[u] # E!Cb(r, i)
      BY <1>0, <1>1, <1>2, <1>4, <2>2, EventNodeFacts DEF RoundsOK
    <2> QED
      BY <1>0, <1>2, <2>1, <2>3, <2>4 DEF RoundsOK
  <1>8. CountsOK'
    <2>1. \A x \in E!Cbs : HasCounted(x)' = HasCounted(x)
      BY <1>0, <1>1, <1>2, <1>4, EventNodeFacts DEF HasCounted, ThreadsOK
    <2>2. \A u \in Threads, r \in 1 .. Rounds : Chosen(u, r)' = Chosen(u, r)
      BY <1>1, <1>2, <1>4, EventNodeFacts DEF Chosen
    <2> QED
      BY <1>0, <1>2, <2>1, <2>2, EventCountsKept
  <1>9. InputsOK'
    <2>1. \A u \in Threads : Mem(Th(u))' \subseteq Mem(Th(u)) /\ val'[u] = val[u]
      BY <1>2, <1>5, EventPlaces
    <2>2. \A u \in Threads : epc'[u] \in {"resume", "store"} /\ cur'[u] \in E!Cbs
                              => value'[cur'[u]] > since[cur'[u]]
      BY <1>0, <1>1, <1>2, <1>4, EventNodeFacts DEF InputsOK, ThreadsOK
    <2>3. \A x \in E!Cbs : (node[x] = "run" => node'[x] = "run") /\ (mode = "all" /\ HasStored(x)' => HasStored(x))
      BY <1>0, <1>1, <1>2, <1>4, EventNodeFacts DEF HasStored, ThreadsOK
    <2>4. \A r \in 1 .. Rounds : mode = "any" => Stored(r)' = Stored(r)
      BY <1>1, <1>2, <1>4, EventNodeFacts DEF Stored
    <2> QED
      BY <1>0, <1>2, <2>1, <2>2, <2>3, <2>4, EventInputsKept
  <1> QED
    BY <1>3, <1>5, <1>6, <1>7, <1>8, <1>9 DEF EventsInv

\* A registration that reads a dead awaiter changes nothing but the thread.
LEMMA EventsDead ==
  ASSUME EventsAssumption, EventsInv, NEW t \in Threads, E!RegisterInDeadAwaiter(t)
  PROVE  EventsInv'
  <1>0. /\ E!TypeOK /\ Lists /\ Listed /\ ThreadsOK /\ RoundsOK /\ CountsOK /\ InputsOK
        /\ N \in Nat \ {0} /\ Rounds \in Nat \ {0} /\ MaxNotify \in Nat /\ MaxAgain \in Nat
    BY DEF EventsInv, EventsAssumption, E!ConstantsAreSane
  <1>1. /\ epc[t] = "register" /\ cur[t] \in E!Cbs /\ node[cur[t]] = "none"
        /\ cur[t] \in E!Nodes /\ cur[t] # Null /\ \A l \in Places : Mem(l) \subseteq E!Nodes \ {cur[t]}
    BY <1>0, EventInHand, EventNodeFacts DEF E!RegisterInDeadAwaiter, ThreadsOK, HandOK, Calls
  <1>2. /\ epc' = [epc EXCEPT ![t] = "crashed"]
        /\ UNCHANGED <<mode, etop, enext, node, value, since, again, awaiter, count, input, resumes, cur, erest, val, fired>>
    BY <1>0, <1>1 DEF E!RegisterInDeadAwaiter, E!mainVars, E!walkVars, E!Idle
  <1>3. E!TypeOK'
    BY <1>0, <1>1, <1>2 DEF E!TypeOK, E!ConstantsAreSane
  <1>4. /\ epc'[t] = "crashed"
        /\ \A u \in Threads : u # t => epc'[u] = epc[u]
    <2>1. /\ epc = [z \in Threads |-> epc[z]]
      BY <1>0 DEF E!TypeOK
    <2> QED
      BY <1>1, <1>2, <2>1, EventNodeFacts
  <1>5. Lists' /\ Listed' /\ \A l \in Places : Mem(l)' = Mem(l)
    BY <1>0, <1>1, <1>2, <1>4, EventListsKept
  <1>6. ThreadsOK'
    <2>1. HandOK(t)'
      BY <1>0, <1>1, <1>2, <1>4, EventNodeFacts DEF ThreadsOK, HandOK, Calls
    <2>2. \A u \in Threads : u # t => cur'[u] = cur[u] /\ epc'[u] = epc[u]
      BY <1>2, <1>4, EventNodeFacts
    <2>3. \A u \in Threads : u # t /\ cur[u] # Null => node'[cur[u]] = node[cur[u]]
      BY <1>0, <1>1, <1>2, <1>4, EventNodeFacts DEF ThreadsOK, HandOK, Calls, E!TypeOK
    <2>4. \A u \in Threads : u # t /\ cur'[t] # Null => cur[u] # cur'[t]
      BY <1>0, <1>1, <1>2, <1>4, EventNodeFacts DEF ThreadsOK, HandOK, Calls, E!TypeOK
    <2> QED
      BY <1>0, <1>2, <2>1, <2>2, <2>3, <2>4, EventThreadsKept
  <1>7. RoundsOK'
    <2>1. \A u \in Threads, r \in 1 .. Rounds : Registers(u, r)' => Registers(u, r) /\ cur'[u] = cur[u]
      BY <1>1, <1>2, <1>4, EventNodeFacts DEF Registers
    <2>2. \A x \in E!Cbs : node[x] = "none" => node'[x] = "none"
      BY <1>1, <1>2, <1>4, EventNodeFacts
    <2>3. \A u \in Threads : cur'[u] = cur[u] \/ cur'[u] \notin E!Cbs \/ node[cur'[u]] # "none"
      BY <1>1, <1>2, <1>4, EventNodeFacts DEF EventsAssumption
    <2> QED
      BY <1>0, <1>2, <2>1, <2>2, <2>3, EventRoundsKept
  <1>8. CountsOK'
    <2>1. \A x \in E!Cbs : HasCounted(x)' = HasCounted(x)
      BY <1>0, <1>1, <1>2, <1>4, EventNodeFacts DEF HasCounted, ThreadsOK
    <2>2. \A u \in Threads, r \in 1 .. Rounds : Chosen(u, r)' = Chosen(u, r)
      BY <1>1, <1>2, <1>4, EventNodeFacts DEF Chosen
    <2> QED
      BY <1>0, <1>2, <2>1, <2>2, EventCountsKept
  <1>9. InputsOK'
    <2>1. \A u \in Threads : Mem(Th(u))' \subseteq Mem(Th(u)) /\ val'[u] = val[u]
      BY <1>2, <1>5, EventPlaces
    <2>2. \A u \in Threads : epc'[u] \in {"resume", "store"} /\ cur'[u] \in E!Cbs
                              => value'[cur'[u]] > since[cur'[u]]
      BY <1>0, <1>1, <1>2, <1>4, EventNodeFacts DEF InputsOK, ThreadsOK
    <2>3. \A x \in E!Cbs : (node[x] = "run" => node'[x] = "run") /\ (mode = "all" /\ HasStored(x)' => HasStored(x))
      BY <1>0, <1>1, <1>2, <1>4, EventNodeFacts DEF HasStored, ThreadsOK
    <2>4. \A r \in 1 .. Rounds : mode = "any" => Stored(r)' = Stored(r)
      BY <1>1, <1>2, <1>4, EventNodeFacts DEF Stored
    <2> QED
      BY <1>0, <1>2, <2>1, <2>2, <2>3, <2>4, EventInputsKept
  <1> QED
    BY <1>3, <1>5, <1>6, <1>7, <1>8, <1>9 DEF EventsInv

\* A plain subscriber leaves its node.
LEMMA EventsSubEnds ==
  ASSUME EventsAssumption, EventsInv, NEW t \in Threads, E!SubEnds(t)
  PROVE  EventsInv'
  <1>0. /\ E!TypeOK /\ Lists /\ Listed /\ ThreadsOK /\ RoundsOK /\ CountsOK /\ InputsOK
        /\ N \in Nat \ {0} /\ Rounds \in Nat \ {0} /\ MaxNotify \in Nat /\ MaxAgain \in Nat
    BY DEF EventsInv, EventsAssumption, E!ConstantsAreSane
  <1>1. /\ epc[t] = "resume" /\ cur[t] \notin E!Cbs /\ node[cur[t]] = "run"
        /\ cur[t] \in E!Nodes /\ cur[t] # Null /\ \A l \in Places : Mem(l) \subseteq E!Nodes \ {cur[t]}
    BY <1>0, EventInHand, EventNodeFacts DEF E!SubEnds, ThreadsOK, HandOK, Calls
  <1>2. /\ epc' = [epc EXCEPT ![t] = "walk"]
        /\ value' = [value EXCEPT ![cur[t]] = 0]
        /\ cur' = [cur EXCEPT ![t] = Null]
        /\ UNCHANGED <<mode, etop, enext, node, since, again, awaiter, count, input, resumes, erest, val, fired>>
    BY <1>0, <1>1 DEF E!SubEnds, E!mainVars, E!walkVars, E!Idle
  <1>3. E!TypeOK'
    <2>1. value' \in [E!Nodes -> 0 .. MaxNotify]
      <3>1. value \in [E!Nodes -> 0 .. MaxNotify] /\ 0 \in 0 .. MaxNotify
        BY <1>0, <1>1 DEF E!TypeOK
      <3> QED
        BY <1>1, <1>2, <3>1
    <2> QED
      BY <1>0, <1>1, <1>2, <2>1 DEF E!TypeOK, E!ConstantsAreSane
  <1>4. /\ epc'[t] = "walk"
        /\ \A u \in Threads : u # t => epc'[u] = epc[u]
        /\ value'[cur[t]] = 0
        /\ \A y \in E!Nodes : y # cur[t] => value'[y] = value[y]
        /\ cur'[t] = Null
        /\ \A u \in Threads : u # t => cur'[u] = cur[u]
    <2>1. /\ epc = [z \in Threads |-> epc[z]]
          /\ value = [z \in E!Nodes |-> value[z]]
          /\ cur = [z \in Threads |-> cur[z]]
      BY <1>0 DEF E!TypeOK
    <2> QED
      BY <1>1, <1>2, <2>1, EventNodeFacts
  <1>5. Lists' /\ Listed' /\ \A l \in Places : Mem(l)' = Mem(l)
    BY <1>0, <1>1, <1>2, <1>4, EventListsKept
  <1>6. ThreadsOK'
    <2>1. HandOK(t)'
      BY <1>0, <1>1, <1>2, <1>4, EventNodeFacts DEF ThreadsOK, HandOK, Calls
    <2>2. \A u \in Threads : u # t => cur'[u] = cur[u] /\ epc'[u] = epc[u]
      BY <1>2, <1>4, EventNodeFacts
    <2>3. \A u \in Threads : u # t /\ cur[u] # Null => node'[cur[u]] = node[cur[u]]
      BY <1>0, <1>1, <1>2, <1>4, EventNodeFacts DEF ThreadsOK, HandOK, Calls, E!TypeOK
    <2>4. \A u \in Threads : u # t /\ cur'[t] # Null => cur[u] # cur'[t]
      BY <1>0, <1>1, <1>2, <1>4, EventNodeFacts DEF ThreadsOK, HandOK, Calls, E!TypeOK
    <2> QED
      BY <1>0, <1>2, <2>1, <2>2, <2>3, <2>4, EventThreadsKept
  <1>7. RoundsOK'
    <2>1. \A u \in Threads, r \in 1 .. Rounds : Registers(u, r)' => Registers(u, r) /\ cur'[u] = cur[u]
      BY <1>1, <1>2, <1>4, EventNodeFacts DEF Registers
    <2>2. \A x \in E!Cbs : node[x] = "none" => node'[x] = "none"
      BY <1>1, <1>2, <1>4, EventNodeFacts
    <2>3. \A u \in Threads : cur'[u] = cur[u] \/ cur'[u] \notin E!Cbs \/ node[cur'[u]] # "none"
      BY <1>1, <1>2, <1>4, EventNodeFacts DEF EventsAssumption
    <2> QED
      BY <1>0, <1>2, <2>1, <2>2, <2>3, EventRoundsKept
  <1>8. CountsOK'
    <2>1. \A x \in E!Cbs : HasCounted(x)' = HasCounted(x)
      BY <1>0, <1>1, <1>2, <1>4, EventNodeFacts DEF HasCounted, ThreadsOK
    <2>2. \A u \in Threads, r \in 1 .. Rounds : Chosen(u, r)' = Chosen(u, r)
      BY <1>1, <1>2, <1>4, EventNodeFacts DEF Chosen
    <2> QED
      BY <1>0, <1>2, <2>1, <2>2, EventCountsKept
  <1>9. InputsOK'
    <2>1. \A u \in Threads : Mem(Th(u))' \subseteq Mem(Th(u)) /\ val'[u] = val[u]
      BY <1>2, <1>5, EventPlaces
    <2>2. \A u \in Threads : epc'[u] \in {"resume", "store"} /\ cur'[u] \in E!Cbs
                              => value'[cur'[u]] > since[cur'[u]]
      BY <1>0, <1>1, <1>2, <1>4, EventNodeFacts DEF InputsOK, ThreadsOK
    <2>3. \A x \in E!Cbs : (node[x] = "run" => node'[x] = "run") /\ (mode = "all" /\ HasStored(x)' => HasStored(x))
      BY <1>0, <1>1, <1>2, <1>4, EventNodeFacts DEF HasStored, ThreadsOK
    <2>4. \A r \in 1 .. Rounds : mode = "any" => Stored(r)' = Stored(r)
      BY <1>1, <1>2, <1>4, EventNodeFacts DEF Stored
    <2> QED
      BY <1>0, <1>2, <2>1, <2>2, <2>3, <2>4, EventInputsKept
  <1> QED
    BY <1>3, <1>5, <1>6, <1>7, <1>8, <1>9 DEF EventsInv

\* A plain subscriber takes its node in its hands again.
LEMMA EventsSubAgain ==
  ASSUME EventsAssumption, EventsInv, NEW t \in Threads, E!SubAgain(t)
  PROVE  EventsInv'
  <1>0. /\ E!TypeOK /\ Lists /\ Listed /\ ThreadsOK /\ RoundsOK /\ CountsOK /\ InputsOK
        /\ N \in Nat \ {0} /\ Rounds \in Nat \ {0} /\ MaxNotify \in Nat /\ MaxAgain \in Nat
    BY DEF EventsInv, EventsAssumption, E!ConstantsAreSane
  <1>1. /\ epc[t] = "resume" /\ cur[t] \notin E!Cbs /\ node[cur[t]] = "run"
        /\ cur[t][2] \in Subs /\ again[cur[t][2]] < MaxAgain
        /\ cur[t] \in E!Nodes /\ cur[t] # Null /\ \A l \in Places : Mem(l) \subseteq E!Nodes \ {cur[t]}
    BY <1>0, EventInHand, EventNodeFacts DEF E!SubAgain, ThreadsOK, HandOK, Calls
  <1>2. /\ epc' = [epc EXCEPT ![t] = "load"]
        /\ value' = [value EXCEPT ![cur[t]] = 0]
        /\ node' = [node EXCEPT ![cur[t]] = "pushing"]
        /\ again' = [again EXCEPT ![cur[t][2]] = again[cur[t][2]] + 1]
        /\ UNCHANGED <<mode, etop, enext, since, awaiter, count, input, resumes, cur, erest, val, fired>>
    BY <1>0, <1>1 DEF E!SubAgain, E!mainVars, E!walkVars, E!Idle
  <1>3. E!TypeOK'
    <2>1. value' \in [E!Nodes -> 0 .. MaxNotify]
      <3>1. value \in [E!Nodes -> 0 .. MaxNotify] /\ 0 \in 0 .. MaxNotify
        BY <1>0, <1>1 DEF E!TypeOK
      <3> QED
        BY <1>1, <1>2, <3>1
    <2>2. again' \in [Subs -> 0 .. MaxAgain]
      <3>2. again \in [Subs -> 0 .. MaxAgain]
        BY <1>0 DEF E!TypeOK
      <3>1. again \in [Subs -> 0 .. MaxAgain] /\ again[cur[t][2]] + 1 \in 0 .. MaxAgain
        BY <1>0, <1>1, <3>2
      <3> QED
        BY <1>1, <1>2, <3>1
    <2> QED
      BY <1>0, <1>1, <1>2, <2>1, <2>2 DEF E!TypeOK, E!ConstantsAreSane
  <1>4. /\ epc'[t] = "load"
        /\ \A u \in Threads : u # t => epc'[u] = epc[u]
        /\ value'[cur[t]] = 0
        /\ \A y \in E!Nodes : y # cur[t] => value'[y] = value[y]
        /\ node'[cur[t]] = "pushing"
        /\ \A y \in E!Nodes : y # cur[t] => node'[y] = node[y]
        /\ again'[cur[t][2]] = again[cur[t][2]] + 1
        /\ \A u \in Subs : u # cur[t][2] => again'[u] = again[u]
    <2>1. /\ epc = [z \in Threads |-> epc[z]]
          /\ value = [z \in E!Nodes |-> value[z]]
          /\ node = [z \in E!Nodes |-> node[z]]
          /\ again = [z \in Subs |-> again[z]]
      BY <1>0 DEF E!TypeOK
    <2> QED
      BY <1>1, <1>2, <2>1, EventNodeFacts
  <1>5. Lists' /\ Listed' /\ \A l \in Places : Mem(l)' = Mem(l)
    BY <1>0, <1>1, <1>2, <1>4, EventListsKept
  <1>6. ThreadsOK'
    <2>1. HandOK(t)'
      BY <1>0, <1>1, <1>2, <1>4, EventNodeFacts DEF ThreadsOK, HandOK, Calls
    <2>2. \A u \in Threads : u # t => cur'[u] = cur[u] /\ epc'[u] = epc[u]
      BY <1>2, <1>4, EventNodeFacts
    <2>3. \A u \in Threads : u # t /\ cur[u] # Null => node'[cur[u]] = node[cur[u]]
      BY <1>0, <1>1, <1>2, <1>4, EventNodeFacts DEF ThreadsOK, HandOK, Calls, E!TypeOK
    <2>4. \A u \in Threads : u # t /\ cur'[t] # Null => cur[u] # cur'[t]
      BY <1>0, <1>1, <1>2, <1>4, EventNodeFacts DEF ThreadsOK, HandOK, Calls, E!TypeOK
    <2> QED
      BY <1>0, <1>2, <2>1, <2>2, <2>3, <2>4, EventThreadsKept
  <1>7. RoundsOK'
    <2>1. \A u \in Threads, r \in 1 .. Rounds : Registers(u, r)' => Registers(u, r) /\ cur'[u] = cur[u]
      BY <1>1, <1>2, <1>4, EventNodeFacts DEF Registers
    <2>2. \A x \in E!Cbs : node[x] = "none" => node'[x] = "none"
      BY <1>1, <1>2, <1>4, EventNodeFacts
    <2>3. \A u \in Threads : cur'[u] = cur[u] \/ cur'[u] \notin E!Cbs \/ node[cur'[u]] # "none"
      BY <1>1, <1>2, <1>4, EventNodeFacts DEF EventsAssumption
    <2> QED
      BY <1>0, <1>2, <2>1, <2>2, <2>3, EventRoundsKept
  <1>8. CountsOK'
    <2>1. \A x \in E!Cbs : HasCounted(x)' = HasCounted(x)
      BY <1>0, <1>1, <1>2, <1>4, EventNodeFacts DEF HasCounted, ThreadsOK
    <2>2. \A u \in Threads, r \in 1 .. Rounds : Chosen(u, r)' = Chosen(u, r)
      BY <1>1, <1>2, <1>4, EventNodeFacts DEF Chosen
    <2> QED
      BY <1>0, <1>2, <2>1, <2>2, EventCountsKept
  <1>9. InputsOK'
    <2>1. \A u \in Threads : Mem(Th(u))' \subseteq Mem(Th(u)) /\ val'[u] = val[u]
      BY <1>2, <1>5, EventPlaces
    <2>2. \A u \in Threads : epc'[u] \in {"resume", "store"} /\ cur'[u] \in E!Cbs
                              => value'[cur'[u]] > since[cur'[u]]
      BY <1>0, <1>1, <1>2, <1>4, EventNodeFacts DEF InputsOK, ThreadsOK
    <2>3. \A x \in E!Cbs : (node[x] = "run" => node'[x] = "run") /\ (mode = "all" /\ HasStored(x)' => HasStored(x))
      BY <1>0, <1>1, <1>2, <1>4, EventNodeFacts DEF HasStored, ThreadsOK
    <2>4. \A r \in 1 .. Rounds : mode = "any" => Stored(r)' = Stored(r)
      BY <1>1, <1>2, <1>4, EventNodeFacts DEF Stored
    <2> QED
      BY <1>0, <1>2, <2>1, <2>2, <2>3, <2>4, EventInputsKept
  <1> QED
    BY <1>3, <1>5, <1>6, <1>7, <1>8, <1>9 DEF EventsInv

\* push writes to a node that is in no list.
LEMMA EventsPushLoad ==
  ASSUME EventsAssumption, EventsInv, NEW t \in Threads, E!PushLoad(t)
  PROVE  EventsInv'
  <1>0. /\ E!TypeOK /\ Lists /\ Listed /\ ThreadsOK /\ RoundsOK /\ CountsOK /\ InputsOK
        /\ N \in Nat \ {0} /\ Rounds \in Nat \ {0} /\ MaxNotify \in Nat /\ MaxAgain \in Nat
    BY DEF EventsInv, EventsAssumption, E!ConstantsAreSane
  <1>1. /\ epc[t] = "load" /\ node[cur[t]] = "pushing" /\ E!EventOf(cur[t]) \in 1 .. N
        /\ cur[t] \in E!Nodes /\ cur[t] # Null /\ \A l \in Places : Mem(l) \subseteq E!Nodes \ {cur[t]}
    BY <1>0, EventInHand, EventNodeFacts DEF E!PushLoad, ThreadsOK, HandOK, Calls
  <1>2. /\ enext' = [enext EXCEPT ![cur[t]] = etop[E!EventOf(cur[t])]]
        /\ epc' = [epc EXCEPT ![t] = "cas"]
        /\ UNCHANGED <<mode, etop, node, value, since, again, awaiter, count, input, resumes, cur, erest, val, fired>>
    BY <1>0, <1>1 DEF E!PushLoad, E!mainVars, E!walkVars, E!Idle
  <1>3. E!TypeOK'
    <2>1. enext' \in [E!Nodes -> E!Nodes \cup {Null}]
      <3>1. enext \in [E!Nodes -> E!Nodes \cup {Null}] /\ etop[E!EventOf(cur[t])] \in E!Nodes \cup {Null}
        BY <1>0, <1>1 DEF E!TypeOK
      <3> QED
        BY <1>1, <1>2, <3>1
    <2> QED
      BY <1>0, <1>1, <1>2, <2>1 DEF E!TypeOK, E!ConstantsAreSane
  <1>4. /\ enext'[cur[t]] = etop[E!EventOf(cur[t])]
        /\ \A y \in E!Nodes : y # cur[t] => enext'[y] = enext[y]
        /\ epc'[t] = "cas"
        /\ \A u \in Threads : u # t => epc'[u] = epc[u]
    <2>1. /\ enext = [z \in E!Nodes |-> enext[z]]
          /\ epc = [z \in Threads |-> epc[z]]
      BY <1>0 DEF E!TypeOK
    <2> QED
      BY <1>1, <1>2, <2>1, EventNodeFacts
  <1>5. Lists' /\ Listed' /\ \A l \in Places : Mem(l)' = Mem(l)
    BY <1>0, <1>1, <1>2, <1>4, EventListsKept
  <1>6. ThreadsOK'
    <2>1. HandOK(t)'
      BY <1>0, <1>1, <1>2, <1>4, EventNodeFacts DEF ThreadsOK, HandOK, Calls
    <2>2. \A u \in Threads : u # t => cur'[u] = cur[u] /\ epc'[u] = epc[u]
      BY <1>2, <1>4, EventNodeFacts
    <2>3. \A u \in Threads : u # t /\ cur[u] # Null => node'[cur[u]] = node[cur[u]]
      BY <1>0, <1>1, <1>2, <1>4, EventNodeFacts DEF ThreadsOK, HandOK, Calls, E!TypeOK
    <2>4. \A u \in Threads : u # t /\ cur'[t] # Null => cur[u] # cur'[t]
      BY <1>0, <1>1, <1>2, <1>4, EventNodeFacts DEF ThreadsOK, HandOK, Calls, E!TypeOK
    <2> QED
      BY <1>0, <1>2, <2>1, <2>2, <2>3, <2>4, EventThreadsKept
  <1>7. RoundsOK'
    <2>1. \A u \in Threads, r \in 1 .. Rounds : Registers(u, r)' => Registers(u, r) /\ cur'[u] = cur[u]
      BY <1>1, <1>2, <1>4, EventNodeFacts DEF Registers
    <2>2. \A x \in E!Cbs : node[x] = "none" => node'[x] = "none"
      BY <1>1, <1>2, <1>4, EventNodeFacts
    <2>3. \A u \in Threads : cur'[u] = cur[u] \/ cur'[u] \notin E!Cbs \/ node[cur'[u]] # "none"
      BY <1>1, <1>2, <1>4, EventNodeFacts DEF EventsAssumption
    <2> QED
      BY <1>0, <1>2, <2>1, <2>2, <2>3, EventRoundsKept
  <1>8. CountsOK'
    <2>1. \A x \in E!Cbs : HasCounted(x)' = HasCounted(x)
      BY <1>0, <1>1, <1>2, <1>4, EventNodeFacts DEF HasCounted, ThreadsOK
    <2>2. \A u \in Threads, r \in 1 .. Rounds : Chosen(u, r)' = Chosen(u, r)
      BY <1>1, <1>2, <1>4, EventNodeFacts DEF Chosen
    <2> QED
      BY <1>0, <1>2, <2>1, <2>2, EventCountsKept
  <1>9. InputsOK'
    <2>1. \A u \in Threads : Mem(Th(u))' \subseteq Mem(Th(u)) /\ val'[u] = val[u]
      BY <1>2, <1>5, EventPlaces
    <2>2. \A u \in Threads : epc'[u] \in {"resume", "store"} /\ cur'[u] \in E!Cbs
                              => value'[cur'[u]] > since[cur'[u]]
      BY <1>0, <1>1, <1>2, <1>4, EventNodeFacts DEF InputsOK, ThreadsOK
    <2>3. \A x \in E!Cbs : (node[x] = "run" => node'[x] = "run") /\ (mode = "all" /\ HasStored(x)' => HasStored(x))
      BY <1>0, <1>1, <1>2, <1>4, EventNodeFacts DEF HasStored, ThreadsOK
    <2>4. \A r \in 1 .. Rounds : mode = "any" => Stored(r)' = Stored(r)
      BY <1>1, <1>2, <1>4, EventNodeFacts DEF Stored
    <2> QED
      BY <1>0, <1>2, <2>1, <2>2, <2>3, <2>4, EventInputsKept
  <1> QED
    BY <1>3, <1>5, <1>6, <1>7, <1>8, <1>9 DEF EventsInv

\* So does its retry.
LEMMA EventsPushCasFails ==
  ASSUME EventsAssumption, EventsInv, NEW t \in Threads, E!PushCasFails(t)
  PROVE  EventsInv'
  <1>0. /\ E!TypeOK /\ Lists /\ Listed /\ ThreadsOK /\ RoundsOK /\ CountsOK /\ InputsOK
        /\ N \in Nat \ {0} /\ Rounds \in Nat \ {0} /\ MaxNotify \in Nat /\ MaxAgain \in Nat
    BY DEF EventsInv, EventsAssumption, E!ConstantsAreSane
  <1>1. /\ epc[t] = "cas" /\ node[cur[t]] = "pushing" /\ E!EventOf(cur[t]) \in 1 .. N
        /\ cur[t] \in E!Nodes /\ cur[t] # Null /\ \A l \in Places : Mem(l) \subseteq E!Nodes \ {cur[t]}
    BY <1>0, EventInHand, EventNodeFacts DEF E!PushCasFails, ThreadsOK, HandOK, Calls
  <1>2. /\ enext' = [enext EXCEPT ![cur[t]] = etop[E!EventOf(cur[t])]]
        /\ UNCHANGED <<mode, etop, node, value, since, again, awaiter, count, input, resumes, epc, cur, erest, val, fired>>
    BY <1>0, <1>1 DEF E!PushCasFails, E!mainVars, E!walkVars, E!Idle
  <1>3. E!TypeOK'
    <2>1. enext' \in [E!Nodes -> E!Nodes \cup {Null}]
      <3>1. enext \in [E!Nodes -> E!Nodes \cup {Null}] /\ etop[E!EventOf(cur[t])] \in E!Nodes \cup {Null}
        BY <1>0, <1>1 DEF E!TypeOK
      <3> QED
        BY <1>1, <1>2, <3>1
    <2> QED
      BY <1>0, <1>1, <1>2, <2>1 DEF E!TypeOK, E!ConstantsAreSane
  <1>4. /\ enext'[cur[t]] = etop[E!EventOf(cur[t])]
        /\ \A y \in E!Nodes : y # cur[t] => enext'[y] = enext[y]
    <2>1. /\ enext = [z \in E!Nodes |-> enext[z]]
      BY <1>0 DEF E!TypeOK
    <2> QED
      BY <1>1, <1>2, <2>1, EventNodeFacts
  <1>5. Lists' /\ Listed' /\ \A l \in Places : Mem(l)' = Mem(l)
    BY <1>0, <1>1, <1>2, <1>4, EventListsKept
  <1>6. ThreadsOK'
    <2>1. HandOK(t)'
      BY <1>0, <1>1, <1>2, <1>4, EventNodeFacts DEF ThreadsOK, HandOK, Calls
    <2>2. \A u \in Threads : u # t => cur'[u] = cur[u] /\ epc'[u] = epc[u]
      BY <1>2, <1>4, EventNodeFacts
    <2>3. \A u \in Threads : u # t /\ cur[u] # Null => node'[cur[u]] = node[cur[u]]
      BY <1>0, <1>1, <1>2, <1>4, EventNodeFacts DEF ThreadsOK, HandOK, Calls, E!TypeOK
    <2>4. \A u \in Threads : u # t /\ cur'[t] # Null => cur[u] # cur'[t]
      BY <1>0, <1>1, <1>2, <1>4, EventNodeFacts DEF ThreadsOK, HandOK, Calls, E!TypeOK
    <2> QED
      BY <1>0, <1>2, <2>1, <2>2, <2>3, <2>4, EventThreadsKept
  <1>7. RoundsOK'
    <2>1. \A u \in Threads, r \in 1 .. Rounds : Registers(u, r)' => Registers(u, r) /\ cur'[u] = cur[u]
      BY <1>1, <1>2, <1>4, EventNodeFacts DEF Registers
    <2>2. \A x \in E!Cbs : node[x] = "none" => node'[x] = "none"
      BY <1>1, <1>2, <1>4, EventNodeFacts
    <2>3. \A u \in Threads : cur'[u] = cur[u] \/ cur'[u] \notin E!Cbs \/ node[cur'[u]] # "none"
      BY <1>1, <1>2, <1>4, EventNodeFacts DEF EventsAssumption
    <2> QED
      BY <1>0, <1>2, <2>1, <2>2, <2>3, EventRoundsKept
  <1>8. CountsOK'
    <2>1. \A x \in E!Cbs : HasCounted(x)' = HasCounted(x)
      BY <1>0, <1>1, <1>2, <1>4, EventNodeFacts DEF HasCounted, ThreadsOK
    <2>2. \A u \in Threads, r \in 1 .. Rounds : Chosen(u, r)' = Chosen(u, r)
      BY <1>1, <1>2, <1>4, EventNodeFacts DEF Chosen
    <2> QED
      BY <1>0, <1>2, <2>1, <2>2, EventCountsKept
  <1>9. InputsOK'
    <2>1. \A u \in Threads : Mem(Th(u))' \subseteq Mem(Th(u)) /\ val'[u] = val[u]
      BY <1>2, <1>5, EventPlaces
    <2>2. \A u \in Threads : epc'[u] \in {"resume", "store"} /\ cur'[u] \in E!Cbs
                              => value'[cur'[u]] > since[cur'[u]]
      BY <1>0, <1>1, <1>2, <1>4, EventNodeFacts DEF InputsOK, ThreadsOK
    <2>3. \A x \in E!Cbs : (node[x] = "run" => node'[x] = "run") /\ (mode = "all" /\ HasStored(x)' => HasStored(x))
      BY <1>0, <1>1, <1>2, <1>4, EventNodeFacts DEF HasStored, ThreadsOK
    <2>4. \A r \in 1 .. Rounds : mode = "any" => Stored(r)' = Stored(r)
      BY <1>1, <1>2, <1>4, EventNodeFacts DEF Stored
    <2> QED
      BY <1>0, <1>2, <2>1, <2>2, <2>3, <2>4, EventInputsKept
  <1> QED
    BY <1>3, <1>5, <1>6, <1>7, <1>8, <1>9 DEF EventsInv

\* when_all's callback stores a fresh input.
LEMMA EventsAllStore ==
  ASSUME EventsAssumption, EventsInv, NEW t \in Threads, E!AllStore(t)
  PROVE  EventsInv'
  <1>0. /\ E!TypeOK /\ Lists /\ Listed /\ ThreadsOK /\ RoundsOK /\ CountsOK /\ InputsOK
        /\ N \in Nat \ {0} /\ Rounds \in Nat \ {0} /\ MaxNotify \in Nat /\ MaxAgain \in Nat
    BY DEF EventsInv, EventsAssumption, E!ConstantsAreSane
  <1>1. /\ epc[t] = "resume" /\ mode = "all" /\ cur[t] \in E!Cbs /\ node[cur[t]] = "run"
        /\ cur[t][2] \in 1 .. Rounds /\ cur[t][3] \in 1 .. N /\ cur[t] = E!Cb(cur[t][2], cur[t][3])
        /\ cur[t] \in E!Nodes /\ cur[t] # Null /\ \A l \in Places : Mem(l) \subseteq E!Nodes \ {cur[t]}
    BY <1>0, EventInHand, EventNodeFacts DEF E!AllStore, ThreadsOK, HandOK, Calls
  <1>2. /\ input' = [input EXCEPT ![cur[t][2]] = [input[cur[t][2]] EXCEPT ![cur[t][3]] = value[cur[t]]]]
        /\ value' = [value EXCEPT ![cur[t]] = 0]
        /\ epc' = [epc EXCEPT ![t] = "count"]
        /\ UNCHANGED <<mode, etop, enext, node, since, again, awaiter, count, resumes, cur, erest, val, fired>>
    BY <1>0, <1>1 DEF E!AllStore, E!mainVars, E!walkVars, E!Idle
  <1>3. E!TypeOK'
    <2>1. input' \in [1 .. Rounds -> [1 .. N -> 0 .. MaxNotify]]
      <3>1. input \in [1 .. Rounds -> [1 .. N -> 0 .. MaxNotify]] /\ value[cur[t]] \in 0 .. MaxNotify
        BY <1>0, <1>1 DEF E!TypeOK
      <3> QED
        BY <1>1, <1>2, <3>1
    <2>2. value' \in [E!Nodes -> 0 .. MaxNotify]
      <3>1. value \in [E!Nodes -> 0 .. MaxNotify] /\ 0 \in 0 .. MaxNotify
        BY <1>0, <1>1 DEF E!TypeOK
      <3> QED
        BY <1>1, <1>2, <3>1
    <2> QED
      BY <1>0, <1>1, <1>2, <2>1, <2>2 DEF E!TypeOK, E!ConstantsAreSane
  <1>4. /\ input'[cur[t][2]][cur[t][3]] = value[cur[t]]
        /\ \A q \in 1 .. Rounds, i \in 1 .. N : E!Cb(q, i) # cur[t] => input'[q][i] = input[q][i]
        /\ value'[cur[t]] = 0
        /\ \A y \in E!Nodes : y # cur[t] => value'[y] = value[y]
        /\ epc'[t] = "count"
        /\ \A u \in Threads : u # t => epc'[u] = epc[u]
    <2>1. /\ input = [z \in 1 .. Rounds |-> input[z]]
          /\ value = [z \in E!Nodes |-> value[z]]
          /\ epc = [z \in Threads |-> epc[z]]
          /\ \A q \in 1 .. Rounds : input[q] = [i \in 1 .. N |-> input[q][i]]
      BY <1>0 DEF E!TypeOK
    <2>2. /\ input'[cur[t][2]] = [input[cur[t][2]] EXCEPT ![cur[t][3]] = value[cur[t]]]
          /\ \A q \in 1 .. Rounds : q # cur[t][2] => input'[q] = input[q]
      BY <1>1, <1>2, <2>1
    <2>3. \A q \in 1 .. Rounds, i \in 1 .. N : E!Cb(q, i) # cur[t] => q # cur[t][2] \/ i # cur[t][3]
      BY <1>1
    <2>4. /\ input'[cur[t][2]][cur[t][3]] = value[cur[t]]
          /\ \A i \in 1 .. N : i # cur[t][3] => input'[cur[t][2]][i] = input[cur[t][2]][i]
      <3>1. input[cur[t][2]] \in [1 .. N -> 0 .. MaxNotify]
        BY <1>0, <1>1 DEF E!TypeOK
      <3> QED
        BY <1>1, <2>2, <3>1
    <2>5. \A q \in 1 .. Rounds, i \in 1 .. N : E!Cb(q, i) # cur[t] => input'[q][i] = input[q][i]
      BY <2>2, <2>3, <2>4
    <2> QED
      BY <1>1, <1>2, <2>1, <2>4, <2>5
  <1>5. Lists' /\ Listed' /\ \A l \in Places : Mem(l)' = Mem(l)
    BY <1>0, <1>1, <1>2, <1>4, EventListsKept
  <1>6. ThreadsOK'
    <2>1. HandOK(t)'
      BY <1>0, <1>1, <1>2, <1>4, EventNodeFacts DEF ThreadsOK, HandOK, Calls
    <2>2. \A u \in Threads : u # t => cur'[u] = cur[u] /\ epc'[u] = epc[u]
      BY <1>2, <1>4, EventNodeFacts
    <2>3. \A u \in Threads : u # t /\ cur[u] # Null => node'[cur[u]] = node[cur[u]]
      BY <1>0, <1>1, <1>2, <1>4, EventNodeFacts DEF ThreadsOK, HandOK, Calls, E!TypeOK
    <2>4. \A u \in Threads : u # t /\ cur'[t] # Null => cur[u] # cur'[t]
      BY <1>0, <1>1, <1>2, <1>4, EventNodeFacts DEF ThreadsOK, HandOK, Calls, E!TypeOK
    <2> QED
      BY <1>0, <1>2, <2>1, <2>2, <2>3, <2>4, EventThreadsKept
  <1>7. RoundsOK'
    <2>1. \A u \in Threads, r \in 1 .. Rounds : Registers(u, r)' => Registers(u, r) /\ cur'[u] = cur[u]
      BY <1>1, <1>2, <1>4, EventNodeFacts DEF Registers
    <2>2. \A x \in E!Cbs : node[x] = "none" => node'[x] = "none"
      BY <1>1, <1>2, <1>4, EventNodeFacts
    <2>3. \A u \in Threads : cur'[u] = cur[u] \/ cur'[u] \notin E!Cbs \/ node[cur'[u]] # "none"
      BY <1>1, <1>2, <1>4, EventNodeFacts DEF EventsAssumption
    <2> QED
      BY <1>0, <1>2, <2>1, <2>2, <2>3, EventRoundsKept
  <1>8. CountsOK'
    <2>1. \A x \in E!Cbs : HasCounted(x)' = HasCounted(x)
      BY <1>0, <1>1, <1>2, <1>4, EventNodeFacts DEF HasCounted, ThreadsOK
    <2>2. \A u \in Threads, r \in 1 .. Rounds : Chosen(u, r)' = Chosen(u, r)
      BY <1>1, <1>2, <1>4, EventNodeFacts DEF Chosen
    <2> QED
      BY <1>0, <1>2, <2>1, <2>2, EventCountsKept
  <1>9. InputsOK'
    <2>1. \A u \in Threads : \A x \in Mem(Th(u))' : x \in E!Cbs => val'[u] > since'[x]
      BY <1>0, <1>2, <1>5, EventPlaces DEF InputsOK
    <2>2. \A u \in Threads : epc'[u] \in {"resume", "store"} /\ cur'[u] \in E!Cbs
                              => value'[cur'[u]] > since'[cur'[u]]
      BY <1>0, <1>1, <1>2, <1>4, EventNodeFacts DEF InputsOK, ThreadsOK
    <2>3. ASSUME NEW r \in 1 .. Rounds, NEW i \in 1 .. N, HasStored(E!Cb(r, i))'
          PROVE  input'[r][i] > since'[E!Cb(r, i)]
      <3>1. CASE E!Cb(r, i) = cur[t]
        <4>1. value[cur[t]] > since[cur[t]]
          BY <1>0, <1>1, EventNodeFacts DEF InputsOK
        <4>2. r = cur[t][2] /\ i = cur[t][3]
          BY <3>1, EventNodeFacts
        <4> QED
          BY <1>2, <1>4, <3>1, <4>1, <4>2, EventNodeFacts
      <3>2. CASE E!Cb(r, i) # cur[t]
        <4>1. HasStored(E!Cb(r, i))
          BY <1>2, <1>4, <2>3, <3>2, EventNodeFacts DEF HasStored
        <4> QED
          BY <1>0, <1>1, <1>2, <1>4, <3>2, <4>1, EventNodeFacts DEF InputsOK
      <3> QED
        BY <3>1, <3>2, EventNodeFacts
    <2> QED
      BY <1>0, <1>1, <1>2, <2>1, <2>2, <2>3, EventNodeFacts DEF InputsOK
  <1> QED
    BY <1>3, <1>5, <1>6, <1>7, <1>8, <1>9 DEF EventsInv

\* when_any's first callback stores a fresh input, the only one.
LEMMA EventsAnyStore ==
  ASSUME EventsAssumption, EventsInv, NEW t \in Threads, E!AnyStore(t)
  PROVE  EventsInv'
  <1>0. /\ E!TypeOK /\ Lists /\ Listed /\ ThreadsOK /\ RoundsOK /\ CountsOK /\ InputsOK
        /\ N \in Nat \ {0} /\ Rounds \in Nat \ {0} /\ MaxNotify \in Nat /\ MaxAgain \in Nat
    BY DEF EventsInv, EventsAssumption, E!ConstantsAreSane
  <1>1. /\ epc[t] = "store" /\ mode = "any" /\ cur[t] \in E!Cbs /\ node[cur[t]] = "run"
        /\ cur[t][2] \in 1 .. Rounds /\ cur[t][3] \in 1 .. N /\ cur[t] = E!Cb(cur[t][2], cur[t][3])
        /\ cur[t] \in E!Nodes /\ cur[t] # Null /\ \A l \in Places : Mem(l) \subseteq E!Nodes \ {cur[t]}
    BY <1>0, EventInHand, EventNodeFacts DEF E!AnyStore, ThreadsOK, HandOK, Calls
  <1>2. /\ input' = [input EXCEPT ![cur[t][2]] = [input[cur[t][2]] EXCEPT ![cur[t][3]] = value[cur[t]]]]
        /\ value' = [value EXCEPT ![cur[t]] = 0]
        /\ epc' = [epc EXCEPT ![t] = "main"]
        /\ UNCHANGED <<mode, etop, enext, node, since, again, awaiter, count, resumes, cur, erest, val, fired>>
    BY <1>0, <1>1 DEF E!AnyStore, E!mainVars, E!walkVars, E!Idle
  <1>3. E!TypeOK'
    <2>1. input' \in [1 .. Rounds -> [1 .. N -> 0 .. MaxNotify]]
      <3>1. input \in [1 .. Rounds -> [1 .. N -> 0 .. MaxNotify]] /\ value[cur[t]] \in 0 .. MaxNotify
        BY <1>0, <1>1 DEF E!TypeOK
      <3> QED
        BY <1>1, <1>2, <3>1
    <2>2. value' \in [E!Nodes -> 0 .. MaxNotify]
      <3>1. value \in [E!Nodes -> 0 .. MaxNotify] /\ 0 \in 0 .. MaxNotify
        BY <1>0, <1>1 DEF E!TypeOK
      <3> QED
        BY <1>1, <1>2, <3>1
    <2> QED
      BY <1>0, <1>1, <1>2, <2>1, <2>2 DEF E!TypeOK, E!ConstantsAreSane
  <1>4. /\ input'[cur[t][2]][cur[t][3]] = value[cur[t]]
        /\ \A q \in 1 .. Rounds, i \in 1 .. N : E!Cb(q, i) # cur[t] => input'[q][i] = input[q][i]
        /\ value'[cur[t]] = 0
        /\ \A y \in E!Nodes : y # cur[t] => value'[y] = value[y]
        /\ epc'[t] = "main"
        /\ \A u \in Threads : u # t => epc'[u] = epc[u]
    <2>1. /\ input = [z \in 1 .. Rounds |-> input[z]]
          /\ value = [z \in E!Nodes |-> value[z]]
          /\ epc = [z \in Threads |-> epc[z]]
          /\ \A q \in 1 .. Rounds : input[q] = [i \in 1 .. N |-> input[q][i]]
      BY <1>0 DEF E!TypeOK
    <2>2. /\ input'[cur[t][2]] = [input[cur[t][2]] EXCEPT ![cur[t][3]] = value[cur[t]]]
          /\ \A q \in 1 .. Rounds : q # cur[t][2] => input'[q] = input[q]
      BY <1>1, <1>2, <2>1
    <2>3. \A q \in 1 .. Rounds, i \in 1 .. N : E!Cb(q, i) # cur[t] => q # cur[t][2] \/ i # cur[t][3]
      BY <1>1
    <2>4. /\ input'[cur[t][2]][cur[t][3]] = value[cur[t]]
          /\ \A i \in 1 .. N : i # cur[t][3] => input'[cur[t][2]][i] = input[cur[t][2]][i]
      <3>1. input[cur[t][2]] \in [1 .. N -> 0 .. MaxNotify]
        BY <1>0, <1>1 DEF E!TypeOK
      <3> QED
        BY <1>1, <2>2, <3>1
    <2>5. \A q \in 1 .. Rounds, i \in 1 .. N : E!Cb(q, i) # cur[t] => input'[q][i] = input[q][i]
      BY <2>2, <2>3, <2>4
    <2> QED
      BY <1>1, <1>2, <2>1, <2>4, <2>5
  <1>5. Lists' /\ Listed' /\ \A l \in Places : Mem(l)' = Mem(l)
    BY <1>0, <1>1, <1>2, <1>4, EventListsKept
  <1>6. ThreadsOK'
    <2>1. HandOK(t)'
      BY <1>0, <1>1, <1>2, <1>4, EventNodeFacts DEF ThreadsOK, HandOK, Calls
    <2>2. \A u \in Threads : u # t => cur'[u] = cur[u] /\ epc'[u] = epc[u]
      BY <1>2, <1>4, EventNodeFacts
    <2>3. \A u \in Threads : u # t /\ cur[u] # Null => node'[cur[u]] = node[cur[u]]
      BY <1>0, <1>1, <1>2, <1>4, EventNodeFacts DEF ThreadsOK, HandOK, Calls, E!TypeOK
    <2>4. \A u \in Threads : u # t /\ cur'[t] # Null => cur[u] # cur'[t]
      BY <1>0, <1>1, <1>2, <1>4, EventNodeFacts DEF ThreadsOK, HandOK, Calls, E!TypeOK
    <2> QED
      BY <1>0, <1>2, <2>1, <2>2, <2>3, <2>4, EventThreadsKept
  <1>7. RoundsOK'
    <2>1. \A u \in Threads, r \in 1 .. Rounds : Registers(u, r)' => Registers(u, r) /\ cur'[u] = cur[u]
      BY <1>1, <1>2, <1>4, EventNodeFacts DEF Registers
    <2>2. \A x \in E!Cbs : node[x] = "none" => node'[x] = "none"
      BY <1>1, <1>2, <1>4, EventNodeFacts
    <2>3. \A u \in Threads : cur'[u] = cur[u] \/ cur'[u] \notin E!Cbs \/ node[cur'[u]] # "none"
      BY <1>1, <1>2, <1>4, EventNodeFacts DEF EventsAssumption
    <2> QED
      BY <1>0, <1>2, <2>1, <2>2, <2>3, EventRoundsKept
  <1>8. CountsOK'
    <2>1. \A x \in E!Cbs : HasCounted(x)' = HasCounted(x)
      BY <1>0, <1>1, <1>2, <1>4, EventNodeFacts DEF HasCounted, ThreadsOK
    <2>2. \A u \in Threads, r \in 1 .. Rounds : Chosen(u, r)' = Chosen(u, r)
      BY <1>1, <1>2, <1>4, EventNodeFacts DEF Chosen
    <2> QED
      BY <1>0, <1>2, <2>1, <2>2, EventCountsKept
  <1>9. InputsOK'
    <2>1. \A u \in Threads : \A x \in Mem(Th(u))' : x \in E!Cbs => val'[u] > since'[x]
      BY <1>0, <1>2, <1>5, EventPlaces DEF InputsOK
    <2>2. \A u \in Threads : epc'[u] \in {"resume", "store"} /\ cur'[u] \in E!Cbs
                              => value'[cur'[u]] > since'[cur'[u]]
      BY <1>0, <1>1, <1>2, <1>4, EventNodeFacts DEF InputsOK, ThreadsOK
    <2>3. \A r \in 1 .. Rounds : r = cur[t][2] => ~Stored(r) /\ Stored(r)'
      <3>1. Chosen(t, cur[t][2])
        BY <1>1, EventNodeFacts DEF Chosen
      <3>2. awaiter[cur[t][2]] = "alive" /\ \A u \in Threads : Chosen(u, cur[t][2]) => u = t
        BY <1>0, <1>1, <3>1, EventNodeFacts DEF CountsOK
      <3> QED
        BY <1>1, <1>2, <1>4, <3>2, EventNodeFacts DEF Stored, Chosen
    <2>4. value[cur[t]] > since[cur[t]]
      BY <1>0, <1>1, EventNodeFacts DEF InputsOK
    <2>5. \A i \in 1 .. N : input[cur[t][2]][i] = 0
      BY <1>0, <1>1, <2>3, EventNodeFacts DEF InputsOK
    <2>6. \A r \in 1 .. Rounds : r # cur[t][2] =>
            Stored(r)' = Stored(r) /\ \A i \in 1 .. N : E!Cb(r, i) # cur[t] /\ input'[r][i] = input[r][i]
      BY <1>1, <1>2, <1>4, EventNodeFacts DEF Stored
    <2>7. ASSUME NEW r \in 1 .. Rounds
          PROVE  /\ ~Stored(r)' => \A i \in 1 .. N : input'[r][i] = 0
                 /\ Stored(r)' => \E i \in 1 .. N : /\ node'[E!Cb(r, i)] = "run"
                                                    /\ input'[r][i] > since'[E!Cb(r, i)]
                                                    /\ \A j \in 1 .. N : j # i => input'[r][j] = 0
      <3>1. CASE r = cur[t][2]
        <4> DEFINE k == cur[t][3]
        <4>1. \A j \in 1 .. N : j # k => input'[r][j] = 0
          BY <1>1, <1>4, <2>5, <3>1, EventNodeFacts
        <4>2. k \in 1 .. N /\ node'[E!Cb(r, k)] = "run" /\ input'[r][k] > since'[E!Cb(r, k)]
          BY <1>1, <1>2, <1>4, <2>4, <3>1, EventNodeFacts
        <4> HIDE DEF k
        <4> QED
          BY <2>3, <3>1, <4>1, <4>2
      <3>2. CASE r # cur[t][2]
        <4>1. /\ ~Stored(r) => \A i \in 1 .. N : input[r][i] = 0
              /\ Stored(r) => \E i \in 1 .. N : /\ node[E!Cb(r, i)] = "run"
                                                /\ input[r][i] > since[E!Cb(r, i)]
                                                /\ \A j \in 1 .. N : j # i => input[r][j] = 0
          BY <1>0, <1>1, EventNodeFacts DEF InputsOK
        <4> QED
          BY <1>2, <2>6, <3>2, <4>1
      <3> QED
        BY <3>1, <3>2, EventNodeFacts
    <2> QED
      BY <1>0, <1>1, <1>2, <2>1, <2>2, <2>7, EventNodeFacts DEF InputsOK
  <1> QED
    BY <1>3, <1>5, <1>6, <1>7, <1>8, <1>9 DEF EventsInv

\* A callback counts itself: the last one of when_all and the first one of
\* when_any go on to resume main, whose awaiter is alive.
CountsItself(t) ==
  /\ cur[t] \in E!Cbs /\ node[cur[t]] = "run" /\ epc[t] \in {"resume", "count"}
  /\ UNCHANGED <<mode, resumes, awaiter, node>>
  /\ count' = [count EXCEPT ![cur[t][2]] = count[cur[t][2]] + 1]
  /\ \A u \in Threads : u # t => cur'[u] = cur[u] /\ epc'[u] = epc[u]
  /\ epc'[t] \in {"store", "main", "walk"}
  /\ epc'[t] = "walk" => cur'[t] = Null
  /\ epc'[t] # "walk" => cur'[t] = cur[t] /\ count[cur[t][2]] = IF mode = "all" THEN N - 1 ELSE 0

LEMMA EventCountUp ==
  ASSUME EventsAssumption, EventsInv, NEW t \in Threads, CountsItself(t)
  PROVE  CountsOK' /\ count' \in [1 .. Rounds -> 0 .. N]
  <1> USE DEF CountsItself
  <1> DEFINE x == cur[t]
  <1>1. PICK r \in 1 .. Rounds, i \in 1 .. N : x[2] = r /\ x[3] = i /\ x = E!Cb(r, i)
    BY EventNodeFacts
  <1>2. /\ N \in Nat \ {0} /\ x \in E!Nodes /\ x # Null /\ mode \in {"all", "any"}
        /\ count \in [1 .. Rounds -> 0 .. N]
        /\ ThreadsOK /\ RoundsOK /\ CountsOK
    <2>1. x \in E!Nodes /\ x # Null /\ N \in Nat \ {0}
      BY EventNodeFacts DEF EventsAssumption, E!ConstantsAreSane
    <2>2. mode \in {"all", "any"} /\ count \in [1 .. Rounds -> 0 .. N] /\ ThreadsOK /\ RoundsOK /\ CountsOK
      BY DEF EventsInv, E!TypeOK, E!ConstantsAreSane
    <2> QED
      BY <2>1, <2>2
  <1>3. \A c \in E!Cbs : HasCounted(c)' = (HasCounted(c) \/ c = x)
    <2>1. \A u \in Threads : u # t => cur[u] # x
      BY <1>2 DEF ThreadsOK
    <2>2. \A c \in E!Cbs : c # Null
      BY EventNodeFacts DEF EventsAssumption
    <2> QED
      BY <2>1, <2>2 DEF HasCounted
  <1>4. ~HasCounted(x)
    BY DEF HasCounted
  <1>5. /\ i \notin Done(r) /\ Done(r)' = Done(r) \cup {i}
        /\ \A q \in 1 .. Rounds : q # r => Done(q)' = Done(q)
    <2>1. ASSUME NEW q \in 1 .. Rounds, NEW j \in 1 .. N
          PROVE  HasCounted(E!Cb(q, j))' = (HasCounted(E!Cb(q, j)) \/ (q = r /\ j = i))
      BY <1>1, <1>3, EventNodeFacts
    <2>2. \A q \in 1 .. Rounds : Done(q)' = {j \in 1 .. N : HasCounted(E!Cb(q, j)) \/ (q = r /\ j = i)}
      BY <2>1 DEF Done
    <2> QED
      BY <1>1, <1>4, <2>2 DEF Done
  <1>6. /\ count[r] < N /\ count[r] \in Nat /\ Cardinality(Done(r)') = count[r] + 1
    <2>1. Done(r) \in SUBSET (1 .. N) /\ count[r] = Cardinality(Done(r)) /\ count[r] \in 0 .. N
      BY <1>2, DoneSet DEF CountsOK
    <2> QED
      BY <1>2, <1>5, <2>1, EventSets
  <1>7. /\ count'[r] = count[r] + 1 /\ \A q \in 1 .. Rounds : q # r => count'[q] = count[q]
        /\ count' \in [1 .. Rounds -> 0 .. N]
    BY <1>1, <1>2, <1>6
  <1>8. awaiter[r] # "none"
    BY <1>1, <1>2 DEF RoundsOK
  <1>9. \A u \in Threads, q \in 1 .. Rounds :
          Chosen(u, q)' <=> Chosen(u, q) \/ (u = t /\ q = r /\ epc'[t] # "walk")
    BY <1>1 DEF Chosen
  <1>10. epc'[t] # "walk" => awaiter[r] # "dead" /\ \A u \in Threads : ~Chosen(u, r)
    <2>1. epc'[t] # "walk" => count[r] = IF mode = "all" THEN N - 1 ELSE 0
      BY <1>1
    <2>2. awaiter[r] = "dead" \/ (\E u \in Threads : Chosen(u, r)) =>
            IF mode = "all" THEN count[r] = N ELSE count[r] >= 1
      BY <1>2 DEF CountsOK
    <2>3. CASE mode = "all"
      BY <1>2, <1>6, <2>1, <2>2, <2>3
    <2>4. CASE mode = "any"
      BY <1>2, <1>6, <2>1, <2>2, <2>4
    <2> QED
      BY <1>2, <2>3, <2>4
  <1>11. epc'[t] # "walk" => count[r] = IF mode = "all" THEN N - 1 ELSE 0
    BY <1>1
  <1>12. UNCHANGED <<mode, resumes, awaiter>>
    OBVIOUS
  <1> HIDE DEF CountsItself
  <1>13. \A q \in 1 .. Rounds : count'[q] = Cardinality(Done(q)')
    BY <1>2, <1>5, <1>6, <1>7 DEF CountsOK
  <1>14. \A u \in Threads, q \in 1 .. Rounds : Chosen(u, q)' => awaiter[q] = "alive"
    <2>1. awaiter[r] \in {"none", "alive", "dead"}
      BY DEF EventsInv, E!TypeOK
    <2> QED
      BY <1>2, <1>8, <1>9, <1>10, <2>1 DEF CountsOK
  <1>15. \A u, v \in Threads, q \in 1 .. Rounds : Chosen(u, q)' /\ Chosen(v, q)' => u = v
    BY <1>2, <1>9, <1>10 DEF CountsOK
  <1>16. ASSUME NEW q \in 1 .. Rounds, awaiter[q] = "dead" \/ \E u \in Threads : Chosen(u, q)'
         PROVE  IF mode = "all" THEN count'[q] = N ELSE count'[q] >= 1
    <2>1. awaiter[q] = "dead" \/ (\E u \in Threads : Chosen(u, q)) =>
            IF mode = "all" THEN count[q] = N ELSE count[q] >= 1
      BY <1>2 DEF CountsOK
    <2>2. CASE q = r
      BY <1>2, <1>6, <1>7, <1>9, <1>16, <1>11, <2>1, <2>2
    <2> QED
      BY <1>7, <1>9, <1>16, <2>1, <2>2
  <1> QED
    BY <1>2, <1>7, <1>13, <1>14, <1>15, <1>16, <1>12 DEF CountsOK

\* when_all: the callback that makes the count N is the last one, hence alone.
LEMMA EventsAllCount ==
  ASSUME EventsAssumption, EventsInv, NEW t \in Threads, E!AllCount(t)
  PROVE  EventsInv'
  <1>0. /\ E!TypeOK /\ Lists /\ Listed /\ ThreadsOK /\ RoundsOK /\ CountsOK /\ InputsOK
        /\ N \in Nat \ {0} /\ Rounds \in Nat \ {0} /\ MaxNotify \in Nat /\ MaxAgain \in Nat
    BY DEF EventsInv, EventsAssumption, E!ConstantsAreSane
  <1>1. /\ epc[t] = "count" /\ mode = "all" /\ cur[t] \in E!Cbs /\ node[cur[t]] = "run"
        /\ cur[t][2] \in 1 .. Rounds /\ cur[t][3] \in 1 .. N /\ cur[t] = E!Cb(cur[t][2], cur[t][3])
        /\ cur[t] \in E!Nodes /\ cur[t] # Null /\ \A l \in Places : Mem(l) \subseteq E!Nodes \ {cur[t]}
    BY <1>0, EventInHand, EventNodeFacts DEF E!AllCount, ThreadsOK, HandOK, Calls
  <1>2. /\ count' = [count EXCEPT ![cur[t][2]] = count[cur[t][2]] + 1]
        /\ epc' = [epc EXCEPT ![t] = IF count[cur[t][2]] = N - 1 THEN "main" ELSE "walk"]
        /\ cur' = [cur EXCEPT ![t] = IF epc'[t] = "walk" THEN Null ELSE cur[t]]
        /\ UNCHANGED <<mode, etop, enext, node, value, since, again, awaiter, input, resumes, erest, val, fired>>
    <2>1. /\ count' = [count EXCEPT ![cur[t][2]] = count[cur[t][2]] + 1]
          /\ epc' = [epc EXCEPT ![t] = IF count[cur[t][2]] = N - 1 THEN "main" ELSE "walk"]
          /\ cur' = [cur EXCEPT ![t] = IF epc'[t] = "walk" THEN Null ELSE cur[t]]
          /\ UNCHANGED <<mode, etop, enext, node, value, since, again, awaiter, input, resumes, erest, val, fired>>
      BY DEF E!AllCount, E!mainVars, E!walkVars
    <2>3. value \in [E!Nodes -> 0 .. MaxNotify]
      BY <1>0 DEF E!TypeOK
    <2>4. CASE epc'[t] = "walk"
      BY <1>1, <2>1, <2>3, <2>4
    <2>5. CASE epc'[t] # "walk"
      BY <1>1, <2>1, <2>3, <2>5
    <2> QED
      BY <2>4, <2>5
  <1>3. E!TypeOK'
    <2>1. /\ epc'[t] = (IF count[cur[t][2]] = N - 1 THEN "main" ELSE "walk")
          /\ cur'[t] = (IF epc'[t] = "walk" THEN Null ELSE cur[t])
          /\ \A u \in Threads : u # t => cur'[u] = cur[u] /\ epc'[u] = epc[u]
      BY <1>0, <1>2 DEF E!TypeOK
    <2>4. CountsItself(t)
      BY <1>1, <1>2, <2>1 DEF CountsItself
    <2>2. count' \in [1 .. Rounds -> 0 .. N]
      BY <2>4, EventCountUp
    <2>3. value' \in [E!Nodes -> 0 .. MaxNotify]
      BY <1>0, <1>1, <1>2 DEF E!TypeOK
    <2> QED
      BY <1>0, <1>1, <1>2, <2>2, <2>3 DEF E!TypeOK, E!ConstantsAreSane
  <1>4. /\ count'[cur[t][2]] = count[cur[t][2]] + 1
        /\ \A q \in 1 .. Rounds : q # cur[t][2] => count'[q] = count[q]
        /\ epc'[t] = IF count[cur[t][2]] = N - 1 THEN "main" ELSE "walk"
        /\ \A u \in Threads : u # t => epc'[u] = epc[u]
        /\ cur'[t] = IF epc'[t] = "walk" THEN Null ELSE cur[t]
        /\ \A u \in Threads : u # t => cur'[u] = cur[u]
    <2>1. /\ count = [z \in 1 .. Rounds |-> count[z]]
          /\ epc = [z \in Threads |-> epc[z]]
          /\ cur = [z \in Threads |-> cur[z]]
      BY <1>0 DEF E!TypeOK
    <2> QED
      BY <1>1, <1>2, <2>1, EventNodeFacts
  <1>5. Lists' /\ Listed' /\ \A l \in Places : Mem(l)' = Mem(l)
    BY <1>0, <1>1, <1>2, <1>4, EventListsKept
  <1>6. ThreadsOK'
    <2>1. HandOK(t)'
      BY <1>0, <1>1, <1>2, <1>4, EventNodeFacts DEF ThreadsOK, HandOK, Calls
    <2>2. \A u \in Threads : u # t => cur'[u] = cur[u] /\ epc'[u] = epc[u]
      BY <1>2, <1>4, EventNodeFacts
    <2>3. \A u \in Threads : u # t /\ cur[u] # Null => node'[cur[u]] = node[cur[u]]
      BY <1>0, <1>1, <1>2, <1>4, EventNodeFacts DEF ThreadsOK, HandOK, Calls, E!TypeOK
    <2>4. \A u \in Threads : u # t /\ cur'[t] # Null => cur[u] # cur'[t]
      BY <1>0, <1>1, <1>2, <1>4, EventNodeFacts DEF ThreadsOK, HandOK, Calls, E!TypeOK
    <2> QED
      BY <1>0, <1>2, <2>1, <2>2, <2>3, <2>4, EventThreadsKept
  <1>7. RoundsOK'
    <2>1. \A u \in Threads, r \in 1 .. Rounds : Registers(u, r)' => Registers(u, r) /\ cur'[u] = cur[u]
      BY <1>1, <1>2, <1>4, EventNodeFacts DEF Registers
    <2>2. \A x \in E!Cbs : node[x] = "none" => node'[x] = "none"
      BY <1>1, <1>2, <1>4, EventNodeFacts
    <2>3. \A u \in Threads : cur'[u] = cur[u] \/ cur'[u] \notin E!Cbs \/ node[cur'[u]] # "none"
      BY <1>1, <1>2, <1>4, EventNodeFacts DEF EventsAssumption
    <2> QED
      BY <1>0, <1>2, <2>1, <2>2, <2>3, EventRoundsKept
  <1>8. CountsOK'
    <2>1. CountsItself(t)
      BY <1>1, <1>2, <1>4 DEF CountsItself
    <2> QED
      BY <2>1, EventCountUp
  <1>9. InputsOK'
    <2>1. \A u \in Threads : Mem(Th(u))' \subseteq Mem(Th(u)) /\ val'[u] = val[u]
      BY <1>2, <1>5, EventPlaces
    <2>2. \A u \in Threads : epc'[u] \in {"resume", "store"} /\ cur'[u] \in E!Cbs
                              => value'[cur'[u]] > since[cur'[u]]
      BY <1>0, <1>1, <1>2, <1>4, EventNodeFacts DEF InputsOK, ThreadsOK
    <2>3. \A x \in E!Cbs : (node[x] = "run" => node'[x] = "run") /\ (mode = "all" /\ HasStored(x)' => HasStored(x))
      BY <1>0, <1>1, <1>2, <1>4, EventNodeFacts DEF HasStored, ThreadsOK
    <2>4. \A r \in 1 .. Rounds : mode = "any" => Stored(r)' = Stored(r)
      BY <1>1, <1>2, <1>4, EventNodeFacts DEF Stored
    <2> QED
      BY <1>0, <1>2, <2>1, <2>2, <2>3, <2>4, EventInputsKept
  <1> QED
    BY <1>3, <1>5, <1>6, <1>7, <1>8, <1>9 DEF EventsInv

\* when_any: the callback that finds the count 0 is the first one, hence alone.
LEMMA EventsAnyCount ==
  ASSUME EventsAssumption, EventsInv, NEW t \in Threads, E!AnyCount(t)
  PROVE  EventsInv'
  <1>0. /\ E!TypeOK /\ Lists /\ Listed /\ ThreadsOK /\ RoundsOK /\ CountsOK /\ InputsOK
        /\ N \in Nat \ {0} /\ Rounds \in Nat \ {0} /\ MaxNotify \in Nat /\ MaxAgain \in Nat
    BY DEF EventsInv, EventsAssumption, E!ConstantsAreSane
  <1>1. /\ epc[t] = "resume" /\ mode = "any" /\ cur[t] \in E!Cbs /\ node[cur[t]] = "run"
        /\ cur[t][2] \in 1 .. Rounds /\ cur[t][3] \in 1 .. N /\ cur[t] = E!Cb(cur[t][2], cur[t][3])
        /\ cur[t] \in E!Nodes /\ cur[t] # Null /\ \A l \in Places : Mem(l) \subseteq E!Nodes \ {cur[t]}
    BY <1>0, EventInHand, EventNodeFacts DEF E!AnyCount, ThreadsOK, HandOK, Calls
  <1>2. /\ count' = [count EXCEPT ![cur[t][2]] = count[cur[t][2]] + 1]
        /\ epc' = [epc EXCEPT ![t] = IF count[cur[t][2]] = 0 THEN "store" ELSE "walk"]
        /\ cur' = [cur EXCEPT ![t] = IF epc'[t] = "walk" THEN Null ELSE cur[t]]
        /\ value' = [value EXCEPT ![cur[t]] = IF epc'[t] = "walk" THEN 0 ELSE value[cur[t]]]
        /\ UNCHANGED <<mode, etop, enext, node, since, again, awaiter, input, resumes, erest, val, fired>>
    <2>1. /\ count' = [count EXCEPT ![cur[t][2]] = count[cur[t][2]] + 1]
          /\ epc' = [epc EXCEPT ![t] = IF count[cur[t][2]] = 0 THEN "store" ELSE "walk"]
          /\ cur' = [cur EXCEPT ![t] = IF epc'[t] = "walk" THEN Null ELSE cur[t]]
          /\ UNCHANGED <<mode, etop, enext, node, since, again, awaiter, input, resumes, erest, val, fired>>
          /\ value' = IF epc'[t] = "walk" THEN [value EXCEPT ![cur[t]] = 0] ELSE value
      BY DEF E!AnyCount, E!mainVars, E!walkVars
    <2>3. value \in [E!Nodes -> 0 .. MaxNotify]
      BY <1>0 DEF E!TypeOK
    <2>4. CASE epc'[t] = "walk"
      BY <1>1, <2>1, <2>3, <2>4
    <2>5. CASE epc'[t] # "walk"
      BY <1>1, <2>1, <2>3, <2>5
    <2> QED
      BY <2>4, <2>5
  <1>3. E!TypeOK'
    <2>1. /\ epc'[t] = (IF count[cur[t][2]] = 0 THEN "store" ELSE "walk")
          /\ cur'[t] = (IF epc'[t] = "walk" THEN Null ELSE cur[t])
          /\ \A u \in Threads : u # t => cur'[u] = cur[u] /\ epc'[u] = epc[u]
      BY <1>0, <1>2 DEF E!TypeOK
    <2>4. CountsItself(t)
      BY <1>1, <1>2, <2>1 DEF CountsItself
    <2>2. count' \in [1 .. Rounds -> 0 .. N]
      BY <2>4, EventCountUp
    <2>3. value' \in [E!Nodes -> 0 .. MaxNotify]
      BY <1>0, <1>1, <1>2 DEF E!TypeOK
    <2> QED
      BY <1>0, <1>1, <1>2, <2>2, <2>3 DEF E!TypeOK, E!ConstantsAreSane
  <1>4. /\ count'[cur[t][2]] = count[cur[t][2]] + 1
        /\ \A q \in 1 .. Rounds : q # cur[t][2] => count'[q] = count[q]
        /\ epc'[t] = IF count[cur[t][2]] = 0 THEN "store" ELSE "walk"
        /\ \A u \in Threads : u # t => epc'[u] = epc[u]
        /\ cur'[t] = IF epc'[t] = "walk" THEN Null ELSE cur[t]
        /\ \A u \in Threads : u # t => cur'[u] = cur[u]
        /\ value'[cur[t]] = IF epc'[t] = "walk" THEN 0 ELSE value[cur[t]]
        /\ \A y \in E!Nodes : y # cur[t] => value'[y] = value[y]
    <2>1. /\ count = [z \in 1 .. Rounds |-> count[z]]
          /\ epc = [z \in Threads |-> epc[z]]
          /\ cur = [z \in Threads |-> cur[z]]
          /\ value = [z \in E!Nodes |-> value[z]]
      BY <1>0 DEF E!TypeOK
    <2> QED
      BY <1>1, <1>2, <2>1, EventNodeFacts
  <1>5. Lists' /\ Listed' /\ \A l \in Places : Mem(l)' = Mem(l)
    BY <1>0, <1>1, <1>2, <1>4, EventListsKept
  <1>6. ThreadsOK'
    <2>1. HandOK(t)'
      BY <1>0, <1>1, <1>2, <1>4, EventNodeFacts DEF ThreadsOK, HandOK, Calls
    <2>2. \A u \in Threads : u # t => cur'[u] = cur[u] /\ epc'[u] = epc[u]
      BY <1>2, <1>4, EventNodeFacts
    <2>3. \A u \in Threads : u # t /\ cur[u] # Null => node'[cur[u]] = node[cur[u]]
      BY <1>0, <1>1, <1>2, <1>4, EventNodeFacts DEF ThreadsOK, HandOK, Calls, E!TypeOK
    <2>4. \A u \in Threads : u # t /\ cur'[t] # Null => cur[u] # cur'[t]
      BY <1>0, <1>1, <1>2, <1>4, EventNodeFacts DEF ThreadsOK, HandOK, Calls, E!TypeOK
    <2> QED
      BY <1>0, <1>2, <2>1, <2>2, <2>3, <2>4, EventThreadsKept
  <1>7. RoundsOK'
    <2>1. \A u \in Threads, r \in 1 .. Rounds : Registers(u, r)' => Registers(u, r) /\ cur'[u] = cur[u]
      BY <1>1, <1>2, <1>4, EventNodeFacts DEF Registers
    <2>2. \A x \in E!Cbs : node[x] = "none" => node'[x] = "none"
      BY <1>1, <1>2, <1>4, EventNodeFacts
    <2>3. \A u \in Threads : cur'[u] = cur[u] \/ cur'[u] \notin E!Cbs \/ node[cur'[u]] # "none"
      BY <1>1, <1>2, <1>4, EventNodeFacts DEF EventsAssumption
    <2> QED
      BY <1>0, <1>2, <2>1, <2>2, <2>3, EventRoundsKept
  <1>8. CountsOK'
    <2>1. CountsItself(t)
      BY <1>1, <1>2, <1>4 DEF CountsItself
    <2> QED
      BY <2>1, EventCountUp
  <1>9. InputsOK'
    <2>1. \A u \in Threads : Mem(Th(u))' \subseteq Mem(Th(u)) /\ val'[u] = val[u]
      BY <1>2, <1>5, EventPlaces
    <2>2. \A u \in Threads : epc'[u] \in {"resume", "store"} /\ cur'[u] \in E!Cbs
                              => value'[cur'[u]] > since[cur'[u]]
      BY <1>0, <1>1, <1>2, <1>4, EventNodeFacts DEF InputsOK, ThreadsOK
    <2>3. \A x \in E!Cbs : (node[x] = "run" => node'[x] = "run") /\ (mode = "all" /\ HasStored(x)' => HasStored(x))
      BY <1>0, <1>1, <1>2, <1>4, EventNodeFacts DEF HasStored, ThreadsOK
    <2>4. \A r \in 1 .. Rounds : mode = "any" => Stored(r)' = Stored(r)
      BY <1>1, <1>2, <1>4, EventNodeFacts DEF Stored
    <2> QED
      BY <1>0, <1>2, <2>1, <2>2, <2>3, <2>4, EventInputsKept
  <1> QED
    BY <1>3, <1>5, <1>6, <1>7, <1>8, <1>9 DEF EventsInv

\* The awaiter dies and the next round begins, of which there is no trace yet.
LEMMA EventsMainResumed ==
  ASSUME EventsAssumption, EventsInv, NEW t \in Threads, E!MainResumed(t)
  PROVE  EventsInv'
  <1>0. /\ E!TypeOK /\ Lists /\ Listed /\ ThreadsOK /\ RoundsOK /\ CountsOK /\ InputsOK
        /\ N \in Nat \ {0} /\ Rounds \in Nat \ {0} /\ MaxNotify \in Nat /\ MaxAgain \in Nat
    BY DEF EventsInv, EventsAssumption, E!ConstantsAreSane
  <1>1. /\ epc[t] = "main" /\ cur[t] \in E!Cbs /\ node[cur[t]] = "run"
        /\ cur[t] \in E!Nodes /\ cur[t] # Null
    BY <1>0, EventInHand DEF E!MainResumed, ThreadsOK, HandOK, Calls
  <1>2. PICK r \in 1 .. Rounds : r = cur[t][2]
    BY <1>1, EventNodeFacts
  <1>3. /\ resumes' = [resumes EXCEPT ![r] = resumes[r] + 1]
        /\ awaiter' = [q \in 1 .. Rounds |-> IF q = r THEN "dead" ELSE IF q = r + 1 THEN "alive" ELSE awaiter[q]]
        /\ r < Rounds => cur' = [cur EXCEPT ![t] = E!Cb(r + 1, 1)] /\ epc' = [epc EXCEPT ![t] = "register"]
        /\ ~(r < Rounds) => cur' = [cur EXCEPT ![t] = Null] /\ epc' = [epc EXCEPT ![t] = "walk"]
        /\ UNCHANGED <<mode, etop, enext, node, value, since, again, count, input, erest, val, fired>>
    BY <1>2 DEF E!MainResumed, E!walkVars
  <1>4. r < Rounds => /\ r + 1 \in 1 .. Rounds /\ E!Cb(r + 1, 1) \in E!Cbs /\ E!Cb(r + 1, 1) \in E!Nodes
                      /\ E!Cb(r + 1, 1) # Null /\ E!Cb(r + 1, 1)[2] = r + 1
    <2>1. r < Rounds => r + 1 \in 1 .. Rounds /\ 1 \in 1 .. N
      BY <1>0
    <2> QED
      BY <2>1, EventNodeFacts DEF EventsAssumption
  <1>5. /\ \A u \in Threads : u # t => cur'[u] = cur[u] /\ epc'[u] = epc[u]
        /\ r < Rounds => cur'[t] = E!Cb(r + 1, 1) /\ epc'[t] = "register"
        /\ ~(r < Rounds) => cur'[t] = Null /\ epc'[t] = "walk"
        /\ awaiter'[r] = "dead" /\ (r < Rounds => awaiter'[r + 1] = "alive")
        /\ \A q \in 1 .. Rounds : q # r /\ q # r + 1 => awaiter'[q] = awaiter[q]
        /\ resumes'[r] = resumes[r] + 1 /\ \A q \in 1 .. Rounds : q # r => resumes'[q] = resumes[q]
    <2>1. /\ cur = [z \in Threads |-> cur[z]] /\ epc = [z \in Threads |-> epc[z]]
          /\ resumes = [z \in 1 .. Rounds |-> resumes[z]]
      BY <1>0 DEF E!TypeOK
    <2>2. /\ awaiter'[r] = "dead" /\ (r < Rounds => awaiter'[r + 1] = "alive")
          /\ \A q \in 1 .. Rounds : q # r /\ q # r + 1 => awaiter'[q] = awaiter[q]
      BY <1>3, <1>4
    <2> QED
      BY <1>3, <2>1, <2>2
  <1>6. E!TypeOK'
    <2>1. awaiter \in [1 .. Rounds -> {"none", "alive", "dead"}] /\ resumes \in [1 .. Rounds -> Nat]
      BY <1>0 DEF E!TypeOK
    <2>2. awaiter' \in [1 .. Rounds -> {"none", "alive", "dead"}] /\ resumes' \in [1 .. Rounds -> Nat]
      BY <1>3, <2>1
    <2>3. cur' \in [Threads -> E!Nodes \cup {Null}]
      BY <1>0, <1>3, <1>4 DEF E!TypeOK
    <2>4. epc' \in [Threads -> {"walk", "register", "crashed", "load", "cas", "resume", "count", "store", "main"}]
      BY <1>0, <1>3 DEF E!TypeOK
    <2>5. UNCHANGED <<mode, etop, enext, node, value, since, again, count, input, erest, val, fired>>
      BY <1>3
    <2> QED
      BY ONLY <1>0, <2>2, <2>3, <2>4, <2>5 DEF E!TypeOK, E!ConstantsAreSane
  <1>7. Lists' /\ Listed' /\ \A l \in Places : Mem(l)' = Mem(l)
    BY <1>0, <1>3, EventListsKept
  <1>8. /\ Chosen(t, r) /\ awaiter[r] = "alive" /\ resumes[r] = 0
        /\ \A u \in Threads : Chosen(u, r) => u = t
    BY <1>0, <1>1, <1>2 DEF Chosen, CountsOK
  <1>9. /\ r < Rounds => awaiter[r + 1] = "none"
        /\ r + 1 < Rounds => awaiter[r + 2] = "none"
    <2>1. r < Rounds => awaiter[r + 1] = "none"
      BY <1>0, <1>8 DEF RoundsOK
    <2>2. r + 1 < Rounds => r + 1 \in 1 .. Rounds /\ r < Rounds /\ (r + 1) + 1 = r + 2
      BY <1>0
    <2>3. r + 1 < Rounds => (awaiter[r + 1] = "dead" <=> awaiter[(r + 1) + 1] # "none")
      BY <1>0, <2>2 DEF RoundsOK
    <2> QED
      BY <2>1, <2>2, <2>3
  <1>10. r < Rounds => \A j \in 1 .. N : node[E!Cb(r + 1, j)] = "none" /\ \A u \in Threads : cur[u] # E!Cb(r + 1, j)
    BY <1>0, <1>4, <1>9 DEF RoundsOK
  <1>11. 1 \in 1 .. N
    BY <1>0
  <1>12. ThreadsOK'
    <2>1. HandOK(t)'
      BY <1>3, <1>4, <1>5, <1>10, <1>11 DEF HandOK, Calls
    <2>2. \A u \in Threads : u # t /\ cur'[t] # Null => cur[u] # cur'[t]
      BY <1>5, <1>10, <1>11
    <2> QED
      BY <1>0, <1>3, <1>5, <2>1, <2>2, EventThreadsKept
  <1>13. \A u \in Threads, q \in 1 .. Rounds :
           /\ u # t => Registers(u, q)' = Registers(u, q)
           /\ Registers(t, q)' => r < Rounds /\ q = r + 1
    BY <1>4, <1>5 DEF Registers
  <1>14. r < Rounds => \A u \in Threads : ~Registers(u, r + 1)
    BY <1>4, <1>10, EventNodeFacts DEF Registers
  <1>15. RoundsOK'
    <2>1. \A u \in Threads, q \in 1 .. Rounds, i, j \in 1 .. N :
            Registers(u, q)' /\ cur'[u] = E!Cb(q, i) /\ j > i => node'[E!Cb(q, j)] = "none"
      BY <1>0, <1>3, <1>5, <1>10, <1>13 DEF RoundsOK
    <2>2. \A u, v \in Threads, q \in 1 .. Rounds : Registers(u, q)' /\ Registers(v, q)' => u = v
      BY <1>0, <1>13, <1>14 DEF RoundsOK
    <2>3. ASSUME NEW q \in 1 .. Rounds, awaiter'[q] = "none", NEW i \in 1 .. N
          PROVE  node'[E!Cb(q, i)] = "none" /\ \A u \in Threads : cur'[u] # E!Cb(q, i)
      <3>1. q # r /\ (r < Rounds => q # r + 1) /\ awaiter[q] = "none"
        BY <1>0, <1>5, <2>3
      <3>2. E!Cb(q, i)[2] = q /\ E!Cb(q, i) # Null
        BY EventNodeFacts DEF EventsAssumption
      <3> QED
        BY <1>0, <1>3, <1>4, <1>5, <3>1, <3>2 DEF RoundsOK
    <2>4. ASSUME NEW q \in 1 .. Rounds, q < Rounds
          PROVE  awaiter'[q] = "dead" <=> awaiter'[q + 1] # "none"
      <3>1. q + 1 \in 1 .. Rounds /\ (awaiter[q] = "dead" <=> awaiter[q + 1] # "none")
        BY <1>0, <2>4 DEF RoundsOK
      <3>2. CASE q = r
        BY <1>5, <2>4, <3>2
      <3>3. CASE q = r + 1
        <4>1. awaiter'[q] = "alive" /\ q + 1 = r + 2 /\ r + 1 < Rounds /\ q + 1 # r /\ q + 1 # r + 1
          BY <1>0, <1>5, <2>4, <3>3
        <4> QED
          BY <1>5, <1>9, <3>1, <4>1
      <3>4. CASE q + 1 = r
        BY <1>0, <1>5, <1>8, <3>1, <3>4
      <3>5. CASE q # r /\ q # r + 1 /\ q + 1 # r
        <4>1. q + 1 # r + 1
          BY <3>5
        <4> QED
          BY <1>5, <3>1, <3>5, <4>1
      <3> QED
        BY <3>2, <3>3, <3>4, <3>5
    <2> QED
      BY <2>1, <2>2, <2>3, <2>4 DEF RoundsOK
  <1>16. \A x \in E!Cbs : HasCounted(x)' = HasCounted(x) /\ HasStored(x)' = HasStored(x)
    <2>1. \A x \in E!Cbs : node[x] = "run" => x # Null /\ cur'[t] # x
      BY <1>5, <1>10, <1>11, EventNodeFacts DEF EventsAssumption
    <2> QED
      BY <1>1, <1>3, <1>5, <2>1 DEF HasCounted, HasStored
  <1>17. CountsOK'
    <2>1. \A q \in 1 .. Rounds : Done(q)' = Done(q)
      BY <1>16, EventNodeFacts DEF Done
    <2>2. \A u \in Threads, q \in 1 .. Rounds : Chosen(u, q)' <=> Chosen(u, q) /\ q # r
      BY <1>1, <1>2, <1>5, <1>8 DEF Chosen
    <2>3. \A u \in Threads, q \in 1 .. Rounds : Chosen(u, q)' => awaiter'[q] = "alive"
      BY <1>0, <1>4, <1>5, <1>9, <2>2 DEF CountsOK
    <2>4. \A q \in 1 .. Rounds : resumes'[q] = IF awaiter'[q] = "dead" THEN 1 ELSE 0
      BY <1>0, <1>4, <1>5, <1>8, <1>9 DEF CountsOK
    <2>5. \A q \in 1 .. Rounds : awaiter'[q] = "dead" \/ (\E u \in Threads : Chosen(u, q)') =>
            IF mode = "all" THEN count[q] = N ELSE count[q] >= 1
      BY <1>0, <1>4, <1>5, <1>8, <2>2 DEF CountsOK
    <2> QED
      BY <1>0, <1>3, <2>1, <2>2, <2>3, <2>4, <2>5 DEF CountsOK
  <1>18. InputsOK'
    <2>1. \A u \in Threads : Mem(Th(u))' \subseteq Mem(Th(u)) /\ val'[u] = val[u]
      BY <1>3, <1>7, EventPlaces
    <2>2. \A u \in Threads : epc'[u] \in {"resume", "store"} /\ cur'[u] \in E!Cbs
                              => value'[cur'[u]] > since[cur'[u]]
      BY <1>0, <1>3, <1>5 DEF InputsOK
    <2>3. \A q \in 1 .. Rounds : Stored(q)' = Stored(q)
      <3>1. \A u \in Threads, q \in 1 .. Rounds :
              epc'[u] = "main" /\ cur'[u][2] = q <=> u # t /\ epc[u] = "main" /\ cur[u][2] = q
        BY <1>5
      <3>2. \A q \in 1 .. Rounds : awaiter'[q] = "dead" <=> awaiter[q] = "dead" \/ q = r
        <4> SUFFICES ASSUME NEW q \in 1 .. Rounds
                     PROVE  awaiter'[q] = "dead" <=> awaiter[q] = "dead" \/ q = r
          OBVIOUS
        <4>1. CASE q = r
          BY <1>5, <4>1
        <4>2. CASE q = r + 1
          <5>1. r < Rounds /\ q # r
            BY <1>0, <4>2
          <5> QED
            BY <1>5, <1>9, <4>2, <5>1
        <4> QED
          BY <1>5, <4>1, <4>2
      <3> QED
        BY <1>1, <1>2, <3>1, <3>2 DEF Stored
    <2> QED
      BY <1>0, <1>3, <1>16, <2>1, <2>2, <2>3, EventInputsKept
  <1> QED
    BY <1>6, <1>7, <1>12, <1>15, <1>17, <1>18 DEF EventsInv

\* A node leaves the list of its notify_all for the hands of the thread.
LEMMA EventsNotifyNode ==
  ASSUME EventsAssumption, EventsInv, NEW t \in Threads, E!NotifyNode(t)
  PROVE  EventsInv'
  <1>0. /\ E!TypeOK /\ Lists /\ Listed /\ ThreadsOK /\ RoundsOK /\ CountsOK /\ InputsOK
        /\ N \in Nat \ {0} /\ Rounds \in Nat \ {0} /\ MaxNotify \in Nat /\ MaxAgain \in Nat
    BY DEF EventsInv, EventsAssumption, E!ConstantsAreSane
  <1>1. PICK x \in E!Nodes : x = erest[t] /\ x # Null /\ epc[t] = "walk" /\ cur[t] = Null
    BY <1>0 DEF E!NotifyNode, E!TypeOK, ThreadsOK, HandOK
  <1>2. /\ value' = [value EXCEPT ![x] = val[t]]
        /\ erest' = [erest EXCEPT ![t] = enext[x]]
        /\ enext' = [enext EXCEPT ![x] = Null]
        /\ val' = [val EXCEPT ![t] = IF erest'[t] = Null THEN 0 ELSE val[t]]
        /\ node' = [node EXCEPT ![x] = "run"]
        /\ cur' = [cur EXCEPT ![t] = x]
        /\ epc' = [epc EXCEPT ![t] = "resume"]
        /\ UNCHANGED <<mode, etop, since, again, awaiter, count, input, resumes, fired>>
    BY <1>1 DEF E!NotifyNode, E!mainVars
  <1>3. E!TypeOK'
    <2>1. value' \in [E!Nodes -> 0 .. MaxNotify] /\ val' \in [Threads -> 0 .. MaxNotify]
      <3>1. value \in [E!Nodes -> 0 .. MaxNotify] /\ val \in [Threads -> 0 .. MaxNotify] /\ 0 \in 0 .. MaxNotify
        BY <1>0 DEF E!TypeOK
      <3> QED
        BY <1>2, <3>1
    <2>2. erest' \in [Threads -> E!Nodes \cup {Null}] /\ enext' \in [E!Nodes -> E!Nodes \cup {Null}]
      BY <1>0, <1>1, <1>2 DEF E!TypeOK
    <2> QED
      BY <1>0, <1>1, <1>2, <2>1, <2>2 DEF E!TypeOK, E!ConstantsAreSane
  <1>4. /\ cur'[t] = x /\ epc'[t] = "resume" /\ node'[x] = "run" /\ value'[x] = val[t]
        /\ \A u \in Threads : u # t => cur'[u] = cur[u] /\ epc'[u] = epc[u] /\ val'[u] = val[u]
        /\ \A y \in E!Nodes : y # x => node'[y] = node[y] /\ value'[y] = value[y]
        /\ erest'[t] = enext[x] /\ val'[t] = IF erest'[t] = Null THEN 0 ELSE val[t]
    <2>1. /\ cur = [z \in Threads |-> cur[z]] /\ epc = [z \in Threads |-> epc[z]]
          /\ val = [z \in Threads |-> val[z]] /\ erest = [z \in Threads |-> erest[z]]
          /\ node = [z \in E!Nodes |-> node[z]] /\ value = [z \in E!Nodes |-> value[z]]
      BY <1>0 DEF E!TypeOK
    <2> QED
      BY <1>2, <2>1
  <1>5. /\ Lists' /\ x \in Mem(Th(t)) /\ Mem(Th(t))' = Mem(Th(t)) \ {x}
        /\ \A l \in Places : l # Th(t) => Mem(l)' = Mem(l)
    BY <1>0, <1>1, <1>2, <1>3, EventWalk
  <1>6. /\ \A l \in Places : Mem(l) \subseteq E!Nodes
        /\ \A l \in Places : x \in Mem(l) => l = Th(t)
        /\ Th(t) \in Places /\ node[x] = "popped"
    BY <1>0, <1>5, EventInPlace, EventPlaces DEF Listed
  <1>7. \A l \in Places : Mem(l)' = Mem(l) \ {x}
    BY <1>5, <1>6
  <1>8. Listed'
    <2>1. ASSUME NEW e \in 1 .. N, NEW y \in E!Nodes
          PROVE  y \in Mem(Ev(e))' <=> node'[y] = "subscribed" /\ E!EventOf(y) = e
      BY <1>0, <1>4, <1>6, <1>7, EventPlaces DEF Listed
    <2>2. ASSUME NEW u \in Threads, NEW y \in Mem(Th(u))' PROVE node'[y] = "popped"
      BY <1>0, <1>4, <1>6, <1>7, EventPlaces DEF Listed
    <2>3. ASSUME NEW y \in E!Nodes, node'[y] = "popped" PROVE \E u \in Threads : y \in Mem(Th(u))'
      BY <1>0, <1>4, <1>7, <2>3, EventPlaces DEF Listed
    <2> QED
      BY <2>1, <2>2, <2>3 DEF Listed
  <1>9. ASSUME NEW u \in Threads PROVE cur[u] # x
    <2>1. CASE epc[u] = "walk"
      BY <1>0, <1>1, <2>1 DEF ThreadsOK, HandOK
    <2>2. CASE epc[u] # "walk"
      <3>1. Mem(Th(t)) \subseteq E!Nodes \ {cur[u]}
        BY <1>6, <2>2, EventInHand
      <3> QED
        BY <1>5, <3>1
    <2> QED
      BY <2>1, <2>2
  <1>10. ThreadsOK'
    <2>1. HandOK(t)'
      BY <1>1, <1>4 DEF HandOK, Calls
    <2>2. \A u \in Threads : u # t /\ cur[u] # Null => node'[cur[u]] = node[cur[u]]
      BY <1>0, <1>4, <1>9 DEF E!TypeOK
    <2> QED
      BY <1>0, <1>2, <1>4, <1>9, <2>1, <2>2, EventThreadsKept
  <1>11. RoundsOK'
    <2>1. \A u \in Threads, r \in 1 .. Rounds : Registers(u, r)' => Registers(u, r) /\ cur'[u] = cur[u]
      BY <1>4 DEF Registers
    <2>2. \A c \in E!Cbs : node[c] = "none" => node'[c] = "none"
      BY <1>4, <1>6, EventNodeFacts
    <2>3. \A u \in Threads : cur'[u] = cur[u] \/ cur'[u] \notin E!Cbs \/ node[cur'[u]] # "none"
      BY <1>4, <1>6
    <2> QED
      BY <1>0, <1>2, <2>1, <2>2, <2>3, EventRoundsKept
  <1>12. ASSUME NEW c \in E!Cbs PROVE HasCounted(c)' = HasCounted(c) /\ HasStored(c)' = HasStored(c)
    <2>1. c \in E!Nodes /\ c # Null
      BY EventNodeFacts DEF EventsAssumption
    <2>2. CASE c # x
      <3>1. node'[c] = node[c] /\ \A u \in Threads : (cur'[u] = c <=> cur[u] = c) /\ (cur[u] = c => epc'[u] = epc[u])
        BY <1>1, <1>4, <2>1, <2>2
      <3> QED
        BY <3>1 DEF HasCounted, HasStored
    <2>3. CASE c = x
      BY <1>4, <1>6, <2>3 DEF HasCounted, HasStored
    <2> QED
      BY <2>2, <2>3
  <1>13. CountsOK'
    <2>1. \A u \in Threads, r \in 1 .. Rounds : Chosen(u, r)' = Chosen(u, r)
      BY <1>1, <1>4 DEF Chosen
    <2> QED
      BY <1>0, <1>2, <1>12, <2>1, EventCountsKept
  <1>14. InputsOK'
    <2>1. ASSUME NEW u \in Threads
          PROVE  Mem(Th(u))' \subseteq Mem(Th(u)) /\ (val'[u] = val[u] \/ Mem(Th(u))' = {})
      <3>1. CASE u = t
        <4>1. erest'[t] = Null => Mem(Th(t))' = {}
          <5>1. Heads'[Th(t)] = erest'[t] /\ Lists'
            BY <1>5, EventHeads
          <5>2. LP!Separate(Places, Heads', enext')
            BY <5>1 DEF Lists
          <5>3. Heads'[Th(t)] = Null => LP!NodesOf(enext', Heads'[Th(t)]) = {}
            BY ONLY EventsAssumption, <1>6, <5>2, LP!InList, EventListsApply
          <5> QED
            BY <5>1, <5>3 DEF Mem
        <4> QED
          BY <1>4, <1>5, <3>1, <4>1
      <3>2. CASE u # t
        BY <1>4, <1>5, <3>2, EventPlaces
      <3> QED
        BY <3>1, <3>2
    <2>2. ASSUME NEW u \in Threads, epc'[u] \in {"resume", "store"}, cur'[u] \in E!Cbs
          PROVE  value'[cur'[u]] > since[cur'[u]]
      <3>1. CASE u = t
        BY <1>0, <1>4, <1>5, <2>2, <3>1 DEF InputsOK
      <3>2. CASE u # t
        BY <1>0, <1>4, <1>9, <2>2, <3>2, EventNodeFacts DEF InputsOK
      <3> QED
        BY <3>1, <3>2
    <2>3. \A c \in E!Cbs : node[c] = "run" => node'[c] = "run"
      BY <1>4, EventNodeFacts
    <2>4. \A r \in 1 .. Rounds : Stored(r)' = Stored(r)
      BY <1>1, <1>2, <1>4 DEF Stored
    <2> QED
      BY <1>0, <1>2, <1>12, <2>1, <2>2, <2>3, <2>4, EventInputsKept
  <1> QED
    BY <1>3, <1>5, <1>8, <1>10, <1>11, <1>13, <1>14 DEF EventsInv

\* The stack of an event becomes the list of a thread, with a value that is new.
LEMMA EventsNotifyAll ==
  ASSUME EventsAssumption, EventsInv, NEW t \in Threads, NEW e \in 1 .. N, E!NotifyAll(t, e)
  PROVE  EventsInv'
  <1>0. /\ E!TypeOK /\ Lists /\ Listed /\ ThreadsOK /\ RoundsOK /\ CountsOK /\ InputsOK
        /\ N \in Nat \ {0} /\ Rounds \in Nat \ {0} /\ MaxNotify \in Nat /\ MaxAgain \in Nat
    BY DEF EventsInv, EventsAssumption, E!ConstantsAreSane
  <1>1. epc[t] = "walk" /\ erest[t] = Null /\ fired < MaxNotify /\ fired \in 0 .. MaxNotify
    BY <1>0 DEF E!NotifyAll, E!Idle, E!TypeOK
  <1>2. /\ fired' = fired + 1
        /\ val' = [val EXCEPT ![t] = IF etop[e] = Null THEN 0 ELSE fired + 1]
        /\ erest' = [erest EXCEPT ![t] = etop[e]]
        /\ etop' = [etop EXCEPT ![e] = Null]
        /\ node' = [y \in E!Nodes |-> IF y \in Mem(Ev(e)) THEN "popped" ELSE node[y]]
        /\ UNCHANGED <<mode, enext, value, since, again, awaiter, count, input, resumes, epc, cur>>
    <2>1. /\ fired' = fired + 1
          /\ val' = [val EXCEPT ![t] = IF etop[e] = Null THEN 0 ELSE fired + 1]
          /\ erest' = [erest EXCEPT ![t] = etop[e]]
          /\ etop' = [etop EXCEPT ![e] = Null]
          /\ UNCHANGED <<mode, enext, value, since, again, awaiter, count, input, resumes, epc, cur>>
      BY DEF E!NotifyAll, E!mainVars
    <2>2. node' = [y \in E!Nodes |-> IF y \in E!NodesOf(enext, etop[e]) THEN "popped" ELSE node[y]]
      BY DEF E!NotifyAll
    <2>3. E!NodesOf(enext, etop[e]) = Mem(Ev(e))
      BY EventOperators, EventHeads DEF Mem
    <2> QED
      BY <2>1, <2>2, <2>3
  <1>3. E!TypeOK'
    <2>1. val' \in [Threads -> 0 .. MaxNotify] /\ fired' \in 0 .. MaxNotify
      <3>1. val \in [Threads -> 0 .. MaxNotify] /\ 0 \in 0 .. MaxNotify /\ fired + 1 \in 0 .. MaxNotify
        BY <1>0, <1>1 DEF E!TypeOK
      <3> QED
        BY <1>2, <3>1
    <2>2. erest' \in [Threads -> E!Nodes \cup {Null}] /\ etop' \in [1 .. N -> E!Nodes \cup {Null}]
      BY <1>0, <1>2 DEF E!TypeOK
    <2>3. node' \in [E!Nodes -> {"none", "pushing", "subscribed", "popped", "run"}]
      BY <1>0, <1>2 DEF E!TypeOK
    <2> QED
      BY <1>0, <1>2, <2>1, <2>2, <2>3 DEF E!TypeOK, E!ConstantsAreSane
  <1>4. /\ Lists' /\ Mem(Th(t))' = Mem(Ev(e)) /\ Mem(Ev(e))' = {} /\ Mem(Th(t)) = {}
        /\ \A l \in Places : l # Ev(e) /\ l # Th(t) => Mem(l)' = Mem(l)
    BY <1>0, <1>1, <1>2, <1>3, EventPop
  <1>5. /\ \A y \in E!Nodes : y \in Mem(Ev(e)) => node[y] = "subscribed" /\ node'[y] = "popped"
        /\ \A y \in E!Nodes : y \notin Mem(Ev(e)) => node'[y] = node[y]
        /\ Mem(Ev(e)) \subseteq E!Nodes
    BY <1>0, <1>2, EventInPlace, EventPlaces DEF Listed
  <1>6. \A l \in Places : Mem(l) \subseteq E!Nodes
    BY <1>0, EventInPlace
  <1>7. Listed'
    <2>1. ASSUME NEW f \in 1 .. N, NEW y \in E!Nodes
          PROVE  y \in Mem(Ev(f))' <=> node'[y] = "subscribed" /\ E!EventOf(y) = f
      <3>1. y \in Mem(Ev(f)) <=> node[y] = "subscribed" /\ E!EventOf(y) = f
        BY <1>0 DEF Listed
      <3>2. y \in Mem(Ev(e)) <=> node[y] = "subscribed" /\ E!EventOf(y) = e
        BY <1>0 DEF Listed
      <3>3. CASE f = e
        BY <1>4, <1>5, <3>2, <3>3
      <3>4. CASE f # e
        <4>1. Mem(Ev(f))' = Mem(Ev(f))
          BY <1>4, <3>4, EventPlaces
        <4> QED
          BY <1>5, <3>1, <3>2, <3>4, <4>1
      <3> QED
        BY <3>3, <3>4
    <2>2. ASSUME NEW u \in Threads, NEW y \in Mem(Th(u))' PROVE node'[y] = "popped"
      <3>1. CASE u = t
        BY <1>4, <1>5, <2>2, <3>1
      <3>2. CASE u # t
        <4>1. y \in Mem(Th(u)) /\ y \in E!Nodes /\ Th(u) \in Places
          BY <1>4, <1>6, <2>2, <3>2, EventPlaces
        <4>2. node[y] = "popped"
          BY <1>0, <4>1 DEF Listed
        <4> QED
          BY <1>5, <4>1, <4>2
      <3> QED
        BY <3>1, <3>2
    <2>3. ASSUME NEW y \in E!Nodes, node'[y] = "popped" PROVE \E u \in Threads : y \in Mem(Th(u))'
      <3>1. CASE y \in Mem(Ev(e))
        BY <1>4, <3>1
      <3>2. CASE y \notin Mem(Ev(e))
        <4>1. PICK u \in Threads : y \in Mem(Th(u))
          BY <1>0, <1>5, <2>3, <3>2 DEF Listed
        <4> QED
          BY <1>4, <4>1, EventPlaces
      <3> QED
        BY <3>1, <3>2
    <2> QED
      BY <2>1, <2>2, <2>3 DEF Listed
  <1>8. \A u \in Threads : cur[u] # Null => cur[u] \in E!Nodes /\ node'[cur[u]] = node[cur[u]]
    <2>1. \A u \in Threads : cur[u] # Null => cur[u] \in E!Nodes /\ cur[u] \notin Mem(Ev(e))
      BY <1>0, EventInHand, EventPlaces DEF ThreadsOK, HandOK
    <2> QED
      BY <1>5, <2>1
  <1>9. ThreadsOK'
    <2>1. HandOK(t)'
      BY <1>0, <1>1, <1>2, <1>8 DEF ThreadsOK, HandOK, Calls
    <2>2. \A u \in Threads : u # t /\ cur'[t] # Null => cur[u] # cur'[t]
      BY <1>0, <1>2 DEF ThreadsOK
    <2> QED
      BY <1>0, <1>2, <1>8, <2>1, <2>2, EventThreadsKept
  <1>10. RoundsOK'
    <2>1. \A u \in Threads, r \in 1 .. Rounds : Registers(u, r)' => Registers(u, r) /\ cur'[u] = cur[u]
      BY <1>2 DEF Registers
    <2>2. \A c \in E!Cbs : node[c] = "none" => node'[c] = "none"
      BY <1>5, EventNodeFacts
    <2>3. \A u \in Threads : cur'[u] = cur[u]
      BY <1>2
    <2> QED
      BY <1>0, <1>2, <2>1, <2>2, <2>3, EventRoundsKept
  <1>11. \A c \in E!Cbs : node'[c] = "run" <=> node[c] = "run"
    BY <1>5, EventNodeFacts
  <1>12. CountsOK'
    <2>1. \A c \in E!Cbs : HasCounted(c)' = HasCounted(c)
      BY <1>2, <1>11 DEF HasCounted
    <2>2. \A u \in Threads, r \in 1 .. Rounds : Chosen(u, r)' = Chosen(u, r)
      BY <1>2 DEF Chosen
    <2> QED
      BY <1>0, <1>2, <2>1, <2>2, EventCountsKept
  <1>13. InputsOK'
    <2>1. \A c \in E!Cbs : since[c] <= fired /\ since[c] \in 0 .. MaxNotify
      BY <1>0 DEF InputsOK, E!TypeOK
    <2>2. \A c \in E!Cbs : since[c] <= fired'
      BY <1>0, <1>1, <1>2, <2>1
    <2>3. ASSUME NEW u \in Threads, NEW c \in Mem(Th(u))', c \in E!Cbs PROVE val'[u] > since[c]
      <3>1. CASE u = t
        <4>1. c \in Mem(Ev(e))
          BY <1>4, <2>3, <3>1
        <4>2. etop[e] # Null
          BY <1>0, <4>1, EventInPlace, EventPlaces, EventHeads
        <4>3. val'[t] = fired + 1
          BY <1>0, <1>2, <4>2 DEF E!TypeOK
        <4> QED
          BY <1>0, <1>1, <2>1, <2>3, <3>1, <4>3
      <3>2. CASE u # t
        <4>1. c \in Mem(Th(u)) /\ val'[u] = val[u]
          BY <1>0, <1>2, <1>4, <2>3, <3>2, EventPlaces DEF E!TypeOK
        <4> QED
          BY <1>0, <2>3, <4>1 DEF InputsOK
      <3> QED
        BY <3>1, <3>2
    <2>4. \A c \in E!Cbs : HasStored(c)' = HasStored(c)
      BY <1>2, <1>11 DEF HasStored
    <2>5. mode = "all" => \A r \in 1 .. Rounds, i \in 1 .. N :
            HasStored(E!Cb(r, i))' => input[r][i] > since[E!Cb(r, i)]
      BY <1>0, <2>4, EventNodeFacts DEF InputsOK
    <2>6. \A r \in 1 .. Rounds : Stored(r)' = Stored(r)
      BY <1>2 DEF Stored
    <2>7. ASSUME mode = "any", NEW r \in 1 .. Rounds
          PROVE  /\ ~Stored(r)' => \A i \in 1 .. N : input[r][i] = 0
                 /\ Stored(r)' => \E i \in 1 .. N : /\ node'[E!Cb(r, i)] = "run"
                                                    /\ input[r][i] > since[E!Cb(r, i)]
                                                    /\ \A j \in 1 .. N : j # i => input[r][j] = 0
      BY <1>0, <1>11, <2>6, <2>7, EventNodeFacts DEF InputsOK
    <2>8. \A u \in Threads : epc[u] \in {"resume", "store"} /\ cur[u] \in E!Cbs => value[cur[u]] > since[cur[u]]
      BY <1>0 DEF InputsOK
    <2> QED
      BY <1>2, <2>2, <2>3, <2>5, <2>7, <2>8 DEF InputsOK
  <1> QED
    BY <1>3, <1>4, <1>7, <1>9, <1>10, <1>12, <1>13 DEF EventsInv

\* A node becomes the top of the stack of its event; the registration goes on.
LEMMA EventsPushCas ==
  ASSUME EventsAssumption, EventsInv, NEW t \in Threads, E!PushCas(t)
  PROVE  EventsInv'
  <1>0. /\ E!TypeOK /\ Lists /\ Listed /\ ThreadsOK /\ RoundsOK /\ CountsOK /\ InputsOK
        /\ N \in Nat \ {0} /\ Rounds \in Nat \ {0} /\ MaxNotify \in Nat /\ MaxAgain \in Nat
    BY DEF EventsInv, EventsAssumption, E!ConstantsAreSane
  <1>1. PICK x \in E!Nodes : x = cur[t]
    BY <1>0, EventInHand DEF E!PushCas
  <1>2. /\ epc[t] = "cas" /\ node[x] = "pushing" /\ E!EventOf(x) \in 1 .. N /\ x # Null
        /\ \A l \in Places : Mem(l) \subseteq E!Nodes \ {x}
    BY <1>0, <1>1, EventInHand DEF E!PushCas, ThreadsOK, HandOK
  <1> DEFINE more == x[1] = "cb" /\ x[3] < N
             y == IF more THEN E!Cb(x[2], x[3] + 1) ELSE Null
             at == IF more THEN "register" ELSE "walk"
  <1>3. /\ etop[E!EventOf(x)] = enext[x]
        /\ etop' = [etop EXCEPT ![E!EventOf(x)] = x]
        /\ node' = [node EXCEPT ![x] = "subscribed"]
        /\ since' = [c \in E!Cbs |-> IF c = x THEN fired ELSE since[c]]
        /\ cur' = [cur EXCEPT ![t] = y] /\ epc' = [epc EXCEPT ![t] = at]
        /\ UNCHANGED <<mode, enext, value, again, awaiter, count, input, resumes, erest, val, fired>>
    BY <1>1 DEF E!PushCas, E!PushedThen, E!mainVars, E!walkVars
  <1>4. more => /\ x \in E!Cbs /\ x[2] \in 1 .. Rounds /\ x[3] \in 1 .. N /\ x = E!Cb(x[2], x[3])
                /\ x[3] + 1 \in 1 .. N /\ x[3] + 1 > x[3]
    <2>1. more => x \in E!Cbs
      BY EventNodeFacts
    <2>2. more => x[2] \in 1 .. Rounds /\ x[3] \in 1 .. N /\ x = E!Cb(x[2], x[3])
      BY <2>1, EventNodeFacts
    <2> QED
      BY <1>0, <2>1, <2>2
  <1>5. /\ more => /\ y = E!Cb(x[2], x[3] + 1) /\ y \in E!Cbs /\ y \in E!Nodes /\ y[2] = x[2] /\ y[3] = x[3] + 1
                   /\ y # x /\ y # Null
        /\ ~more => y = Null
    <2>1. more => y = E!Cb(x[2], x[3] + 1)
      OBVIOUS
    <2>2. more => y \in E!Cbs /\ y \in E!Nodes /\ y[2] = x[2] /\ y[3] = x[3] + 1
      BY <1>4, <2>1, EventNodeFacts
    <2>3. more => y # x /\ y # Null
      BY <1>4, <2>2 DEF EventsAssumption
    <2> QED
      BY <2>1, <2>2, <2>3
  <1>6. more => Registers(t, x[2])
    BY <1>1, <1>2, <1>4 DEF Registers
  <1>7. more => node[y] = "none"
    BY <1>0, <1>1, <1>4, <1>5, <1>6 DEF RoundsOK
  <1>8. ASSUME NEW u \in Threads, more PROVE cur[u] # y
    <2>1. SUFFICES ASSUME cur[u] = y PROVE FALSE
      OBVIOUS
    <2>2. cur[u] # Null /\ cur[u] \in E!Cbs /\ node[cur[u]] = "none" /\ cur[u][2] = x[2]
      BY <1>5, <1>7, <1>8, <2>1
    <2>3. epc[u] \in {"register", "crashed"}
      BY <1>0, <2>2 DEF ThreadsOK, HandOK, Calls, E!TypeOK
    <2>4. Registers(u, x[2])
      BY <2>2, <2>3 DEF Registers
    <2>5. u = t
      BY <1>0, <1>4, <1>6, <1>8, <2>4 DEF RoundsOK
    <2> QED
      BY <1>1, <1>5, <1>8, <2>1, <2>5
  <1>9. /\ cur'[t] = y /\ epc'[t] = at /\ node'[x] = "subscribed"
        /\ \A u \in Threads : u # t => cur'[u] = cur[u] /\ epc'[u] = epc[u]
        /\ \A z \in E!Nodes : z # x => node'[z] = node[z]
        /\ \A c \in E!Cbs : (c = x => since'[c] = fired) /\ (c # x => since'[c] = since[c])
    <2>1. /\ cur = [z \in Threads |-> cur[z]] /\ epc = [z \in Threads |-> epc[z]]
          /\ node = [z \in E!Nodes |-> node[z]]
      BY <1>0 DEF E!TypeOK
    <2> HIDE DEF y, at
    <2>2. /\ cur'[t] = y /\ epc'[t] = at /\ node'[x] = "subscribed"
          /\ \A u \in Threads : u # t => cur'[u] = cur[u] /\ epc'[u] = epc[u]
          /\ \A z \in E!Nodes : z # x => node'[z] = node[z]
      BY ONLY t \in Threads, x \in E!Nodes, <1>3, <2>1
    <2> QED
      BY <1>3, <2>2
  <1>10. more \/ ~more
    OBVIOUS
  <1>11. (more => at = "register") /\ (~more => at = "walk")
    OBVIOUS
  <1> HIDE DEF y, at
  <1>12. E!TypeOK'
    <2>1. since' \in [E!Cbs -> 0 .. MaxNotify]
      <3>1. since \in [E!Cbs -> 0 .. MaxNotify] /\ fired \in 0 .. MaxNotify
        BY <1>0 DEF E!TypeOK
      <3> QED
        BY <1>3, <3>1
    <2>2. etop' \in [1 .. N -> E!Nodes \cup {Null}]
      BY <1>0, <1>2, <1>3 DEF E!TypeOK
    <2>3. cur' \in [Threads -> E!Nodes \cup {Null}]
      BY <1>0, <1>3, <1>5 DEF E!TypeOK
    <2>4. epc' \in [Threads -> {"walk", "register", "crashed", "load", "cas", "resume", "count", "store", "main"}]
      BY <1>0, <1>3, <1>11 DEF E!TypeOK
    <2>5. node' \in [E!Nodes -> {"none", "pushing", "subscribed", "popped", "run"}]
      BY <1>0, <1>3 DEF E!TypeOK
    <2> QED
      BY <1>0, <1>3, <2>1, <2>2, <2>3, <2>4, <2>5 DEF E!TypeOK, E!ConstantsAreSane
  <1>13. /\ Lists'
         /\ Mem(Ev(E!EventOf(x)))' = Mem(Ev(E!EventOf(x))) \cup {x}
         /\ \A l \in Places : l # Ev(E!EventOf(x)) => Mem(l)' = Mem(l)
    <2>1. \A l \in Places : x \notin Mem(l)
      BY <1>2
    <2> QED
      BY <1>0, <1>2, <1>3, <1>12, <2>1, EventPush
  <1>14. \A u \in Threads : Mem(Th(u))' = Mem(Th(u)) /\ Th(u) \in Places
    BY <1>2, <1>13, EventPlaces
  <1>15. Listed'
    <2>1. ASSUME NEW f \in 1 .. N, NEW z \in E!Nodes
          PROVE  z \in Mem(Ev(f))' <=> node'[z] = "subscribed" /\ E!EventOf(z) = f
      <3>1. z \in Mem(Ev(f)) <=> node[z] = "subscribed" /\ E!EventOf(z) = f
        BY <1>0 DEF Listed
      <3>2. CASE f = E!EventOf(x)
        BY <1>9, <1>13, <3>1, <3>2
      <3>3. CASE f # E!EventOf(x)
        <4>1. Mem(Ev(f))' = Mem(Ev(f))
          BY <1>2, <1>13, <3>3, EventPlaces
        <4> QED
          BY <1>2, <1>9, <3>1, <3>3, <4>1, EventPlaces
      <3> QED
        BY <3>2, <3>3
    <2>2. ASSUME NEW u \in Threads, NEW z \in Mem(Th(u))' PROVE node'[z] = "popped"
      BY <1>0, <1>2, <1>9, <1>14, <2>2 DEF Listed
    <2>3. ASSUME NEW z \in E!Nodes, node'[z] = "popped" PROVE \E u \in Threads : z \in Mem(Th(u))'
      BY <1>0, <1>9, <1>14, <2>3 DEF Listed
    <2> QED
      BY <2>1, <2>2, <2>3 DEF Listed
  <1>16. ASSUME NEW u \in Threads, u # t PROVE cur[u] # x
    BY <1>0, <1>1, <1>2, <1>16 DEF ThreadsOK
  <1>17. ThreadsOK'
    <2>1. HandOK(t)'
      BY <1>5, <1>7, <1>9, <1>11 DEF HandOK, Calls
    <2>2. \A u \in Threads : u # t /\ cur[u] # Null => node'[cur[u]] = node[cur[u]]
      <3>1. \A u \in Threads : cur[u] # Null => cur[u] \in E!Nodes
        BY <1>0 DEF E!TypeOK
      <3> QED
        BY <1>9, <1>16, <3>1
    <2>3. \A u \in Threads : u # t /\ cur'[t] # Null => cur[u] # cur'[t]
      BY <1>5, <1>8, <1>9
    <2> QED
      BY <1>0, <1>3, <1>9, <2>1, <2>2, <2>3, EventThreadsKept
  <1>18. /\ \A u \in Threads, q \in 1 .. Rounds : u # t => Registers(u, q)' = Registers(u, q)
         /\ \A q \in 1 .. Rounds : Registers(t, q)' => more /\ q = x[2] /\ Registers(t, q)
    BY <1>5, <1>6, <1>9, <1>11 DEF Registers
  <1>19. \A c \in E!Cbs : node[c] = "none" => c \in E!Nodes /\ c # x /\ node'[c] = "none"
    BY <1>2, <1>9, EventNodeFacts
  <1>20. RoundsOK'
    <2>1. ASSUME NEW u \in Threads, NEW q \in 1 .. Rounds, NEW i \in 1 .. N, NEW j \in 1 .. N,
                 Registers(u, q)', cur'[u] = E!Cb(q, i), j > i
          PROVE  node'[E!Cb(q, j)] = "none"
      <3>1. E!Cb(q, j) \in E!Cbs /\ E!Cb(q, i)[3] = i
        BY EventNodeFacts
      <3>2. node[E!Cb(q, j)] = "none"
        <4>1. CASE u # t
          BY <1>0, <1>9, <1>18, <2>1, <4>1 DEF RoundsOK
        <4>2. CASE u = t
          <5>1. more /\ q = x[2] /\ Registers(t, q) /\ i = x[3] + 1
            BY <1>5, <1>9, <1>18, <2>1, <3>1, <4>2
          <5>2. x[3] \in 1 .. N /\ j > x[3] /\ cur[t] = E!Cb(q, x[3])
            BY <1>1, <1>4, <2>1, <5>1
          <5> QED
            BY <1>0, <5>1, <5>2 DEF RoundsOK
        <4> QED
          BY <4>1, <4>2
      <3> QED
        BY <1>19, <3>1, <3>2
    <2>2. \A u, v \in Threads, q \in 1 .. Rounds : Registers(u, q)' /\ Registers(v, q)' => u = v
      <3>1. \A u \in Threads, q \in 1 .. Rounds : Registers(u, q)' => Registers(u, q)
        BY <1>18
      <3> QED
        BY <1>0, <3>1 DEF RoundsOK
    <2>3. ASSUME NEW q \in 1 .. Rounds, awaiter'[q] = "none", NEW i \in 1 .. N
          PROVE  node'[E!Cb(q, i)] = "none" /\ \A u \in Threads : cur'[u] # E!Cb(q, i)
      <3>1. E!Cb(q, i) \in E!Cbs /\ E!Cb(q, i)[2] = q /\ E!Cb(q, i) # Null
        BY EventNodeFacts DEF EventsAssumption
      <3>2. node[E!Cb(q, i)] = "none" /\ \A u \in Threads : cur[u] # E!Cb(q, i)
        BY <1>0, <1>3, <2>3 DEF RoundsOK
      <3>3. cur'[t] # E!Cb(q, i)
        <4>1. SUFFICES ASSUME y = E!Cb(q, i) PROVE FALSE
          BY <1>9
        <4>2. more /\ x[2] = q
          BY <1>5, <3>1, <4>1
        <4>3. node[E!Cb(q, x[3])] = "none"
          BY <1>0, <1>3, <1>4, <2>3, <4>2 DEF RoundsOK
        <4> QED
          BY <1>2, <1>4, <4>2, <4>3
      <3> QED
        BY <1>9, <1>19, <3>1, <3>2, <3>3
    <2>4. \A q \in 1 .. Rounds : q < Rounds => (awaiter'[q] = "dead" <=> awaiter'[q + 1] # "none")
      BY <1>0, <1>3 DEF RoundsOK
    <2> QED
      BY <2>1, <2>2, <2>3, <2>4 DEF RoundsOK
  <1>21. ASSUME NEW c \in E!Cbs
         PROVE  HasCounted(c)' = HasCounted(c) /\ HasStored(c)' = HasStored(c) /\ (node'[c] = "run" <=> node[c] = "run")
    <2>1. c \in E!Nodes /\ c # Null
      BY EventNodeFacts DEF EventsAssumption
    <2>2. CASE c # x /\ c # y
      <3>1. node'[c] = node[c] /\ \A u \in Threads : (cur'[u] = c <=> cur[u] = c) /\ (cur[u] = c => epc'[u] = epc[u])
        BY <1>1, <1>9, <2>1, <2>2
      <3> QED
        BY <3>1 DEF HasCounted, HasStored
    <2>3. CASE c = x
      BY <1>2, <1>9, <2>3 DEF HasCounted, HasStored
    <2>4. CASE c = y
      <3>1. node[c] = "none" /\ node'[c] = "none"
        BY <1>5, <1>7, <1>19, <2>1, <2>4
      <3> QED
        BY <3>1 DEF HasCounted, HasStored
    <2> QED
      BY <2>2, <2>3, <2>4
  <1>22. CountsOK'
    <2>1. \A u \in Threads, r \in 1 .. Rounds : Chosen(u, r)' = Chosen(u, r)
      BY <1>2, <1>9, <1>11 DEF Chosen
    <2> QED
      BY <1>0, <1>3, <1>21, <2>1, EventCountsKept
  <1>23. InputsOK'
    <2>1. \A c \in E!Cbs : since'[c] <= fired
      <3>1. fired \in Nat
        BY <1>0 DEF E!TypeOK
      <3> QED
        BY <1>0, <1>9, <3>1 DEF InputsOK
    <2>2. ASSUME NEW u \in Threads, NEW c \in Mem(Th(u))', c \in E!Cbs PROVE val[u] > since'[c]
      BY <1>0, <1>2, <1>9, <1>14, <2>2 DEF InputsOK
    <2>3. ASSUME NEW u \in Threads, epc'[u] \in {"resume", "store"}, cur'[u] \in E!Cbs
          PROVE  value[cur'[u]] > since'[cur'[u]]
      <3>1. u # t
        BY <1>9, <1>11, <2>3
      <3> QED
        BY <1>0, <1>9, <1>16, <2>3, <3>1 DEF InputsOK
    <2>4. \A r \in 1 .. Rounds, i \in 1 .. N :
            node[E!Cb(r, i)] = "run" => since'[E!Cb(r, i)] = since[E!Cb(r, i)] /\ node'[E!Cb(r, i)] = "run"
      BY <1>2, <1>9, EventNodeFacts
    <2>5. ASSUME mode = "all", NEW r \in 1 .. Rounds, NEW i \in 1 .. N, HasStored(E!Cb(r, i))'
          PROVE  input[r][i] > since'[E!Cb(r, i)]
      <3>1. HasStored(E!Cb(r, i))
        BY <1>21, <2>5, EventNodeFacts
      <3>2. node[E!Cb(r, i)] = "run"
        BY <3>1 DEF HasStored
      <3> QED
        BY <1>0, <2>4, <2>5, <3>1, <3>2 DEF InputsOK
    <2>6. \A r \in 1 .. Rounds : Stored(r)' = Stored(r)
      BY <1>2, <1>3, <1>9, <1>11 DEF Stored
    <2>7. ASSUME mode = "any", NEW r \in 1 .. Rounds
          PROVE  /\ ~Stored(r)' => \A i \in 1 .. N : input[r][i] = 0
                 /\ Stored(r)' => \E i \in 1 .. N : /\ node'[E!Cb(r, i)] = "run"
                                                    /\ input[r][i] > since'[E!Cb(r, i)]
                                                    /\ \A j \in 1 .. N : j # i => input[r][j] = 0
      BY <1>0, <2>4, <2>6, <2>7 DEF InputsOK
    <2> QED
      BY <1>3, <2>1, <2>2, <2>3, <2>5, <2>7 DEF InputsOK
  <1> QED
    BY <1>12, <1>13, <1>15, <1>17, <1>20, <1>22, <1>23 DEF EventsInv

\* Nobody has subscribed, and the first round registers.
LEMMA EventsInit == ASSUME EventsAssumption PROVE E!Init => EventsInv
  <1> SUFFICES ASSUME E!Init PROVE EventsInv
    OBVIOUS
  <1>0. /\ N \in Nat \ {0} /\ Rounds \in Nat \ {0} /\ MaxNotify \in Nat /\ MaxAgain \in Nat /\ Starter \in Threads
        /\ 1 \in 1 .. N /\ 1 \in 1 .. Rounds /\ 0 \in 0 .. MaxNotify /\ 0 \in 0 .. N /\ 0 \in 0 .. MaxAgain
    BY DEF EventsAssumption, E!ConstantsAreSane
  <1>1. /\ mode \in Modes /\ fired = 0
        /\ etop = [e \in 1 .. N |-> Null] /\ enext = [x \in E!Nodes |-> Null]
        /\ node = [x \in E!Nodes |-> "none"] /\ value = [x \in E!Nodes |-> 0] /\ since = [x \in E!Cbs |-> 0]
        /\ again = [s \in Subs |-> 0]
        /\ awaiter = [r \in 1 .. Rounds |-> IF r = 1 THEN "alive" ELSE "none"]
        /\ count = [r \in 1 .. Rounds |-> 0] /\ resumes = [r \in 1 .. Rounds |-> 0]
        /\ input = [r \in 1 .. Rounds |-> [i \in 1 .. N |-> 0]]
        /\ epc = [t \in Threads |-> IF t = Starter THEN "register" ELSE "walk"]
        /\ cur = [t \in Threads |-> IF t = Starter THEN E!Cb(1, 1) ELSE Null]
        /\ erest = [t \in Threads |-> Null] /\ val = [t \in Threads |-> 0]
    BY DEF E!Init
  <1>2. E!Cb(1, 1) \in E!Cbs /\ E!Cb(1, 1) \in E!Nodes /\ E!Cb(1, 1) # Null /\ E!Cb(1, 1)[2] = 1
    BY <1>0, EventNodeFacts DEF EventsAssumption
  <1>3. E!TypeOK
    <2>1. etop \in [1 .. N -> E!Nodes \cup {Null}] /\ enext \in [E!Nodes -> E!Nodes \cup {Null}]
      BY <1>1
    <2>2. node \in [E!Nodes -> {"none", "pushing", "subscribed", "popped", "run"}]
      BY <1>1
    <2>3. value \in [E!Nodes -> 0 .. MaxNotify] /\ since \in [E!Cbs -> 0 .. MaxNotify] /\ again \in [Subs -> 0 .. MaxAgain]
      BY <1>0, <1>1
    <2>4. awaiter \in [1 .. Rounds -> {"none", "alive", "dead"}]
      BY <1>1
    <2>5. count \in [1 .. Rounds -> 0 .. N] /\ resumes \in [1 .. Rounds -> Nat]
      BY <1>0, <1>1
    <2>6. input \in [1 .. Rounds -> [1 .. N -> 0 .. MaxNotify]]
      BY <1>0, <1>1
    <2>7. epc \in [Threads -> {"walk", "register", "crashed", "load", "cas", "resume", "count", "store", "main"}]
      BY <1>1
    <2>8. cur \in [Threads -> E!Nodes \cup {Null}] /\ erest \in [Threads -> E!Nodes \cup {Null}]
      BY <1>1, <1>2
    <2>9. val \in [Threads -> 0 .. MaxNotify] /\ fired \in 0 .. MaxNotify /\ E!ConstantsAreSane
      BY <1>0, <1>1 DEF EventsAssumption
    <2> QED
      BY <1>1, <2>1, <2>2, <2>3, <2>4, <2>5, <2>6, <2>7, <2>8, <2>9 DEF E!TypeOK
  <1>4. /\ \A x \in E!Nodes : node[x] = "none"
        /\ \A t \in Threads : t # Starter => epc[t] = "walk" /\ cur[t] = Null
        /\ epc[Starter] = "register" /\ cur[Starter] = E!Cb(1, 1)
        /\ \A r \in 1 .. Rounds : /\ count[r] = 0 /\ resumes[r] = 0 /\ \A i \in 1 .. N : input[r][i] = 0
                                  /\ awaiter[r] = IF r = 1 THEN "alive" ELSE "none"
        /\ \A x \in E!Cbs : since[x] = 0
    BY <1>0, <1>1
  <1>5. Lists /\ \A l \in Places : Mem(l) = {}
    <2>1. /\ \A e \in 1 .. N : Heads[Ev(e)] = Null
          /\ \A t \in Threads : Heads[Th(t)] = Null
      <3>1. (\A e \in 1 .. N : etop[e] = Null) /\ \A t \in Threads : erest[t] = Null
        BY <1>1
      <3> QED
        BY <3>1, EventHeads
    <2>2. \A l \in Places : Heads[l] = Null
      BY <2>1, EventPlaces
    <2>3. Heads = [l \in Places |-> Null]
      <3>1. Heads = [l \in Places |-> Heads[l]]
        BY EventHeads
      <3> HIDE DEF Heads
      <3> QED
        BY <2>2, <3>1, Zenon
    <2> HIDE DEF Heads
    <2>4. LP!Separate(Places, Heads, enext) /\ \A l \in Places : LP!NodesOf(enext, Heads[l]) = {}
      BY <2>3, LP!SeparateEmpty, EventListsApply
    <2> QED
      BY <2>4 DEF Lists, Mem
  <1>6. Listed
    BY <1>4, <1>5, EventPlaces DEF Listed
  <1>7. ThreadsOK
    BY <1>0, <1>2, <1>4 DEF ThreadsOK, HandOK, Calls
  <1>8. RoundsOK
    <2>1. \A r \in 1 .. Rounds, i \in 1 .. N : node[E!Cb(r, i)] = "none"
      BY <1>4, EventNodeFacts
    <2>2. \A t \in Threads, r \in 1 .. Rounds : Registers(t, r) => t = Starter
      BY <1>4 DEF Registers
    <2>3. \A r \in 1 .. Rounds, i \in 1 .. N : r # 1 => \A t \in Threads : cur[t] # E!Cb(r, i)
      BY <1>0, <1>2, <1>4, EventNodeFacts DEF EventsAssumption
    <2>4. \A r \in 1 .. Rounds : r < Rounds => r + 1 \in 1 .. Rounds /\ r + 1 # 1
      BY <1>0
    <2> QED
      BY <1>4, <2>1, <2>2, <2>3, <2>4 DEF RoundsOK
  <1>9. \A x \in E!Cbs : ~HasCounted(x) /\ ~HasStored(x)
    BY <1>4, EventNodeFacts DEF HasCounted, HasStored
  <1>10. CountsOK
    <2>1. \A r \in 1 .. Rounds : Done(r) = {}
      BY <1>9, EventNodeFacts DEF Done
    <2>2. Cardinality({}) = 0
      BY FS_EmptySet
    <2>3. \A t \in Threads, r \in 1 .. Rounds : ~Chosen(t, r)
      BY <1>4 DEF Chosen
    <2> QED
      BY <1>4, <2>1, <2>2, <2>3 DEF CountsOK
  <1>11. InputsOK
    <2>1. \A r \in 1 .. Rounds : ~Stored(r)
      BY <1>4 DEF Stored
    <2>2. \A t \in Threads : epc[t] \notin {"resume", "store"} /\ Mem(Th(t)) = {}
      BY <1>4, <1>5, EventPlaces
    <2>3. \A r \in 1 .. Rounds, i \in 1 .. N : ~HasStored(E!Cb(r, i))
      BY <1>9, EventNodeFacts
    <2>4. \A x \in E!Cbs : since[x] <= fired
      BY <1>1, <1>4
    <2> QED
      BY <1>4, <2>1, <2>2, <2>3, <2>4 DEF InputsOK
  <1> QED
    BY <1>3, <1>5, <1>6, <1>7, <1>8, <1>10, <1>11 DEF EventsInv

\* The invariant holds: one lemma above for each action.
LEMMA EventsInvariance == ASSUME EventsAssumption PROVE E!Spec => []EventsInv
  <1>1. E!Init => EventsInv
    BY EventsInit
  <1>2. EventsInv /\ UNCHANGED E!vars => EventsInv'
    <2> SUFFICES ASSUME EventsInv, UNCHANGED E!vars PROVE EventsInv'
      OBVIOUS
    <2>1. UNCHANGED <<mode, etop, enext, node, value, since, again, awaiter, count, input, resumes,
                      epc, cur, erest, val, fired>>
      BY DEF E!vars
    <2>2. E!TypeOK'
      BY <2>1 DEF EventsInv, E!TypeOK, E!ConstantsAreSane
    <2>3. Lists' /\ Listed' /\ \A l \in Places : Mem(l)' = Mem(l)
      BY <2>1, EventListsKept DEF EventsInv
    <2>4. ThreadsOK' /\ RoundsOK' /\ CountsOK'
      BY <2>1 DEF EventsInv, ThreadsOK, HandOK, RoundsOK, Registers, CountsOK, Done, HasCounted, Chosen
    <2>5. InputsOK'
      <3>1. \A t \in Threads : Mem(Th(t))' = Mem(Th(t))
        BY <2>3, EventPlaces
      <3> QED
        BY <2>1, <3>1 DEF EventsInv, InputsOK, HasStored, Stored
    <2> QED
      BY <2>2, <2>3, <2>4, <2>5 DEF EventsInv
  <1>3. ASSUME EventsInv, NEW t \in Threads, E!ThreadStep(t) PROVE EventsInv'
    BY <1>3, EventsRegister, EventsDead, EventsPushLoad, EventsPushCas, EventsPushCasFails, EventsNotifyNode,
       EventsSubEnds, EventsSubAgain, EventsAllStore, EventsAllCount, EventsAnyCount, EventsAnyStore,
       EventsMainResumed DEF E!ThreadStep
  <1>4. EventsInv /\ E!Next => EventsInv'
    BY <1>3, EventsNotifyAll, EventsSubscribe DEF E!Next
  <1>5. EventsInv /\ [E!Next]_E!vars => EventsInv'
    BY <1>2, <1>4
  <1> QED
    BY <1>1, <1>5, PTL DEF E!Spec

\* A callback of when_all that has not counted: somebody still waits for it.
LEMMA EventAwaiterLives ==
  ASSUME EventsAssumption, EventsInv, mode = "all", NEW t \in Threads, cur[t] \in E!Cbs, ~HasCounted(cur[t])
  PROVE  awaiter[cur[t][2]] = "alive"
  <1>1. PICK r \in 1 .. Rounds, i \in 1 .. N : cur[t] = E!Cb(r, i) /\ cur[t][2] = r
    BY EventNodeFacts
  <1>2. i \notin Done(r) /\ Done(r) \in SUBSET (1 .. N)
    BY <1>1 DEF Done
  <1>3. Cardinality(Done(r)) # N
    <2>1. Cardinality(Done(r)) < N /\ Cardinality(Done(r)) \in 0 .. N /\ N \in Nat
      BY <1>2, EventSets
    <2> QED
      BY <2>1
  <1>4. awaiter[r] # "dead"
    BY <1>3 DEF EventsInv, CountsOK
  <1>5. awaiter[r] # "none"
    BY <1>1 DEF EventsInv, RoundsOK
  <1> QED
    BY <1>1, <1>4, <1>5 DEF EventsInv, E!TypeOK

\* The lock-free stacks of the events lose no subscriber and give none to two
\* callers of notify_all: a suspended coroutine is in the stack of its event or
\* in the list of the one notify_all that popped it, whatever the interleaving of
\* the loads and compare-exchanges of push with try_pop_all, also when a resumed
\* coroutine pushes a node at an address that another push still holds.
THEOREM SubscribersAreNotLost == ASSUME EventsAssumption PROVE E!Spec => []SubscriberIsInOneList
  <1>1. ASSUME EventsInv PROVE SubscriberIsInOneList
    <2> DEFINE stacks == {p \in {etop[e] : e \in 1 .. N} : p # Null}
               lists == {p \in {erest[t] : t \in Threads} : p # Null}
    <2>1. /\ \A e \in 1 .. N : Mem(Ev(e)) = E!NodesOf(enext, etop[e]) /\ (etop[e] = Null => Mem(Ev(e)) = {})
          /\ \A e \in 1 .. N : Mem(Ev(e)) \subseteq E!Nodes
      <3>1. \A e \in 1 .. N : Heads[Ev(e)] = etop[e] /\ Ev(e) \in Places
        BY EventHeads, EventPlaces
      <3> QED
        BY <1>1, <3>1, EventInPlace, EventOperators DEF Mem, EventsInv
    <2>2. /\ \A t \in Threads : Mem(Th(t)) = E!NodesOf(enext, erest[t]) /\ (erest[t] = Null => Mem(Th(t)) = {})
          /\ \A t \in Threads : Mem(Th(t)) \subseteq E!Nodes
      <3>1. \A t \in Threads : Heads[Th(t)] = erest[t] /\ Th(t) \in Places
        BY EventHeads, EventPlaces
      <3> QED
        BY <1>1, <3>1, EventInPlace, EventOperators DEF Mem, EventsInv
    <2>3. Listed /\ E!TypeOK /\ Lists
      BY <1>1 DEF EventsInv
    <2>4. UNION {E!NodesOf(enext, p) : p \in stacks} = {x \in E!Nodes : node[x] = "subscribed"}
      <3>1. ASSUME NEW p \in stacks, NEW x \in E!NodesOf(enext, p) PROVE x \in E!Nodes /\ node[x] = "subscribed"
        <4>1. PICK e \in 1 .. N : p = etop[e]
          BY <3>1
        <4> QED
          BY <2>1, <2>3, <3>1, <4>1 DEF Listed
      <3>2. ASSUME NEW x \in E!Nodes, node[x] = "subscribed" PROVE \E p \in stacks : x \in E!NodesOf(enext, p)
        <4>1. E!EventOf(x) \in 1 .. N
          BY <3>2, EventNodeFacts, EventSets
        <4>2. x \in Mem(Ev(E!EventOf(x)))
          BY <2>3, <3>2, <4>1 DEF Listed
        <4>3. etop[E!EventOf(x)] \in stacks
          BY <2>1, <4>1, <4>2
        <4> QED
          BY <2>1, <4>1, <4>2, <4>3
      <3> HIDE DEF stacks
      <3> QED
        BY <3>1, <3>2
    <2>5. UNION {E!NodesOf(enext, p) : p \in lists} = {x \in E!Nodes : node[x] = "popped"}
      <3>1. ASSUME NEW p \in lists, NEW x \in E!NodesOf(enext, p) PROVE x \in E!Nodes /\ node[x] = "popped"
        <4>1. PICK t \in Threads : p = erest[t]
          BY <3>1
        <4> QED
          BY <2>2, <2>3, <3>1, <4>1 DEF Listed
      <3>2. ASSUME NEW x \in E!Nodes, node[x] = "popped" PROVE \E p \in lists : x \in E!NodesOf(enext, p)
        <4>1. PICK t \in Threads : x \in Mem(Th(t))
          BY <2>3, <3>2 DEF Listed
        <4>2. erest[t] \in lists
          BY <2>2, <4>1
        <4> QED
          BY <2>2, <4>1, <4>2
      <3> HIDE DEF lists
      <3> QED
        BY <3>1, <3>2
    <2>6. \A t, u \in Threads : t # u => E!NodesOf(enext, erest[t]) \cap E!NodesOf(enext, erest[u]) = {}
      <3>1. ASSUME NEW t \in Threads, NEW u \in Threads, t # u PROVE Mem(Th(t)) \cap Mem(Th(u)) = {}
        <4>1. Th(t) \in Places /\ Th(u) \in Places /\ Th(t) # Th(u)
          BY <3>1, EventPlaces
        <4> QED
          BY <2>3, <4>1, EventInPlace
      <3> QED
        BY <2>2, <3>1
    <2> QED
      BY <2>4, <2>5, <2>6 DEF SubscriberIsInOneList, E!SubscriberIsInOneList
  <1> QED
    BY <1>1, EventsInvariance, PTL

\* when_all and when_any of events resume main once per await, with inputs of
\* notifications made after main had subscribed: from all events, or from one,
\* however many events, threads, notifications and awaits there are, and although
\* callbacks of an earlier when_any may still be subscribed.
THEOREM MainIsResumedOnce == ASSUME EventsAssumption PROVE E!Spec => []MainGetsFreshInputs
  <1>1. ASSUME EventsInv PROVE MainGetsFreshInputs
    <2> SUFFICES ASSUME NEW r \in 1 .. Rounds
                 PROVE  /\ resumes[r] <= 1
                        /\ resumes[r] = 1 =>
                             LET got == {i \in 1 .. N : input[r][i] > since[E!Cb(r, i)]}
                             IN IF mode = "all" THEN got = 1 .. N
                                ELSE Cardinality(got) = 1 /\ \A i \in (1 .. N) \ got : input[r][i] = 0
      BY DEF MainGetsFreshInputs, E!MainGetsFreshInputs, E!Cardinality, Cardinality
    <2> DEFINE got == {i \in 1 .. N : input[r][i] > since[E!Cb(r, i)]}
    <2>1. resumes[r] = IF awaiter[r] = "dead" THEN 1 ELSE 0
      BY <1>1 DEF EventsInv, CountsOK
    <2>2. mode \in {"all", "any"}
      BY <1>1 DEF EventsInv, E!TypeOK, E!ConstantsAreSane
    <2>3. ASSUME awaiter[r] = "dead", mode = "all" PROVE got = 1 .. N
      <3>1. Done(r) \in SUBSET (1 .. N) /\ Cardinality(Done(r)) = N
        BY <1>1, <2>3 DEF EventsInv, CountsOK, Done
      <3>2. Done(r) = 1 .. N
        BY <3>1, EventSets
      <3>3. \A i \in 1 .. N : HasCounted(E!Cb(r, i))
        BY <3>2 DEF Done
      <3>4. \A i \in 1 .. N : HasStored(E!Cb(r, i))
        BY <3>3 DEF HasCounted, HasStored
      <3> QED
        BY <1>1, <2>3, <3>4 DEF EventsInv, InputsOK
    <2>4. ASSUME awaiter[r] = "dead", mode = "any"
          PROVE  Cardinality(got) = 1 /\ \A i \in (1 .. N) \ got : input[r][i] = 0
      <3>1. Stored(r)
        BY <2>4 DEF Stored
      <3>2. PICK i \in 1 .. N : input[r][i] > since[E!Cb(r, i)] /\ \A j \in 1 .. N : j # i => input[r][j] = 0
        BY <1>1, <2>4, <3>1 DEF EventsInv, InputsOK
      <3>3. \A j \in 1 .. N : since[E!Cb(r, j)] \in Nat
        BY <1>1, EventNodeFacts DEF EventsInv, E!TypeOK
      <3>4. got = {i}
        BY <3>2, <3>3
      <3>5. Cardinality({i}) = 1
        BY FS_Singleton
      <3> QED
        BY <3>2, <3>4, <3>5
    <2> HIDE DEF got
    <2>5. resumes[r] <= 1
      BY <2>1
    <2>6. resumes[r] = 1 => IF mode = "all" THEN got = 1 .. N
                            ELSE Cardinality(got) = 1 /\ \A i \in (1 .. N) \ got : input[r][i] = 0
      BY <2>1, <2>2, <2>3, <2>4
    <2> QED
      BY <2>5, <2>6 DEF got
  <1> QED
    BY <1>1, EventsInvariance, PTL

\* No callback uses an awaiter that has died: not those of when_any that run when
\* main is long gone, and none of when_all, not even its registration, since main
\* waits for every one of them; with the types of the state.
THEOREM AwaiterOutlivesCallbacks == ASSUME EventsAssumption PROVE E!Spec => []LiveAwaiterOnly
  <1>1. ASSUME EventsInv PROVE LiveAwaiterOnly
    <2>1. ASSUME NEW t \in Threads, mode = "all", epc[t] \in {"resume", "count"}, cur[t][1] = "cb"
          PROVE  awaiter[cur[t][2]] = "alive"
      <3>1. cur[t] \in E!Nodes
        BY <1>1, <2>1, EventInHand
      <3>2. cur[t] \in E!Cbs
        BY <2>1, <3>1, EventNodeFacts
      <3>3. ~HasCounted(cur[t])
        BY <2>1 DEF HasCounted
      <3> QED
        BY <1>1, <2>1, <3>2, <3>3, EventAwaiterLives
    <2>2. ASSUME NEW t \in Threads, mode = "all", epc[t] = "register" PROVE awaiter[cur[t][2]] = "alive"
      <3>1. cur[t] \in E!Cbs /\ node[cur[t]] = "none"
        BY <1>1, <2>2 DEF EventsInv, ThreadsOK, HandOK
      <3>2. ~HasCounted(cur[t])
        BY <3>1 DEF HasCounted
      <3> QED
        BY <1>1, <2>2, <3>1, <3>2, EventAwaiterLives
    <2>3. ASSUME NEW t \in Threads, epc[t] = "store" PROVE awaiter[cur[t][2]] = "alive"
      <3>1. cur[t] \in E!Cbs
        BY <1>1, <2>3 DEF EventsInv, ThreadsOK, HandOK, Calls
      <3>2. PICK r \in 1 .. Rounds : r = cur[t][2]
        BY <3>1, EventNodeFacts
      <3>3. Chosen(t, r)
        BY <2>3, <3>2 DEF Chosen
      <3> QED
        BY <1>1, <3>2, <3>3 DEF EventsInv, CountsOK
    <2>4. \A t \in Threads : epc[t] = "count" => mode = "all"
      BY <1>1 DEF EventsInv, ThreadsOK, HandOK
    <2>5. E!CallbacksTouchLiveAwaiter
      BY <2>1, <2>3, <2>4 DEF E!CallbacksTouchLiveAwaiter
    <2>6. E!AllRegistrationReadsLiveAwaiter
      BY <2>2 DEF E!AllRegistrationReadsLiveAwaiter, E!RegistrationReadsLiveAwaiter
    <2> QED
      BY <1>1, <2>5, <2>6 DEF EventsInv, LiveAwaiterOnly, E!LiveAwaiterOnly
  <1> QED
    BY <1>1, EventsInvariance, PTL
-----------------------------------------------------------------------------
\* What is on the stacks of the threads, or in their queues, and that it is there
\* once.
Occurs(f, x) == \E t \in Threads : \E i \in 1 .. Len(f[t]) : f[t][i] = x
OccursOnce(f) ==
  \A t, u \in Threads : \A i \in 1 .. Len(f[t]), j \in 1 .. Len(f[u]) :
    f[t][i] = f[u][j] => t = u /\ i = j

\* Only the stack or the queue of thread t changes, to s.
Becomes(f, g, t, s) == g = [f EXCEPT ![t] = s]

\* Where a task and the async_task around it are: with one caller of get(), in
\* one of Calling, and with one thread that executes it, or in a queue.  The
\* reference count says how many of the two have not given up, and the frame
\* has been destroyed when there is none.
Calling(k)   == {w \in {"wait", "drop", "take"} : Occurs(stack, <<w, k>>)}
Executing(k) == {w \in {"run", "final", "release"} : Occurs(stack, <<w, k>>)}
GetLife(k) ==
  /\ Occurs(queue, k) => stage[k] = "started" /\ Executing(k) = {}
  /\ stage[k] = "new" => Calling(k) = {} /\ Executing(k) = {} /\ grefs[k] = 0
  /\ stage[k] = "started" => /\ Calling(k) = {"wait"} /\ grefs[k] = 2
                             /\ Occurs(queue, k) \/ Executing(k) = {"run"}
  /\ stage[k] = "done" => /\ outcome[k] # "EMPTY"
                          /\ Calling(k) \in {{"wait"}, {"drop"}, {"take"}}
                          /\ Executing(k) \in {{"final"}, {"release"}, {}}
  /\ stage[k] = "destroyed" => Calling(k) = {} /\ Executing(k) \in {{"release"}, {}}
  /\ gready[k] <=> stage[k] \in {"done", "destroyed"} /\ Executing(k) # {"final"}
  /\ Calling(k) \in {{"drop"}, {"take"}} => gready[k]
  /\ stage[k] \in {"done", "destroyed"} =>
       grefs[k] = (IF Executing(k) # {} THEN 1 ELSE 0) + (IF Calling(k) \in {{"wait"}, {"drop"}} THEN 1 ELSE 0)
  /\ gfrees[k] = IF stage[k] \in {"done", "destroyed"} /\ grefs[k] = 0 THEN 1 ELSE 0

\* The inductive invariant.
GetInv ==
  /\ G!TypeOK /\ OccursOnce(stack) /\ OccursOnce(queue)
  /\ \A k \in GetTasks : GetLife(k)

\* Replacing the innermost frame of a stack, and leaving it.
LEMMA FrontOfStack ==
  ASSUME NEW S, NEW s \in Seq(S), s # <<>>
  PROVE  /\ Len(s) \in Nat \ {0} /\ G!Last(s) = s[Len(s)] /\ G!Last(s) \in S
         /\ G!Front(s) \in Seq(S) /\ Len(G!Front(s)) = Len(s) - 1
         /\ \A i \in 1 .. Len(s) - 1 : G!Front(s)[i] = s[i]
  <1>1. Len(s) \in Nat \ {0} /\ G!Last(s) = s[Len(s)] /\ G!Last(s) \in S
    BY DEF G!Last
  <1>2. G!Front(s) = SubSeq(s, 1, Len(s) - 1)
    BY DEF G!Front
  <1>3. /\ SubSeq(s, 1, Len(s) - 1) \in Seq(S) /\ Len(SubSeq(s, 1, Len(s) - 1)) = Len(s) - 1
        /\ \A i \in 1 .. Len(s) - 1 : SubSeq(s, 1, Len(s) - 1)[i] = s[i]
    <2>1. PICK m \in Nat : m = Len(s) - 1
      BY <1>1
    <2>2. 1 \in Int /\ m \in Int /\ \A i \in 1 .. m : s[i] \in S
      BY <1>1, <2>1
    <2>3. /\ SubSeq(s, 1, m) \in Seq(S)
          /\ Len(SubSeq(s, 1, m)) = IF 1 <= m THEN m - 1 + 1 ELSE 0
          /\ \A i \in 1 .. m - 1 + 1 : SubSeq(s, 1, m)[i] = s[1 + i - 1]
      BY ONLY <2>2, SubSeqProperties
    <2>4. /\ (IF 1 <= m THEN m - 1 + 1 ELSE 0) = m
          /\ \A i \in 1 .. m : i \in 1 .. m - 1 + 1 /\ 1 + i - 1 = i
      OBVIOUS
    <2> QED
      BY <2>1, <2>3, <2>4
  <1> QED
    BY <1>1, <1>2, <1>3

\* One more is written at the end.
LEMMA OccursAppended ==
  ASSUME NEW S, NEW f \in [Threads -> Seq(S)], OccursOnce(f), NEW t \in Threads, NEW e \in S,
         ~Occurs(f, e), NEW g, Becomes(f, g, t, Append(f[t], e))
  PROVE  /\ g \in [Threads -> Seq(S)] /\ OccursOnce(g)
         /\ \A x : Occurs(g, x) <=> Occurs(f, x) \/ x = e
  <1> DEFINE s == f[t]
             p == Append(s, e)
  <1>1. s \in Seq(S) /\ Len(s) \in Nat
    OBVIOUS
  <1>2. p \in Seq(S) /\ Len(p) = Len(s) + 1 /\ p[Len(s) + 1] = e /\ \A i \in 1 .. Len(s) : p[i] = s[i]
    BY <1>1
  <1>3. g \in [Threads -> Seq(S)] /\ g[t] = p /\ \A u \in Threads : u # t => g[u] = f[u]
    BY <1>2 DEF Becomes
  <1> HIDE DEF p
  <1>4. \A i \in 1 .. Len(p) : i \in 1 .. Len(s) \/ i = Len(s) + 1
    BY <1>1, <1>2
  <1>5. Len(s) + 1 \in 1 .. Len(p) /\ \A i \in 1 .. Len(s) : i \in 1 .. Len(p)
    BY <1>1, <1>2
  <1>6. \A i \in 1 .. Len(p) : p[i] = e => i = Len(s) + 1
    BY <1>2, <1>4 DEF Occurs
  <1>7. \A u \in Threads : \A i \in 1 .. Len(g[u]) : (u = t /\ i = Len(s) + 1) \/ (i \in 1 .. Len(f[u]) /\ g[u][i] = f[u][i])
    BY <1>2, <1>3, <1>4
  <1>8. \A u \in Threads : \A i \in 1 .. Len(f[u]) : i \in 1 .. Len(g[u]) /\ g[u][i] = f[u][i]
    BY <1>2, <1>3, <1>5
  <1>9. g[t][Len(s) + 1] = e /\ Len(s) + 1 \in 1 .. Len(g[t])
    BY <1>2, <1>3, <1>5
  <1> HIDE DEF s
  <1>10. OccursOnce(g)
    <2> SUFFICES ASSUME NEW u \in Threads, NEW v \in Threads, NEW i \in 1 .. Len(g[u]), NEW j \in 1 .. Len(g[v]),
                        g[u][i] = g[v][j]
                 PROVE  u = v /\ i = j
      BY DEF OccursOnce
    <2>1. CASE i \in 1 .. Len(f[u]) /\ g[u][i] = f[u][i] /\ j \in 1 .. Len(f[v]) /\ g[v][j] = f[v][j]
      <3>1. f[u][i] = f[v][j]
        BY <2>1
      <3> QED
        BY <2>1, <3>1 DEF OccursOnce
    <2>2. \A v1 \in Threads : \A i1 \in 1 .. Len(f[v1]) : f[v1][i1] # e
      BY DEF Occurs
    <2> QED
      BY <1>7, <1>9, <2>1, <2>2
  <1>11. \A x : Occurs(g, x) <=> Occurs(f, x) \/ x = e
    BY ONLY t \in Threads, <1>7, <1>8, <1>9 DEF Occurs
  <1> QED
    BY <1>3, <1>10, <1>11

\* The innermost frame returns.
LEMMA OccursPopped ==
  ASSUME NEW S, NEW f \in [Threads -> Seq(S)], OccursOnce(f), NEW t \in Threads, f[t] # <<>>,
         NEW g, Becomes(f, g, t, G!Front(f[t]))
  PROVE  /\ g \in [Threads -> Seq(S)] /\ OccursOnce(g)
         /\ \A x : Occurs(g, x) <=> Occurs(f, x) /\ x # G!Last(f[t])
  <1> DEFINE s == f[t]
             p == G!Front(s)
             m == Len(s)
  <1>1. s \in Seq(S) /\ s # <<>>
    OBVIOUS
  <1>2. /\ m \in Nat \ {0} /\ G!Last(s) = s[m] /\ p \in Seq(S) /\ Len(p) = m - 1
        /\ \A i \in 1 .. m - 1 : p[i] = s[i]
    BY <1>1, FrontOfStack
  <1>3. g \in [Threads -> Seq(S)] /\ g[t] = p /\ \A u \in Threads : u # t => g[u] = f[u]
    BY <1>2 DEF Becomes
  <1> HIDE DEF p
  <1>4. \A u \in Threads : \A i \in 1 .. Len(g[u]) : i \in 1 .. Len(f[u]) /\ g[u][i] = f[u][i] /\ ~(u = t /\ i = m)
    BY <1>2, <1>3
  <1>5. \A u \in Threads : \A i \in 1 .. Len(f[u]) : (u = t /\ i = m) \/ (i \in 1 .. Len(g[u]) /\ g[u][i] = f[u][i])
    BY <1>2, <1>3
  <1>6. f[t][m] = G!Last(f[t]) /\ m \in 1 .. Len(f[t])
    BY <1>2
  <1> HIDE DEF m, s
  <1>7. OccursOnce(g)
    <2> SUFFICES ASSUME NEW u \in Threads, NEW v \in Threads, NEW i \in 1 .. Len(g[u]), NEW j \in 1 .. Len(g[v]),
                        g[u][i] = g[v][j]
                 PROVE  u = v /\ i = j
      BY DEF OccursOnce
    <2>1. i \in 1 .. Len(f[u]) /\ j \in 1 .. Len(f[v]) /\ f[u][i] = f[v][j]
      BY <1>4
    <2> QED
      BY <2>1 DEF OccursOnce
  <1>8. \A x : Occurs(g, x) <=> Occurs(f, x) /\ x # G!Last(f[t])
    <2>1. ASSUME NEW x, Occurs(g, x) PROVE Occurs(f, x) /\ x # G!Last(f[t])
      <3>0. PICK u \in Threads : \E i \in 1 .. Len(g[u]) : g[u][i] = x
        BY <2>1 DEF Occurs
      <3>1. PICK i \in 1 .. Len(g[u]) : g[u][i] = x
        BY <3>0
      <3>2. i \in 1 .. Len(f[u]) /\ f[u][i] = x /\ ~(u = t /\ i = m)
        BY <1>4, <3>1
      <3>3. x # f[t][m]
        BY <1>6, <3>2 DEF OccursOnce
      <3> QED
        BY <1>6, <3>2, <3>3 DEF Occurs
    <2>2. ASSUME NEW x, Occurs(f, x), x # G!Last(f[t]) PROVE Occurs(g, x)
      <3>0. PICK u \in Threads : \E i \in 1 .. Len(f[u]) : f[u][i] = x
        BY <2>2 DEF Occurs
      <3>1. PICK i \in 1 .. Len(f[u]) : f[u][i] = x
        BY <3>0
      <3>2. i \in 1 .. Len(g[u]) /\ g[u][i] = x
        BY <1>5, <1>6, <2>2, <3>1
      <3> QED
        BY <3>2 DEF Occurs
    <2> QED
      BY <2>1, <2>2
  <1> QED
    BY <1>3, <1>7, <1>8

\* The first of a queue is taken.
LEMMA OccursTail ==
  ASSUME NEW S, NEW f \in [Threads -> Seq(S)], OccursOnce(f), NEW t \in Threads, f[t] # <<>>,
         NEW g, Becomes(f, g, t, Tail(f[t]))
  PROVE  /\ g \in [Threads -> Seq(S)] /\ OccursOnce(g) /\ Occurs(f, Head(f[t])) /\ Head(f[t]) \in S
         /\ \A x : Occurs(g, x) <=> Occurs(f, x) /\ x # Head(f[t])
  <1> DEFINE s == f[t]
             p == Tail(s)
             m == Len(s)
  <1>1. s \in Seq(S) /\ s # <<>> /\ m \in Nat \ {0}
    OBVIOUS
  <1>2. /\ Head(s) = s[1] /\ Head(s) \in S /\ p \in Seq(S) /\ Len(p) = m - 1
        /\ \A i \in 1 .. m - 1 : p[i] = s[i + 1]
    BY <1>1
  <1>3. g \in [Threads -> Seq(S)] /\ g[t] = p /\ \A u \in Threads : u # t => g[u] = f[u]
    BY <1>2 DEF Becomes
  <1> HIDE DEF p
  <1> DEFINE old(u, i) == IF u = t THEN i + 1 ELSE i
  <1>4. \A u \in Threads : \A i \in 1 .. Len(g[u]) :
          old(u, i) \in 1 .. Len(f[u]) /\ g[u][i] = f[u][old(u, i)] /\ ~(u = t /\ old(u, i) = 1)
    BY <1>1, <1>2, <1>3
  <1>5. \A u \in Threads : \A i \in 1 .. Len(f[u]) :
          (u = t /\ i = 1) \/ \E j \in 1 .. Len(g[u]) : g[u][j] = f[u][i]
    <2> SUFFICES ASSUME NEW u \in Threads, NEW i \in 1 .. Len(f[u]), ~(u = t /\ i = 1)
                 PROVE  \E j \in 1 .. Len(g[u]) : g[u][j] = f[u][i]
      OBVIOUS
    <2>1. CASE u # t
      BY <1>3, <2>1
    <2>2. CASE u = t
      <3>1. i - 1 \in 1 .. Len(g[u]) /\ g[u][i - 1] = f[u][i]
        BY <1>1, <1>2, <1>3, <2>2
      <3> QED
        BY <3>1
    <2> QED
      BY <2>1, <2>2
  <1>6. f[t][1] = Head(f[t]) /\ 1 \in 1 .. Len(f[t]) /\ Head(f[t]) \in S
    BY <1>1, <1>2
  <1>7. \A u \in Threads : \A i, j \in 1 .. Len(g[u]) : old(u, i) = old(u, j) => i = j
    BY <1>3
  <1> HIDE DEF m, s, old
  <1>8. OccursOnce(g)
    <2> SUFFICES ASSUME NEW u \in Threads, NEW v \in Threads, NEW i \in 1 .. Len(g[u]), NEW j \in 1 .. Len(g[v]),
                        g[u][i] = g[v][j]
                 PROVE  u = v /\ i = j
      BY DEF OccursOnce
    <2>1. old(u, i) \in 1 .. Len(f[u]) /\ old(v, j) \in 1 .. Len(f[v]) /\ f[u][old(u, i)] = f[v][old(v, j)]
      BY <1>4
    <2>2. u = v /\ old(u, i) = old(v, j)
      BY <2>1 DEF OccursOnce
    <2> QED
      BY <1>7, <2>2
  <1>9. \A x : Occurs(g, x) <=> Occurs(f, x) /\ x # Head(f[t])
    <2>1. ASSUME NEW x, Occurs(g, x) PROVE Occurs(f, x) /\ x # Head(f[t])
      <3>0. PICK u \in Threads : \E i \in 1 .. Len(g[u]) : g[u][i] = x
        BY <2>1 DEF Occurs
      <3>1. PICK i \in 1 .. Len(g[u]) : g[u][i] = x
        BY <3>0
      <3>2. old(u, i) \in 1 .. Len(f[u]) /\ f[u][old(u, i)] = x /\ ~(u = t /\ old(u, i) = 1)
        BY <1>4, <3>1
      <3>3. x # f[t][1]
        BY <1>6, <3>2 DEF OccursOnce
      <3> QED
        BY <1>6, <3>2, <3>3 DEF Occurs
    <2>2. ASSUME NEW x, Occurs(f, x), x # Head(f[t]) PROVE Occurs(g, x)
      <3>0. PICK u \in Threads : \E i \in 1 .. Len(f[u]) : f[u][i] = x
        BY <2>2 DEF Occurs
      <3>1. PICK i \in 1 .. Len(f[u]) : f[u][i] = x
        BY <3>0
      <3>2. \E j \in 1 .. Len(g[u]) : g[u][j] = x
        BY <1>5, <1>6, <2>2, <3>1
      <3> QED
        BY <3>2 DEF Occurs
    <2> QED
      BY <2>1, <2>2
  <1>10. Occurs(f, Head(f[t]))
    BY <1>6 DEF Occurs
  <1> QED
    BY <1>3, <1>6, <1>8, <1>9, <1>10

\* The innermost frame goes on with something else.
LEMMA OccursReplaced ==
  ASSUME NEW S, NEW f \in [Threads -> Seq(S)], OccursOnce(f), NEW t \in Threads, f[t] # <<>>, NEW e \in S,
         ~Occurs(f, e), NEW g, Becomes(f, g, t, Append(G!Front(f[t]), e))
  PROVE  /\ g \in [Threads -> Seq(S)] /\ OccursOnce(g)
         /\ \A x : Occurs(g, x) <=> (Occurs(f, x) /\ x # G!Last(f[t])) \/ x = e
  <1> DEFINE h == [f EXCEPT ![t] = G!Front(f[t])]
  <1>1. Becomes(h, g, t, Append(h[t], e))
    BY DEF Becomes
  <1>2. Becomes(f, h, t, G!Front(f[t]))
    BY DEF Becomes
  <1> HIDE DEF h
  <1>3. /\ h \in [Threads -> Seq(S)] /\ OccursOnce(h)
        /\ \A x : Occurs(h, x) <=> Occurs(f, x) /\ x # G!Last(f[t])
    BY <1>2, OccursPopped
  <1>4. ~Occurs(h, e)
    BY <1>3
  <1>5. /\ g \in [Threads -> Seq(S)] /\ OccursOnce(g)
        /\ \A x : Occurs(g, x) <=> Occurs(h, x) \/ x = e
    BY ONLY <1>1, <1>3, <1>4, t \in Threads, e \in S, OccursAppended
  <1> QED
    BY <1>3, <1>5

Activities == {"wait", "run", "final", "release", "drop", "take"}
GetFrames  == Activities \X GetTasks

\* A task that a step does not touch.
LEMMA GetOthers ==
  ASSUME NEW c, GetLife(c),
         \A w : Occurs(stack, <<w, c>>)' <=> Occurs(stack, <<w, c>>),
         Occurs(queue, c)' <=> Occurs(queue, c),
         stage'[c] = stage[c], outcome'[c] = outcome[c], gready'[c] = gready[c],
         grefs'[c] = grefs[c], gfrees'[c] = gfrees[c]
  PROVE  GetLife(c)'
  <1>1. Calling(c)' = Calling(c) /\ Executing(c)' = Executing(c)
    BY DEF Calling, Executing
  <1> QED
    BY <1>1 DEF GetLife

\* The innermost frame of a thread's stack is there, once.
LEMMA GetDoes ==
  ASSUME GetInv, NEW t \in Threads, NEW w, NEW k, G!Does(t, w, k)
  PROVE  /\ stack \in [Threads -> Seq(GetFrames)] /\ stack[t] # <<>>
         /\ G!Last(stack[t]) = <<w, k>> /\ Occurs(stack, <<w, k>>)
  <1>1. stack \in [Threads -> Seq(GetFrames)]
    BY DEF GetInv, G!TypeOK, GetFrames, Activities
  <1>2. stack[t] # <<>> /\ G!Last(stack[t]) = <<w, k>>
    BY DEF G!Does
  <1>3. stack[t] \in Seq(GetFrames)
    BY <1>1
  <1>4. Len(stack[t]) \in Nat \ {0} /\ stack[t][Len(stack[t])] = <<w, k>>
    BY <1>2, <1>3, FrontOfStack
  <1>5. Occurs(stack, <<w, k>>)
    BY <1>4 DEF Occurs
  <1> QED
    BY <1>1, <1>2, <1>5

\* The same for the stack of thread t, in the words of the model.
LEMMA GetReplaces ==
  ASSUME GetInv, NEW t \in Threads, NEW k \in GetTasks, NEW w, NEW v \in Activities,
         G!Does(t, w, k), G!InsteadDo(t, v, k), ~Occurs(stack, <<v, k>>)
  PROVE  /\ stack' \in [Threads -> Seq(GetFrames)] /\ OccursOnce(stack)'
         /\ \A a, c : Occurs(stack, <<a, c>>)' <=>
              (Occurs(stack, <<a, c>>) /\ ~(a = w /\ c = k)) \/ (a = v /\ c = k)
  <1>1. /\ stack \in [Threads -> Seq(GetFrames)] /\ stack[t] # <<>>
        /\ G!Last(stack[t]) = <<w, k>> /\ OccursOnce(stack)
    BY GetDoes DEF GetInv
  <1>2. PICK e \in GetFrames : e = <<v, k>>
    BY DEF GetFrames
  <1>3. Becomes(stack, stack', t, Append(G!Front(stack[t]), e)) /\ ~Occurs(stack, e)
    BY <1>2 DEF G!InsteadDo, Becomes
  <1>4. /\ stack' \in [Threads -> Seq(GetFrames)] /\ OccursOnce(stack')
        /\ \A x : Occurs(stack', x) <=> (Occurs(stack, x) /\ x # G!Last(stack[t])) \/ x = e
    BY ONLY t \in Threads, <1>1, e \in GetFrames, <1>3, OccursReplaced
  <1>5. \A a, c : (<<a, c>> = <<w, k>> <=> a = w /\ c = k) /\ (<<a, c>> = <<v, k>> <=> a = v /\ c = k)
    OBVIOUS
  <1> QED
    BY <1>1, <1>2, <1>4, <1>5

\* The innermost frame of thread t, which is w of task k, returns.
LEMMA GetPops ==
  ASSUME GetInv, NEW t \in Threads, NEW k, NEW w, G!Does(t, w, k), G!Pop(t)
  PROVE  /\ stack' \in [Threads -> Seq(GetFrames)] /\ OccursOnce(stack)'
         /\ \A a, c : Occurs(stack, <<a, c>>)' <=> Occurs(stack, <<a, c>>) /\ ~(a = w /\ c = k)
  <1>1. /\ stack \in [Threads -> Seq(GetFrames)] /\ stack[t] # <<>>
        /\ G!Last(stack[t]) = <<w, k>> /\ OccursOnce(stack)
    BY GetDoes DEF GetInv
  <1>2. Becomes(stack, stack', t, G!Front(stack[t]))
    BY DEF G!Pop, Becomes
  <1>3. /\ stack' \in [Threads -> Seq(GetFrames)] /\ OccursOnce(stack')
        /\ \A x : Occurs(stack', x) <=> Occurs(stack, x) /\ x # G!Last(stack[t])
    BY ONLY t \in Threads, <1>1, <1>2, OccursPopped
  <1>4. \A a, c : <<a, c>> = <<w, k>> <=> a = w /\ c = k
    OBVIOUS
  <1> QED
    BY <1>1, <1>3, <1>4

\* What the state of a task says about a thread that executes it.
LEMMA GetStages ==
  ASSUME GetInv, NEW k \in GetTasks
  PROVE  /\ GetLife(k) /\ stage[k] \in {"new", "started", "done", "destroyed"}
         /\ Occurs(stack, <<"run", k>>) => stage[k] = "started" /\ Executing(k) = {"run"} /\ Calling(k) = {"wait"}
                                             /\ ~Occurs(queue, k)
         /\ Occurs(stack, <<"final", k>>) => stage[k] = "done" /\ Executing(k) = {"final"} /\ Calling(k) = {"wait"}
         /\ Occurs(stack, <<"release", k>>) => stage[k] \in {"done", "destroyed"} /\ Executing(k) = {"release"}
         /\ Occurs(stack, <<"wait", k>>) => Calling(k) = {"wait"}
         /\ Occurs(stack, <<"drop", k>>) => Calling(k) = {"drop"} /\ stage[k] = "done" /\ Executing(k) # {"final"}
         /\ Occurs(stack, <<"take", k>>) => Calling(k) = {"take"} /\ stage[k] = "done" /\ Executing(k) # {"final"}
  <1>1. GetLife(k) /\ stage[k] \in {"new", "started", "done", "destroyed"} /\ gready[k] \in BOOLEAN
    BY DEF GetInv, G!TypeOK
  <1>2. /\ Occurs(stack, <<"run", k>>) => "run" \in Executing(k)
        /\ Occurs(stack, <<"final", k>>) => "final" \in Executing(k)
        /\ Occurs(stack, <<"release", k>>) => "release" \in Executing(k)
        /\ Occurs(stack, <<"wait", k>>) => "wait" \in Calling(k)
        /\ Occurs(stack, <<"drop", k>>) => "drop" \in Calling(k)
        /\ Occurs(stack, <<"take", k>>) => "take" \in Calling(k)
    BY DEF Executing, Calling
  <1>3. /\ "run" \in Executing(k) => stage[k] = "started" /\ Executing(k) = {"run"} /\ Calling(k) = {"wait"}
                                       /\ ~Occurs(queue, k)
        /\ "release" \in Executing(k) => stage[k] \in {"done", "destroyed"} /\ Executing(k) = {"release"}
        /\ "wait" \in Calling(k) => Calling(k) = {"wait"}
    BY <1>1 DEF GetLife
  <1>4. "final" \in Executing(k) => stage[k] = "done" /\ Executing(k) = {"final"} /\ Calling(k) = {"wait"}
    BY <1>1 DEF GetLife
  <1>5. "drop" \in Calling(k) => Calling(k) = {"drop"} /\ stage[k] = "done" /\ Executing(k) # {"final"}
    BY <1>1 DEF GetLife
  <1>6. "take" \in Calling(k) => Calling(k) = {"take"} /\ stage[k] = "done" /\ Executing(k) # {"final"}
    BY <1>1 DEF GetLife
  <1> QED
    BY <1>1, <1>2, <1>3, <1>4, <1>5, <1>6

\* get() puts the caller's wait and the task itself on the stack.
LEMMA GetCall ==
  ASSUME GetInv, NEW t \in Threads, NEW k \in GetTasks, G!Get(t, k)
  PROVE  GetInv'
  <1>0. /\ G!TypeOK /\ OccursOnce(stack) /\ OccursOnce(queue) /\ stage[k] = "new"
        /\ stack \in [Threads -> Seq(GetFrames)] /\ GetLife(k)
    BY DEF GetInv, G!Get, G!TypeOK, GetFrames, Activities
  <1>1. /\ stage' = [stage EXCEPT ![k] = "started"] /\ grefs' = [grefs EXCEPT ![k] = 2]
        /\ stack' = [stack EXCEPT ![t] = stack[t] \o << <<"wait", k>>, <<"run", k>> >>]
        /\ UNCHANGED <<queue, outcome, hops, gready, gfrees>>
    BY DEF G!Get
  <1>2. Calling(k) = {} /\ Executing(k) = {} /\ ~Occurs(queue, k) /\ gready[k] = FALSE /\ gfrees[k] = 0
    BY <1>0 DEF GetLife, G!TypeOK
  <1>3. ~Occurs(stack, <<"wait", k>>) /\ ~Occurs(stack, <<"run", k>>)
    BY <1>2 DEF Calling, Executing
  <1>4. PICK a \in GetFrames, b \in GetFrames : a = <<"wait", k>> /\ b = <<"run", k>> /\ a # b
    <2>1. <<"wait", k>> \in GetFrames /\ <<"run", k>> \in GetFrames /\ <<"wait", k>> # <<"run", k>>
      BY DEF GetFrames, Activities
    <2> QED
      BY <2>1
  <1>5. PICK h : Becomes(stack, h, t, Append(stack[t], a)) /\ h[t] = Append(stack[t], a)
    <2>1. stack[t] = stack[t] /\ [stack EXCEPT ![t] = Append(stack[t], a)][t] = Append(stack[t], a)
      BY <1>0
    <2> QED
      BY <2>1 DEF Becomes
  <1>6. stack[t] \o <<a, b>> = Append(Append(stack[t], a), b)
    BY <1>0
  <1>7. Becomes(h, stack', t, Append(h[t], b))
    BY <1>0, <1>1, <1>4, <1>5, <1>6 DEF Becomes
  <1>8. /\ h \in [Threads -> Seq(GetFrames)] /\ OccursOnce(h)
        /\ \A x : Occurs(h, x) <=> Occurs(stack, x) \/ x = a
    <2>1. ~Occurs(stack, a) /\ Becomes(stack, h, t, Append(stack[t], a)) /\ OccursOnce(stack)
      BY <1>0, <1>3, <1>4, <1>5
    <2>2. stack \in [Threads -> Seq(GetFrames)]
      BY <1>0
    <2> QED
      BY ONLY t \in Threads, a \in GetFrames, <2>1, <2>2, OccursAppended
  <1>9. ~Occurs(h, b)
    BY <1>3, <1>4, <1>8
  <1>10. /\ stack' \in [Threads -> Seq(GetFrames)] /\ OccursOnce(stack')
         /\ \A x : Occurs(stack', x) <=> Occurs(h, x) \/ x = b
    <2>1. h \in [Threads -> Seq(GetFrames)] /\ OccursOnce(h) /\ ~Occurs(h, b)
      BY <1>8, <1>9
    <2> QED
      BY ONLY t \in Threads, b \in GetFrames, <1>7, <2>1, OccursAppended
  <1>11. \A v, c : Occurs(stack, <<v, c>>)' <=> Occurs(stack, <<v, c>>) \/ (c = k /\ v \in {"wait", "run"})
    <2>1. \A v, c : (<<v, c>> = a <=> v = "wait" /\ c = k) /\ (<<v, c>> = b <=> v = "run" /\ c = k)
      BY <1>4
    <2> QED
      BY <1>8, <1>10, <2>1
  <1>12. G!TypeOK'
    <2>1. grefs' \in [GetTasks -> 0 .. 2] /\ stage' \in [GetTasks -> {"new", "started", "done", "destroyed"}]
      BY <1>0, <1>1 DEF G!TypeOK
    <2> QED
      BY <1>0, <1>1, <1>10, <2>1 DEF G!TypeOK, GetFrames, Activities
  <1>13. stage'[k] = "started" /\ grefs'[k] = 2 /\ \A c \in GetTasks : c # k => stage'[c] = stage[c] /\ grefs'[c] = grefs[c]
    BY <1>0, <1>1 DEF G!TypeOK
  <1>14. GetLife(k)'
    <2>1. Calling(k)' = {"wait"} /\ Executing(k)' = {"run"}
      BY <1>2, <1>11 DEF Calling, Executing
    <2> QED
      BY <1>1, <1>2, <1>13, <2>1 DEF GetLife
  <1>15. ASSUME NEW c \in GetTasks, c # k PROVE GetLife(c)'
    <2>1. GetLife(c)
      BY DEF GetInv
    <2>2. \A w : Occurs(stack, <<w, c>>)' <=> Occurs(stack, <<w, c>>)
      BY <1>11, <1>15
    <2> QED
      BY <1>1, <1>13, <1>15, <2>1, <2>2, GetOthers
  <1> QED
    BY <1>0, <1>1, <1>10, <1>12, <1>14, <1>15 DEF GetInv

\* The task leaves the stack for the queue of a thread.
LEMMA GetJump ==
  ASSUME GetInv, MaxHops \in Nat, NEW t \in Threads, NEW k \in GetTasks, G!Jump(t, k)
  PROVE  GetInv'
  <1>0. G!TypeOK /\ OccursOnce(queue) /\ queue \in [Threads -> Seq(GetTasks)] /\ G!Does(t, "run", k) /\ G!Pop(t)
    BY DEF GetInv, G!Jump, G!TypeOK
  <1>1. /\ hops' = [hops EXCEPT ![k] = hops[k] + 1] /\ hops[k] < MaxHops
        /\ UNCHANGED <<stage, outcome, gready, grefs, gfrees>>
    BY DEF G!Jump, G!promise
  <1>2. PICK u \in Threads : Becomes(queue, queue', u, Append(queue[u], k))
    BY DEF G!Jump, Becomes
  <1>3. /\ stage[k] = "started" /\ Executing(k) = {"run"} /\ Calling(k) = {"wait"} /\ ~Occurs(queue, k) /\ GetLife(k)
    BY <1>0, GetDoes, GetStages
  <1>4. /\ stack' \in [Threads -> Seq(GetFrames)] /\ OccursOnce(stack)'
        /\ \A a, c : Occurs(stack, <<a, c>>)' <=> Occurs(stack, <<a, c>>) /\ ~(a = "run" /\ c = k)
    BY <1>0, GetPops
  <1>5. /\ queue' \in [Threads -> Seq(GetTasks)] /\ OccursOnce(queue')
        /\ \A c : Occurs(queue', c) <=> Occurs(queue, c) \/ c = k
    BY ONLY k \in GetTasks, u \in Threads, <1>0, <1>2, <1>3, OccursAppended
  <1>6. G!TypeOK'
    <2>1. hops' \in [GetTasks -> 0 .. MaxHops]
      BY <1>0, <1>1 DEF G!TypeOK
    <2> QED
      BY <1>0, <1>1, <1>4, <1>5, <2>1 DEF G!TypeOK, GetFrames, Activities
  <1>7. GetLife(k)'
    <2>1. Calling(k)' = {"wait"} /\ Executing(k)' = {}
      BY <1>3, <1>4 DEF Calling, Executing
    <2> QED
      BY <1>1, <1>3, <1>5, <2>1 DEF GetLife
  <1>8. ASSUME NEW c \in GetTasks, c # k PROVE GetLife(c)'
    <2>1. GetLife(c)
      BY DEF GetInv
    <2> QED
      BY <1>1, <1>4, <1>5, <1>8, <2>1, GetOthers
  <1> QED
    BY <1>4, <1>5, <1>6, <1>7, <1>8 DEF GetInv

\* A thread takes a task from its queue.
LEMMA GetRunQueued ==
  ASSUME GetInv, NEW t \in Threads, G!RunQueued(t)
  PROVE  GetInv'
  <1>0. /\ G!TypeOK /\ OccursOnce(stack) /\ OccursOnce(queue) /\ queue \in [Threads -> Seq(GetTasks)]
        /\ stack \in [Threads -> Seq(GetFrames)] /\ stack[t] = <<>> /\ queue[t] # <<>>
    BY DEF GetInv, G!RunQueued, G!TypeOK, GetFrames, Activities
  <1>1. UNCHANGED <<stage, outcome, hops, gready, grefs, gfrees>>
    BY DEF G!RunQueued, G!promise
  <1>2. Becomes(queue, queue', t, Tail(queue[t]))
    BY DEF G!RunQueued, Becomes
  <1>3. /\ queue' \in [Threads -> Seq(GetTasks)] /\ OccursOnce(queue') /\ Occurs(queue, Head(queue[t])) /\ Head(queue[t]) \in GetTasks
        /\ \A c : Occurs(queue', c) <=> Occurs(queue, c) /\ c # Head(queue[t])
    BY ONLY t \in Threads, <1>0, <1>2, OccursTail
  <1>4. PICK k \in GetTasks : k = Head(queue[t])
    BY <1>3
  <1>5. GetLife(k) /\ stage[k] = "started" /\ Executing(k) = {} /\ Calling(k) = {"wait"}
    BY <1>3, <1>4 DEF GetInv, GetLife
  <1>6. PICK e \in GetFrames : e = <<"run", k>>
    BY DEF GetFrames, Activities
  <1>7. Becomes(stack, stack', t, Append(stack[t], e)) /\ ~Occurs(stack, e)
    <2>1. ~Occurs(stack, e)
      BY <1>5, <1>6 DEF Executing
    <2>2. Append(stack[t], e) = <<e>>
      BY <1>0
    <2> QED
      BY <1>4, <1>6, <2>1, <2>2 DEF G!RunQueued, Becomes
  <1>8. /\ stack' \in [Threads -> Seq(GetFrames)] /\ OccursOnce(stack')
        /\ \A x : Occurs(stack', x) <=> Occurs(stack, x) \/ x = e
    BY ONLY t \in Threads, e \in GetFrames, <1>0, <1>7, OccursAppended
  <1>9. \A a, c : Occurs(stack, <<a, c>>)' <=> Occurs(stack, <<a, c>>) \/ (a = "run" /\ c = k)
    <2>1. \A a, c : <<a, c>> = e <=> a = "run" /\ c = k
      BY <1>6
    <2> QED
      BY <1>8, <2>1
  <1>10. G!TypeOK'
    BY <1>0, <1>1, <1>3, <1>8 DEF G!TypeOK, GetFrames, Activities
  <1>11. GetLife(k)'
    <2>1. Calling(k)' = {"wait"} /\ Executing(k)' = {"run"}
      BY <1>5, <1>9 DEF Calling, Executing
    <2> QED
      BY <1>1, <1>3, <1>4, <1>5, <2>1 DEF GetLife
  <1>12. ASSUME NEW c \in GetTasks, c # k PROVE GetLife(c)'
    <2>1. GetLife(c)
      BY DEF GetInv
    <2> QED
      BY <1>1, <1>3, <1>4, <1>9, <1>12, <2>1, GetOthers
  <1> QED
    BY <1>3, <1>8, <1>10, <1>11, <1>12 DEF GetInv


\* A step that changes only what belongs to task k.
GetUntouched(k) ==
  /\ queue' = queue /\ hops' = hops
  /\ \A a, c : c # k => (Occurs(stack, <<a, c>>)' <=> Occurs(stack, <<a, c>>))
  /\ \A c \in GetTasks : c # k => /\ stage'[c] = stage[c] /\ outcome'[c] = outcome[c] /\ gready'[c] = gready[c]
                                  /\ grefs'[c] = grefs[c] /\ gfrees'[c] = gfrees[c]
GetTypes(sta, out, rea, ref, fre) ==
  /\ sta \in [GetTasks -> {"new", "started", "done", "destroyed"}]
  /\ out \in [GetTasks -> {"EMPTY", "VAL", "EX"}] /\ rea \in [GetTasks -> BOOLEAN]
  /\ ref \in [GetTasks -> 0 .. 2] /\ fre \in [GetTasks -> 0 .. 1]

\* Such a step keeps the invariant if it keeps it for k.
LEMMA GetTouches ==
  ASSUME GetInv, NEW k \in GetTasks, GetUntouched(k), GetLife(k)',
         stack' \in [Threads -> Seq(GetFrames)], OccursOnce(stack)',
         GetTypes(stage', outcome', gready', grefs', gfrees')
  PROVE  GetInv'
  <1>1. G!TypeOK'
    BY DEF GetInv, G!TypeOK, GetTypes, GetUntouched, GetFrames, Activities
  <1>2. OccursOnce(queue)' /\ \A c : Occurs(queue, c)' <=> Occurs(queue, c)
    BY DEF GetInv, GetUntouched, OccursOnce, Occurs
  <1>3. ASSUME NEW c \in GetTasks, c # k PROVE GetLife(c)'
    <2>1. GetLife(c)
      BY DEF GetInv
    <2>2. \A w : Occurs(stack, <<w, c>>)' <=> Occurs(stack, <<w, c>>)
      BY <1>3 DEF GetUntouched
    <2>3. /\ stage'[c] = stage[c] /\ outcome'[c] = outcome[c] /\ gready'[c] = gready[c]
          /\ grefs'[c] = grefs[c] /\ gfrees'[c] = gfrees[c]
      BY <1>3 DEF GetUntouched
    <2> QED
      BY <1>2, <2>1, <2>2, <2>3, GetOthers
  <1> QED
    BY <1>1, <1>2, <1>3 DEF GetInv

\* The types of what belongs to a task.
LEMMA GetTyped ==
  ASSUME GetInv
  PROVE  GetTypes(stage, outcome, gready, grefs, gfrees)
  BY DEF GetInv, G!TypeOK, GetTypes

\* The task's result is in its return_block, and the thread goes on in the final
\* suspend of the async_task.
LEMMA GetEnd ==
  ASSUME GetInv, NEW t \in Threads, NEW k \in GetTasks, G!End(t, k)
  PROVE  GetInv'
  <1>0. G!Does(t, "run", k) /\ G!InsteadDo(t, "final", k) /\ "final" \in Activities
    BY DEF G!End, Activities
  <1>1. stage' = [stage EXCEPT ![k] = "done"] /\ UNCHANGED <<queue, hops, gready, grefs, gfrees>>
    BY DEF G!End, G!promise
  <1>2. PICK o \in {"VAL", "EX"} : outcome' = [outcome EXCEPT ![k] = o]
    BY DEF G!End
  <1>3. stage[k] = "started" /\ Executing(k) = {"run"} /\ Calling(k) = {"wait"} /\ ~Occurs(queue, k) /\ GetLife(k)
    BY <1>0, GetDoes, GetStages
  <1>4. ~Occurs(stack, <<"final", k>>)
    BY <1>3 DEF Executing
  <1>5. /\ stack' \in [Threads -> Seq(GetFrames)] /\ OccursOnce(stack)'
        /\ \A a, c : Occurs(stack, <<a, c>>)' <=>
             (Occurs(stack, <<a, c>>) /\ ~(a = "run" /\ c = k)) \/ (a = "final" /\ c = k)
    BY <1>0, <1>4, GetReplaces
  <1>6. GetTypes(stage', outcome', gready', grefs', gfrees') /\ stage'[k] = "done" /\ outcome'[k] = o
    BY <1>1, <1>2, GetTyped DEF GetTypes
  <1>7. GetUntouched(k)
    BY <1>1, <1>2, <1>5, GetTyped DEF GetTypes, GetUntouched
  <1>8. GetLife(k)'
    <2>1. Calling(k)' = {"wait"} /\ Executing(k)' = {"final"}
      BY <1>3, <1>5 DEF Calling, Executing
    <2>2. ~Occurs(queue, k)'
      BY <1>1, <1>3 DEF Occurs
    <2>3. gready[k] = FALSE /\ grefs[k] = 2 /\ gfrees[k] = 0
      BY <1>3, GetTyped DEF GetLife, GetTypes
    <2> QED
      BY <1>1, <1>2, <1>6, <2>1, <2>2, <2>3 DEF GetLife
  <1> QED
    BY <1>5, <1>6, <1>7, <1>8, GetTouches

\* final_suspend sets the flag get() waits for.
LEMMA GetSetReady ==
  ASSUME GetInv, NEW t \in Threads, NEW k \in GetTasks, G!SetReady(t, k)
  PROVE  GetInv'
  <1>0. G!Does(t, "final", k) /\ G!InsteadDo(t, "release", k) /\ "release" \in Activities
    BY DEF G!SetReady, Activities
  <1>1. gready' = [gready EXCEPT ![k] = TRUE] /\ UNCHANGED <<queue, hops, stage, outcome, grefs, gfrees>>
    BY DEF G!SetReady
  <1>3. stage[k] = "done" /\ Executing(k) = {"final"} /\ Calling(k) = {"wait"} /\ GetLife(k)
    BY <1>0, GetDoes, GetStages
  <1>4. ~Occurs(stack, <<"release", k>>)
    BY <1>3 DEF Executing
  <1>5. /\ stack' \in [Threads -> Seq(GetFrames)] /\ OccursOnce(stack)'
        /\ \A a, c : Occurs(stack, <<a, c>>)' <=>
             (Occurs(stack, <<a, c>>) /\ ~(a = "final" /\ c = k)) \/ (a = "release" /\ c = k)
    BY <1>0, <1>4, GetReplaces
  <1>6. GetTypes(stage', outcome', gready', grefs', gfrees') /\ gready'[k] = TRUE
    BY <1>1, GetTyped DEF GetTypes
  <1>7. GetUntouched(k)
    BY <1>1, <1>5, GetTyped DEF GetTypes, GetUntouched
  <1>8. GetLife(k)'
    <2>1. Calling(k)' = {"wait"} /\ Executing(k)' = {"release"}
      BY <1>3, <1>5 DEF Calling, Executing
    <2>2. ~Occurs(queue, k)'
      BY <1>1, <1>3 DEF Occurs, GetLife
    <2>3. outcome[k] # "EMPTY" /\ grefs[k] = 2 /\ gfrees[k] = 0
      BY <1>3, GetTyped DEF GetLife, GetTypes
    <2> QED
      BY <1>1, <1>3, <1>6, <2>1, <2>2, <2>3 DEF GetLife
  <1> QED
    BY <1>5, <1>6, <1>7, <1>8, GetTouches

\* One of the two gives up its reference: the last one destroys the frame.
LEMMA GetGivesUp ==
  ASSUME GetInv, NEW k \in GetTasks, G!GiveUp(k), grefs[k] \in {1, 2}, gfrees[k] = 0
  PROVE  /\ GetTypes(stage, outcome, gready, grefs', gfrees')
         /\ grefs'[k] = grefs[k] - 1 /\ gfrees'[k] = IF grefs[k] = 1 THEN 1 ELSE 0
         /\ \A c \in GetTasks : c # k => grefs'[c] = grefs[c] /\ gfrees'[c] = gfrees[c]
  BY GetTyped DEF GetTypes, G!GiveUp

\* The coroutine of the async_task, ended, gives up its reference.
LEMMA GetRelease ==
  ASSUME GetInv, NEW t \in Threads, NEW k \in GetTasks, G!Release(t, k)
  PROVE  GetInv'
  <1>0. G!Does(t, "release", k) /\ G!Pop(t) /\ G!GiveUp(k)
    BY DEF G!Release
  <1>1. UNCHANGED <<queue, hops, stage, outcome, gready>>
    BY DEF G!Release
  <1>2. stage[k] \in {"done", "destroyed"} /\ Executing(k) = {"release"} /\ GetLife(k)
    BY <1>0, GetDoes, GetStages
  <1>3. /\ grefs[k] = 1 + (IF Calling(k) \in {{"wait"}, {"drop"}} THEN 1 ELSE 0) /\ gfrees[k] = 0
        /\ gready[k] = TRUE /\ ~Occurs(queue, k) /\ grefs[k] \in {1, 2}
    BY <1>2, GetTyped DEF GetLife, GetTypes
  <1>4. /\ GetTypes(stage, outcome, gready, grefs', gfrees')
        /\ grefs'[k] = grefs[k] - 1 /\ gfrees'[k] = IF grefs[k] = 1 THEN 1 ELSE 0
        /\ \A c \in GetTasks : c # k => grefs'[c] = grefs[c] /\ gfrees'[c] = gfrees[c]
    BY <1>0, <1>3, GetGivesUp
  <1>5. /\ stack' \in [Threads -> Seq(GetFrames)] /\ OccursOnce(stack)'
        /\ \A a, c : Occurs(stack, <<a, c>>)' <=> Occurs(stack, <<a, c>>) /\ ~(a = "release" /\ c = k)
    BY <1>0, GetPops
  <1>6. GetTypes(stage', outcome', gready', grefs', gfrees') /\ GetUntouched(k)
    BY <1>1, <1>4, <1>5 DEF GetUntouched
  <1>7. GetLife(k)'
    <2>1. Calling(k)' = Calling(k) /\ Executing(k)' = {}
      BY <1>2, <1>5 DEF Calling, Executing
    <2>2. ~Occurs(queue, k)'
      BY <1>1, <1>3 DEF Occurs
    <2> QED
      BY <1>1, <1>2, <1>3, <1>4, <2>1, <2>2 DEF GetLife
  <1> QED
    BY <1>5, <1>6, <1>7, GetTouches

\* wait() returns in the caller.
LEMMA GetWaitReturns ==
  ASSUME GetInv, NEW t \in Threads, NEW k \in GetTasks, G!WaitReturns(t, k)
  PROVE  GetInv'
  <1>0. G!Does(t, "wait", k) /\ G!InsteadDo(t, "drop", k) /\ "drop" \in Activities /\ gready[k]
    BY DEF G!WaitReturns, Activities
  <1>1. UNCHANGED <<queue, hops, stage, outcome, gready, grefs, gfrees>>
    BY DEF G!WaitReturns, G!promise
  <1>2. Calling(k) = {"wait"} /\ GetLife(k) /\ stage[k] \in {"done", "destroyed"} /\ Executing(k) # {"final"}
    <2>1. Calling(k) = {"wait"} /\ GetLife(k)
      BY <1>0, GetDoes, GetStages
    <2> QED
      BY <1>0, <2>1 DEF GetLife
  <1>3. stage[k] = "done"
    BY <1>2 DEF GetLife
  <1>4. ~Occurs(stack, <<"drop", k>>)
    BY <1>2 DEF Calling
  <1>5. /\ stack' \in [Threads -> Seq(GetFrames)] /\ OccursOnce(stack)'
        /\ \A a, c : Occurs(stack, <<a, c>>)' <=>
             (Occurs(stack, <<a, c>>) /\ ~(a = "wait" /\ c = k)) \/ (a = "drop" /\ c = k)
    BY <1>0, <1>4, GetReplaces
  <1>6. GetTypes(stage', outcome', gready', grefs', gfrees') /\ GetUntouched(k)
    BY <1>1, <1>5, GetTyped DEF GetUntouched
  <1>7. GetLife(k)'
    <2>1. Calling(k)' = {"drop"} /\ Executing(k)' = Executing(k)
      BY <1>2, <1>5 DEF Calling, Executing
    <2>2. ~Occurs(queue, k)'
      BY <1>1, <1>2, <1>3 DEF Occurs, GetLife
    <2>3. /\ outcome[k] # "EMPTY" /\ grefs[k] = (IF Executing(k) # {} THEN 1 ELSE 0) + 1 /\ gfrees[k] = 0
          /\ Executing(k) \in {{"final"}, {"release"}, {}}
      BY <1>2, <1>3 DEF GetLife
    <2> QED
      BY <1>0, <1>1, <1>2, <1>3, <2>1, <2>2, <2>3 DEF GetLife
  <1> QED
    BY <1>5, <1>6, <1>7, GetTouches

\* The caller destroys the async_task.
LEMMA GetDrop ==
  ASSUME GetInv, NEW t \in Threads, NEW k \in GetTasks, G!Drop(t, k)
  PROVE  GetInv'
  <1>0. G!Does(t, "drop", k) /\ G!InsteadDo(t, "take", k) /\ "take" \in Activities /\ G!GiveUp(k)
    BY DEF G!Drop, Activities
  <1>1. UNCHANGED <<queue, hops, stage, outcome, gready>>
    BY DEF G!Drop
  <1>2. Calling(k) = {"drop"} /\ GetLife(k) /\ stage[k] = "done" /\ Executing(k) # {"final"}
    BY <1>0, GetDoes, GetStages
  <1>3. /\ grefs[k] = (IF Executing(k) # {} THEN 1 ELSE 0) + 1 /\ gfrees[k] = 0 /\ outcome[k] # "EMPTY"
        /\ gready[k] /\ ~Occurs(queue, k) /\ grefs[k] \in {1, 2} /\ Executing(k) \in {{"final"}, {"release"}, {}}
    BY <1>2 DEF GetLife
  <1>4. /\ GetTypes(stage, outcome, gready, grefs', gfrees')
        /\ grefs'[k] = grefs[k] - 1 /\ gfrees'[k] = IF grefs[k] = 1 THEN 1 ELSE 0
        /\ \A c \in GetTasks : c # k => grefs'[c] = grefs[c] /\ gfrees'[c] = gfrees[c]
    BY <1>0, <1>3, GetGivesUp
  <1>5. ~Occurs(stack, <<"take", k>>)
    BY <1>2 DEF Calling
  <1>6. /\ stack' \in [Threads -> Seq(GetFrames)] /\ OccursOnce(stack)'
        /\ \A a, c : Occurs(stack, <<a, c>>)' <=>
             (Occurs(stack, <<a, c>>) /\ ~(a = "drop" /\ c = k)) \/ (a = "take" /\ c = k)
    BY <1>0, <1>5, GetReplaces
  <1>7. GetTypes(stage', outcome', gready', grefs', gfrees') /\ GetUntouched(k)
    BY <1>1, <1>4, <1>6 DEF GetUntouched
  <1>8. GetLife(k)'
    <2>1. Calling(k)' = {"take"} /\ Executing(k)' = Executing(k)
      BY <1>2, <1>6 DEF Calling, Executing
    <2>2. ~Occurs(queue, k)'
      BY <1>1, <1>3 DEF Occurs
    <2> QED
      BY <1>1, <1>2, <1>3, <1>4, <2>1, <2>2 DEF GetLife
  <1> QED
    BY <1>6, <1>7, <1>8, GetTouches

\* get() moves the result out, and the task is destroyed.
LEMMA GetTakeResult ==
  ASSUME GetInv, NEW t \in Threads, NEW k \in GetTasks, G!TakeResult(t, k)
  PROVE  GetInv'
  <1>0. G!Does(t, "take", k) /\ G!Pop(t)
    BY DEF G!TakeResult
  <1>1. stage' = [stage EXCEPT ![k] = "destroyed"] /\ UNCHANGED <<queue, hops, outcome, gready, grefs, gfrees>>
    BY DEF G!TakeResult, G!promise
  <1>2. Calling(k) = {"take"} /\ GetLife(k) /\ stage[k] = "done" /\ Executing(k) # {"final"}
    BY <1>0, GetDoes, GetStages
  <1>3. /\ grefs[k] = (IF Executing(k) # {} THEN 1 ELSE 0) /\ gready[k] /\ ~Occurs(queue, k)
        /\ Executing(k) \in {{"release"}, {}} /\ gfrees[k] = IF grefs[k] = 0 THEN 1 ELSE 0
    BY <1>2 DEF GetLife
  <1>4. /\ stack' \in [Threads -> Seq(GetFrames)] /\ OccursOnce(stack)'
        /\ \A a, c : Occurs(stack, <<a, c>>)' <=> Occurs(stack, <<a, c>>) /\ ~(a = "take" /\ c = k)
    BY <1>0, GetPops
  <1>5. GetTypes(stage', outcome', gready', grefs', gfrees') /\ GetUntouched(k) /\ stage'[k] = "destroyed"
    BY <1>1, <1>4, GetTyped DEF GetUntouched, GetTypes
  <1>6. GetLife(k)'
    <2>1. Calling(k)' = {} /\ Executing(k)' = Executing(k)
      BY <1>2, <1>4 DEF Calling, Executing
    <2>2. ~Occurs(queue, k)'
      BY <1>1, <1>3 DEF Occurs
    <2> QED
      BY <1>1, <1>2, <1>3, <1>5, <2>1, <2>2 DEF GetLife
  <1> QED
    BY <1>4, <1>5, <1>6, GetTouches

\* The invariant holds initially, and each step of a thread keeps it.
LEMMA GetInvariance == ASSUME MaxHops \in Nat PROVE G!Spec => []GetInv
  <1>1. ASSUME G!Init PROVE GetInv
    <2>1. \A t \in Threads : stack[t] = <<>> /\ queue[t] = <<>>
      BY <1>1 DEF G!Init
    <2>2. \A x : ~Occurs(stack, x) /\ ~Occurs(queue, x)
      BY <2>1 DEF Occurs
    <2>3. OccursOnce(stack) /\ OccursOnce(queue)
      BY <2>1 DEF OccursOnce
    <2>4. G!TypeOK
      BY <1>1 DEF G!Init, G!TypeOK
    <2>5. ASSUME NEW k \in GetTasks PROVE GetLife(k)
      <3>1. Calling(k) = {} /\ Executing(k) = {}
        BY <2>2 DEF Calling, Executing
      <3> QED
        BY <1>1, <2>2, <3>1 DEF G!Init, GetLife
    <2> QED
      BY <2>3, <2>4, <2>5 DEF GetInv
  <1>2. ASSUME GetInv, G!Next PROVE GetInv'
    <2>1. PICK t \in Threads : G!GetOutside(t) \/ G!ThreadStep(t)
      BY <1>2 DEF G!Next
    <2>2. CASE G!GetOutside(t)
      BY <1>2, <2>2, GetCall DEF G!GetOutside
    <2>3. CASE G!RunQueued(t)
      BY <1>2, <2>3, GetRunQueued
    <2>4. ASSUME NEW k \in GetTasks, G!GetInTask(t, k) PROVE GetInv'
      BY <1>2, <2>4, GetCall DEF G!GetInTask
    <2>5. ASSUME NEW k \in GetTasks,
                 \/ G!Jump(t, k) \/ G!End(t, k) \/ G!SetReady(t, k) \/ G!Release(t, k)
                 \/ G!WaitReturns(t, k) \/ G!Drop(t, k) \/ G!TakeResult(t, k)
          PROVE  GetInv'
      BY <1>2, <2>5, GetJump, GetEnd, GetSetReady, GetRelease, GetWaitReturns, GetDrop, GetTakeResult
    <2> QED
      BY <2>1, <2>2, <2>3, <2>4, <2>5 DEF G!ThreadStep
  <1>3. ASSUME GetInv, UNCHANGED G!vars PROVE GetInv'
    <2>1. /\ stack' = stack /\ queue' = queue /\ stage' = stage /\ outcome' = outcome /\ hops' = hops
          /\ gready' = gready /\ grefs' = grefs /\ gfrees' = gfrees
      BY <1>3 DEF G!vars
    <2>2. G!TypeOK' /\ OccursOnce(stack)' /\ OccursOnce(queue)'
      BY <1>3, <2>1 DEF GetInv, G!TypeOK, OccursOnce
    <2>3. \A x : (Occurs(stack, x)' <=> Occurs(stack, x)) /\ (Occurs(queue, x)' <=> Occurs(queue, x))
      BY <2>1 DEF Occurs
    <2>4. ASSUME NEW k \in GetTasks PROVE GetLife(k)'
      <3>1. GetLife(k)
        BY <1>3 DEF GetInv
      <3> QED
        BY <2>1, <2>3, <3>1, GetOthers
    <2> QED
      BY <2>2, <2>4 DEF GetInv
  <1> QED
    BY <1>1, <1>2, <1>3, PTL DEF G!Spec

\* get() gives the task's result, with both frames alive as long as anyone executes
\* them, however many threads serve queues, however many tasks jump between them
\* and however deep tasks call get() of each other.
THEOREM GetKeepsFramesAlive == ASSUME MaxHops \in Nat PROVE G!Spec => []GetIsSafe
  <1>1. ASSUME GetInv PROVE GetIsSafe
    <2>1. G!TypeOK
      BY <1>1 DEF GetInv
    <2>2. ASSUME NEW k \in GetTasks
          PROVE  /\ \A w : G!Where(w, k) # {} <=> Occurs(stack, <<w, k>>)
                 /\ \A w : Cardinality(G!Where(w, k)) = IF Occurs(stack, <<w, k>>) THEN 1 ELSE 0
                 /\ Cardinality(G!Queued(k)) = IF Occurs(queue, k) THEN 1 ELSE 0
      <3>1. \A t \in Threads : DOMAIN stack[t] = 1 .. Len(stack[t]) /\ DOMAIN queue[t] = 1 .. Len(queue[t])
        BY <2>1 DEF G!TypeOK
      <3>2. \A w : G!Where(w, k) # {} <=> Occurs(stack, <<w, k>>)
        BY <3>1 DEF G!Where, Occurs
      <3>3. G!Queued(k) # {} <=> Occurs(queue, k)
        BY <3>1 DEF G!Queued, Occurs
      <3>4. \A w : \A t, u \in G!Where(w, k) : t = u
        <4> SUFFICES ASSUME NEW w, NEW t \in G!Where(w, k), NEW u \in G!Where(w, k) PROVE t = u
          OBVIOUS
        <4>1. t \in Threads /\ u \in Threads
          BY DEF G!Where
        <4>2. PICK i \in 1 .. Len(stack[t]) : stack[t][i] = <<w, k>>
          BY <3>1 DEF G!Where
        <4>3. PICK j \in 1 .. Len(stack[u]) : stack[u][j] = <<w, k>>
          BY <3>1 DEF G!Where
        <4>4. stack[t][i] = stack[u][j]
          BY <4>2, <4>3
        <4>5. OccursOnce(stack)
          BY <1>1 DEF GetInv
        <4> QED
          BY ONLY <4>1, <4>4, <4>5, i \in 1 .. Len(stack[t]), j \in 1 .. Len(stack[u]) DEF OccursOnce
      <3>5. \A t, u \in G!Queued(k) : t = u
        BY <1>1, <3>1 DEF G!Queued, GetInv, OccursOnce
      <3>6. \A S : (\A t, u \in S : t = u) => Cardinality(S) = IF S # {} THEN 1 ELSE 0
        <4> SUFFICES ASSUME NEW S, \A t, u \in S : t = u PROVE Cardinality(S) = IF S # {} THEN 1 ELSE 0
          OBVIOUS
        <4>1. CASE S = {}
          BY <4>1, FS_EmptySet
        <4>2. CASE S # {}
          <5>1. PICK t : t \in S
            BY <4>2
          <5>2. S = {t}
            BY <5>1
          <5>3. Cardinality({t}) = 1
            BY FS_Singleton
          <5> QED
            BY <4>2, <5>2, <5>3
        <4> QED
          BY <4>1, <4>2
      <3> QED
        BY <3>2, <3>3, <3>4, <3>5, <3>6
    <2>3. ASSUME NEW k \in GetTasks
          PROVE  /\ G!Where("take", k) # {} => stage[k] = "done" /\ outcome[k] # "EMPTY"
                 /\ Cardinality(G!Where("run", k)) + Cardinality(G!Queued(k))
                      = IF stage[k] = "started" THEN 1 ELSE 0
                 /\ LET users == G!Where("wait", k) \cup G!Where("drop", k)
                                   \cup G!Where("final", k) \cup G!Where("release", k)
                    IN gfrees[k] = 0 <=> stage[k] = "new" \/ users # {} \/ stage[k] = "started"
      <3>1. GetLife(k) /\ stage[k] \in {"new", "started", "done", "destroyed"}
        BY <1>1, GetStages
      <3>2. /\ Occurs(stack, <<"run", k>>) <=> "run" \in Executing(k)
            /\ Occurs(stack, <<"final", k>>) <=> "final" \in Executing(k)
            /\ Occurs(stack, <<"release", k>>) <=> "release" \in Executing(k)
            /\ Occurs(stack, <<"wait", k>>) <=> "wait" \in Calling(k)
            /\ Occurs(stack, <<"drop", k>>) <=> "drop" \in Calling(k)
            /\ Occurs(stack, <<"take", k>>) <=> "take" \in Calling(k)
        BY DEF Executing, Calling
      <3>3. "take" \in Calling(k) => stage[k] = "done" /\ outcome[k] # "EMPTY"
        BY <3>1 DEF GetLife
      <3>4. /\ ~("run" \in Executing(k) /\ Occurs(queue, k))
            /\ "run" \in Executing(k) \/ Occurs(queue, k) <=> stage[k] = "started"
        BY <3>1 DEF GetLife
      <3>5. stage[k] \in {"done", "destroyed"} =>
              (gfrees[k] = 0 <=> \/ "wait" \in Calling(k) \/ "drop" \in Calling(k)
                                 \/ "final" \in Executing(k) \/ "release" \in Executing(k))
        <4>1. ASSUME stage[k] \in {"done", "destroyed"}
              PROVE  /\ Calling(k) \in {{"wait"}, {"drop"}, {"take"}, {}}
                     /\ Executing(k) \in {{"final"}, {"release"}, {}}
                     /\ grefs[k] = (IF Executing(k) # {} THEN 1 ELSE 0) + (IF Calling(k) \in {{"wait"}, {"drop"}} THEN 1 ELSE 0)
                     /\ gfrees[k] = IF grefs[k] = 0 THEN 1 ELSE 0
          BY <3>1, <4>1 DEF GetLife
        <4> QED
          BY <4>1
      <3>6. stage[k] \in {"new", "started"} => gfrees[k] = 0
        BY <3>1 DEF GetLife
      <3> QED
        BY <2>2, <3>1, <3>2, <3>3, <3>4, <3>5, <3>6
    <2> QED
      BY <2>1, <2>3 DEF GetIsSafe, G!GetIsSafe, G!Cardinality, Cardinality
  <1> QED
    BY <1>1, GetInvariance, PTL
=============================================================================
