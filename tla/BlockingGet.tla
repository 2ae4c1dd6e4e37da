----------------------------- MODULE BlockingGet -----------------------------
(***************************************************************************)
(* task::get() with the default context: get() blocks its thread in an     *)
(* async_task whose coroutine awaits task.wait(), so that task and         *)
(* async_task end on the thread the task has moved to, while the caller    *)
(* goes on and destroys both.  Tasks jump between threads, each of which   *)
(* serves a queue, and call get() of other tasks themselves.               *)
(*                                                                         *)
(* What a thread executes is a stack of pairs of an activity and a task,   *)
(* innermost last.  That wait() returns once `ready` is set is shown in    *)
(* AsyncTask.                                                              *)
(***************************************************************************)
EXTENDS Integers, Sequences, SequencesExt, FiniteSets

CONSTANTS Threads, Tasks,
          MaxHops   \* bound on the jumps of a task

VARIABLES stack, queue, \* of each thread
          stage,        \* of each task: new, started, done, destroyed
          outcome,      \* its return_block: EMPTY, VAL, EX
          hops,
          ready, refs,  \* promise of the async_task around the task
          frees         \* how often its frame was destroyed

vars == <<stack, queue, stage, outcome, hops, ready, refs, frees>>
promise == <<ready, refs, frees>>

Init == /\ stack = [t \in Threads |-> <<>>]
        /\ queue = [t \in Threads |-> <<>>]
        /\ stage = [k \in Tasks |-> "new"]
        /\ outcome = [k \in Tasks |-> "EMPTY"]
        /\ hops = [k \in Tasks |-> 0]
        /\ ready = [k \in Tasks |-> FALSE]
        /\ refs = [k \in Tasks |-> 0]
        /\ frees = [k \in Tasks |-> 0]

Does(t, what, k) == stack[t] # <<>> /\ Last(stack[t]) = <<what, k>>
InsteadDo(t, what, k) == stack' = [stack EXCEPT ![t] = Append(Front(@), <<what, k>>)]
Pop(t) == stack' = [stack EXCEPT ![t] = Front(@)]
-----------------------------------------------------------------------------
\* get(): the coroutine in do_blocking_wait starts at once and transfers control
\* to the task; the thread waits when it comes back from there.
Get(t, k) ==
  /\ stage[k] = "new"
  /\ stage' = [stage EXCEPT ![k] = "started"]
  /\ refs' = [refs EXCEPT ![k] = 2]
  /\ stack' = [stack EXCEPT ![t] = @ \o << <<"wait", k>>, <<"run", k>> >>]
  /\ UNCHANGED <<queue, outcome, hops, ready, frees>>

GetOutside(t)  == stack[t] = <<>> /\ \E k \in Tasks : Get(t, k)
GetInTask(t, j) == Does(t, "run", j) /\ \E k \in Tasks : Get(t, k)

\* The task jumps on another thread, or on its own.
Jump(t, k) ==
  /\ Does(t, "run", k) /\ hops[k] < MaxHops
  /\ hops' = [hops EXCEPT ![k] = @ + 1]
  /\ \E u \in Threads : queue' = [queue EXCEPT ![u] = Append(@, k)]
  /\ Pop(t)
  /\ UNCHANGED <<stage, outcome, promise>>

RunQueued(t) ==
  /\ stack[t] = <<>> /\ queue[t] # <<>>
  /\ stack' = [stack EXCEPT ![t] = << <<"run", Head(queue[t])>> >>]
  /\ queue' = [queue EXCEPT ![t] = Tail(@)]
  /\ UNCHANGED <<stage, outcome, hops, promise>>

\* The task ends and transfers control to the coroutine that waits, which ends.
End(t, k) ==
  /\ Does(t, "run", k)
  /\ stage' = [stage EXCEPT ![k] = "done"]
  /\ \E o \in {"VAL", "EX"} : outcome' = [outcome EXCEPT ![k] = o]
  /\ InsteadDo(t, "final", k)
  /\ UNCHANGED <<queue, hops, promise>>

\* Wrong: the flag is not set.
FinalKeepsFlag(t, k) ==
  /\ Does(t, "final", k)
  /\ InsteadDo(t, "release", k)
  /\ UNCHANGED <<queue, stage, outcome, hops, promise>>

\* destroy_if_consumer_dead_t: ready.exchange(true), notify ...
SetReady(t, k) ==
  /\ Does(t, "final", k)
  /\ ready' = [ready EXCEPT ![k] = TRUE]
  /\ InsteadDo(t, "release", k)
  /\ UNCHANGED <<queue, stage, outcome, hops, refs, frees>>

GiveUp(k) == /\ refs' = [refs EXCEPT ![k] = @ - 1]
             /\ frees' = IF refs[k] = 1 THEN [frees EXCEPT ![k] = @ + 1] ELSE frees

\* ... and the reference.
Release(t, k) ==
  /\ Does(t, "release", k)
  /\ GiveUp(k) /\ Pop(t)
  /\ UNCHANGED <<queue, stage, outcome, hops, ready>>

\* Wrong: the thread does not look whether it has been waiting long enough.
WaitReturnsEarly(t, k) ==
  /\ Does(t, "wait", k)
  /\ InsteadDo(t, "drop", k)
  /\ UNCHANGED <<queue, stage, outcome, hops, promise>>

\* async_task::get() of the thread that has called task::get()
WaitReturns(t, k) ==
  /\ Does(t, "wait", k) /\ ready[k]
  /\ InsteadDo(t, "drop", k)
  /\ UNCHANGED <<queue, stage, outcome, hops, promise>>

\* ~async_task
Drop(t, k) ==
  /\ Does(t, "drop", k)
  /\ GiveUp(k) /\ InsteadDo(t, "take", k)
  /\ UNCHANGED <<queue, stage, outcome, hops, ready>>

\* result_or_rethrow(); the caller destroys the task next.
TakeResult(t, k) ==
  /\ Does(t, "take", k)
  /\ stage' = [stage EXCEPT ![k] = "destroyed"]
  /\ Pop(t)
  /\ UNCHANGED <<queue, outcome, hops, promise>>

ThreadStep(t) ==
  \/ RunQueued(t)
  \/ \E k \in Tasks : \/ GetInTask(t, k) \/ Jump(t, k) \/ End(t, k) \/ SetReady(t, k)
                      \/ Release(t, k) \/ WaitReturns(t, k) \/ Drop(t, k) \/ TakeResult(t, k)

Next == \E t \in Threads : GetOutside(t) \/ ThreadStep(t)

Spec == Init /\ [][Next]_vars

\* Threads go on, and tasks end; nobody has to call get().
FairSpec == Spec /\ \A t \in Threads : WF_vars(ThreadStep(t))
-----------------------------------------------------------------------------
TypeOK ==
  /\ stack \in [Threads -> Seq({"wait", "run", "final", "release", "drop", "take"} \X Tasks)]
  /\ queue \in [Threads -> Seq(Tasks)]
  /\ stage \in [Tasks -> {"new", "started", "done", "destroyed"}]
  /\ outcome \in [Tasks -> {"EMPTY", "VAL", "EX"}]
  /\ hops \in [Tasks -> 0 .. MaxHops] /\ ready \in [Tasks -> BOOLEAN]
  /\ refs \in [Tasks -> 0 .. 2] /\ frees \in [Tasks -> 0 .. 1]

Where(what, k) == {t \in Threads : \E i \in DOMAIN stack[t] : stack[t][i] = <<what, k>>}
Queued(k)      == {t \in Threads : \E i \in DOMAIN queue[t] : queue[t][i] = k}

(***************************************************************************)
(* get() gives the task's result, with both frames alive as long as anyone *)
(* executes them: the result is taken when the task has ended, the task is *)
(* destroyed when no thread executes it or has it in its queue, and the    *)
(* frame of the async_task dies with the last of the two threads that use  *)
(* it.  A task is at one place at a time.                                  *)
(***************************************************************************)
GetIsSafe ==
  /\ TypeOK
  /\ \A k \in Tasks :
       /\ Where("take", k) # {} => stage[k] = "done" /\ outcome[k] # "EMPTY"
       /\ Cardinality(Where("run", k)) + Cardinality(Queued(k))
            = IF stage[k] = "started" THEN 1 ELSE 0
       /\ LET users == Where("wait", k) \cup Where("drop", k)
                         \cup Where("final", k) \cup Where("release", k)
          IN frees[k] = 0 <=> stage[k] = "new" \/ users # {} \/ stage[k] = "started"

\* Thread t is blocked in get() of a task that is on, or queued for, thread u.
WaitsFor(t, u) ==
  \E k \in Tasks : Does(t, "wait", k) /\ u \in Where("run", k) \cup Queued(k)

\* t is blocked for ever: threads wait for each other, in the simplest case one
\* for itself.
Deadlocked(t) ==
  \E S \in SUBSET Threads : t \in S /\ \A u \in S : \E v \in S : WaitsFor(u, v)

(***************************************************************************)
(* "get() on not ready task will lead to deadlock if task will not         *)
(* schedule itself to another thread": the whole truth is that a thread    *)
(* comes out of all its get() calls unless it comes to wait, in a chain of *)
(* them, for itself or for threads that wait for each other, wherever the  *)
(* tasks have jumped to.                                                   *)
(***************************************************************************)
GetReturnsOrDeadlocks ==
  \A t \in Threads : stack[t] # <<>> ~> stack[t] = <<>> \/ Deadlocked(t)
=============================================================================
