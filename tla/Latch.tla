------------------------------- MODULE Latch -------------------------------
(***************************************************************************)
(* latch (latch.hpp) on top of nonowner_lockfree_stack: coroutines wait or *)
(* arrive, threads count down, the one that reaches zero closes the stack  *)
(* and hands all waiters to the executor.  The latch is destroyed by a     *)
(* coroutine whose wait has returned, as its comment allows ("may be       *)
(* destroyed right after `wait` / `arrive_and_wait` returned").            *)
(*                                                                         *)
(* An actor is one call: the thread that makes it and, for the two waiting *)
(* operations, the coroutine whose awaiter (and task_node) it uses.  Every *)
(* access to an atomic is a step; compare_exchange_weak may fail without a *)
(* reason.                                                                 *)
(***************************************************************************)
EXTENDS Integers, FiniteSets

CONSTANTS Actors,      \* calls of the latch's operations, and their nodes
          MaxCount,    \* bound on the initial count
          Decrements,  \* the values n of count_down(n), arrive_and_wait(n)
          Null,
          Closed       \* &closed_marker

VARIABLES top,        \* top of the stack of waiters
          counter,
          destroyed,  \* the latch object is gone
          budget,     \* counter minus what started calls will still subtract
          kind, n,    \* the operation of each actor and its argument
          pc,         \* where the calling thread is inside it
          co,         \* the coroutine: running, suspended, attached, returned
          next,       \* next[a]: the `next` field of a's node
          rest        \* rest[a]: rest of the list a's attach_list walks

vars == <<top, counter, destroyed, budget, kind, n, pc, co, next, rest>>

Init == /\ counter \in 0 .. MaxCount
        /\ budget = counter
        /\ top = IF counter = 0 THEN Closed ELSE Null
        /\ destroyed = FALSE
        /\ kind = [a \in Actors |-> "wait"]
        /\ n = [a \in Actors |-> 0]
        /\ pc = [a \in Actors |-> "idle"]
        /\ co = [a \in Actors |-> "running"]
        /\ next = [a \in Actors |-> Null]
        /\ rest = [a \in Actors |-> Null]
-----------------------------------------------------------------------------
(***************************************************************************)
(* Calls.  The callers respect the precondition n <= internal counter by   *)
(* never starting calls that subtract more than is left.                   *)
(***************************************************************************)
\* wait(), or arrive_and_wait(0), which is the same.
CallWait(a) ==
  /\ pc[a] = "idle" /\ ~destroyed
  /\ pc' = [pc EXCEPT ![a] = "await_ready"]
  /\ UNCHANGED <<top, counter, destroyed, budget, kind, n, co, next, rest>>

\* arrive_and_wait(m) with m > 0: not ready, suspends at once.
CallArriveAndWait(a, m) ==
  /\ pc[a] = "idle" /\ ~destroyed
  /\ m > 0 /\ m <= budget
  /\ budget' = budget - m
  /\ kind' = [kind EXCEPT ![a] = "arrive"]
  /\ n' = [n EXCEPT ![a] = m]
  /\ pc' = [pc EXCEPT ![a] = "load"]
  /\ UNCHANGED <<top, counter, destroyed, co, next, rest>>

CallCountDown(a, m) ==
  /\ pc[a] = "idle" /\ ~destroyed
  /\ m <= budget
  /\ budget' = budget - m
  /\ kind' = [kind EXCEPT ![a] = "count"]
  /\ n' = [n EXCEPT ![a] = m]
  /\ pc' = [pc EXCEPT ![a] = "fetch_sub"]
  /\ UNCHANGED <<top, counter, destroyed, co, next, rest>>
-----------------------------------------------------------------------------
\* wait_awaiter::await_ready: stack.closed().
AwaitReady(a) ==
  /\ pc[a] = "await_ready"
  /\ IF top = Closed
     THEN /\ pc' = [pc EXCEPT ![a] = "end"]
          /\ co' = [co EXCEPT ![a] = "returned"]
     ELSE /\ pc' = [pc EXCEPT ![a] = "load"]
          /\ UNCHANGED co
  /\ UNCHANGED <<top, counter, destroyed, budget, kind, n, next, rest>>

\* push and try_push: value_ptr->next = top.load().
StackLoad(a) ==
  /\ pc[a] = "load"
  /\ next' = [next EXCEPT ![a] = top]
  /\ pc' = [pc EXCEPT ![a] = "cas"]
  /\ UNCHANGED <<top, counter, destroyed, budget, kind, n, co, rest>>

\* try_push returns false: the coroutine is resumed immediately.
TryPushClosed(a) ==
  /\ pc[a] = "cas" /\ kind[a] = "wait"
  /\ next[a] = Closed
  /\ pc' = [pc EXCEPT ![a] = "end"]
  /\ co' = [co EXCEPT ![a] = "returned"]
  /\ UNCHANGED <<top, counter, destroyed, budget, kind, n, next, rest>>

\* Wrong: try_push that does not look for the closed marker.
PushUnchecked(a) ==
  /\ pc[a] = "cas"
  /\ next[a] = top
  /\ top' = a
  /\ co' = [co EXCEPT ![a] = "suspended"]
  /\ pc' = [pc EXCEPT ![a] = IF kind[a] = "wait" THEN "end" ELSE "fetch_sub"]
  /\ UNCHANGED <<counter, destroyed, budget, kind, n, next, rest>>

\* compare_exchange_weak succeeds: the coroutine can be found by others.  The
\* thread that waits is done, the one that arrives goes on to count_down.
CasSucceeds(a) ==
  /\ pc[a] = "cas"
  /\ kind[a] = "wait" => next[a] # Closed
  /\ next[a] = top
  /\ top' = a
  /\ co' = [co EXCEPT ![a] = "suspended"]
  /\ pc' = [pc EXCEPT ![a] = IF kind[a] = "wait" THEN "end" ELSE "fetch_sub"]
  /\ UNCHANGED <<counter, destroyed, budget, kind, n, next, rest>>

\* It fails, spuriously or because top has changed, and reloads.
CasFails(a) ==
  /\ pc[a] = "cas"
  /\ kind[a] = "wait" => next[a] # Closed
  /\ next' = [next EXCEPT ![a] = top]
  /\ UNCHANGED <<top, counter, destroyed, budget, kind, n, pc, co, rest>>

\* Wrong: wakes everybody as soon as anything was counted.
CountDownAlwaysWakes(a) ==
  /\ pc[a] = "fetch_sub"
  /\ counter' = counter - n[a]
  /\ pc' = [pc EXCEPT ![a] = "read_exe"]
  /\ UNCHANGED <<top, destroyed, budget, kind, n, co, next, rest>>

\* count_down: counter.fetch_sub(n), and whether this was the last.
CountDown(a) ==
  /\ pc[a] = "fetch_sub"
  /\ counter' = counter - n[a]
  /\ pc' = [pc EXCEPT ![a] = IF counter = n[a] THEN "read_exe" ELSE "end"]
  /\ UNCHANGED <<top, destroyed, budget, kind, n, co, next, rest>>

\* wakeup_all: copy the executor out of the latch ...
WakeupReadExe(a) ==
  /\ pc[a] = "read_exe"
  /\ pc' = [pc EXCEPT ![a] = "close"]
  /\ UNCHANGED <<top, counter, destroyed, budget, kind, n, co, next, rest>>

\* ... close the stack ...
WakeupClose(a) ==
  /\ pc[a] = "close"
  /\ rest' = [rest EXCEPT ![a] = IF top = Closed THEN Null ELSE top]
  /\ top' = Closed
  /\ pc' = [pc EXCEPT ![a] = "attach"]
  /\ UNCHANGED <<counter, destroyed, budget, kind, n, co, next>>

\* Wrong: steps to the next node after the current one was attached.
AttachThenStep(a) ==
  /\ pc[a] = "attach"
  /\ \/ /\ rest[a] = Null
        /\ pc' = [pc EXCEPT ![a] = "end"]
        /\ UNCHANGED <<co, rest>>
     \/ /\ rest[a] # Null /\ co[rest[a]] = "suspended"
        /\ co' = [co EXCEPT ![rest[a]] = "attached"]
        /\ UNCHANGED <<pc, rest>>
     \/ /\ rest[a] # Null /\ co[rest[a]] # "suspended"
        /\ rest' = [rest EXCEPT ![a] = next[rest[a]]]
        /\ UNCHANGED <<pc, co>>
  /\ UNCHANGED <<top, counter, destroyed, budget, kind, n, next>>

\* ... and attach_list: read `next`, then attach the node.
AttachList(a) ==
  /\ pc[a] = "attach"
  /\ IF rest[a] = Null
     THEN /\ pc' = [pc EXCEPT ![a] = "end"]
          /\ UNCHANGED <<co, rest>>
     ELSE /\ rest' = [rest EXCEPT ![a] = next[rest[a]]]
          /\ co' = [co EXCEPT ![rest[a]] = "attached"]
          /\ UNCHANGED pc
  /\ UNCHANGED <<top, counter, destroyed, budget, kind, n, next>>
-----------------------------------------------------------------------------
\* The executor resumes the coroutine of a; its awaiter and node are gone.
ExecutorResumes(a) ==
  /\ co[a] = "attached"
  /\ co' = [co EXCEPT ![a] = "returned"]
  /\ UNCHANGED <<top, counter, destroyed, budget, kind, n, pc, next, rest>>

(***************************************************************************)
(* A coroutine whose wait has returned destroys the latch.  Nobody calls   *)
(* the latch later, and nobody is using it in wait() or in a count_down    *)
(* that counts nothing: the waiter has not waited for those.  The calls    *)
(* that did count may still be going on, their callers cannot know.        *)
(***************************************************************************)
Destroy(a) ==
  /\ co[a] = "returned" /\ ~destroyed
  /\ \A b \in Actors : /\ pc[b] \notin {"await_ready", "load", "cas"}
                       /\ kind[b] = "count" /\ n[b] = 0 => pc[b] \in {"attach", "end"}
  /\ destroyed' = TRUE
  /\ UNCHANGED <<top, counter, budget, kind, n, pc, co, next, rest>>

Call(a) == \/ CallWait(a)
           \/ \E m \in Decrements : CallArriveAndWait(a, m) \/ CallCountDown(a, m)
ThreadStep(a) ==
  \/ AwaitReady(a) \/ StackLoad(a) \/ TryPushClosed(a) \/ CasSucceeds(a)
  \/ CasFails(a) \/ CountDown(a) \/ WakeupReadExe(a) \/ WakeupClose(a) \/ AttachList(a)

Next == \E a \in Actors : Call(a) \/ ThreadStep(a) \/ ExecutorResumes(a) \/ Destroy(a)

Spec == Init /\ [][Next]_vars

\* Threads inside an operation go on; the executor runs what it is given.
\* Nobody is obliged to call anything or to destroy the latch.
Fairness == \A a \in Actors : WF_vars(ThreadStep(a)) /\ WF_vars(ExecutorResumes(a))

FairSpec == Spec /\ Fairness
-----------------------------------------------------------------------------
ConstantsAreSane ==
  /\ MaxCount \in Nat /\ Decrements \subseteq Nat
  /\ Null \notin Actors /\ Closed \notin Actors /\ Null # Closed

TypeOK ==
  /\ ConstantsAreSane
  /\ top \in Actors \cup {Null, Closed}
  /\ counter \in 0 .. MaxCount /\ budget \in 0 .. MaxCount
  /\ destroyed \in BOOLEAN
  /\ kind \in [Actors -> {"wait", "arrive", "count"}]
  /\ n \in [Actors -> Nat]
  /\ pc \in [Actors -> {"idle", "await_ready", "load", "cas", "fetch_sub",
                        "read_exe", "close", "attach", "end"}]
  /\ co \in [Actors -> {"running", "suspended", "attached", "returned"}]
  /\ next \in [Actors -> Actors \cup {Null, Closed}]
  /\ rest \in [Actors -> Actors \cup {Null}]

(***************************************************************************)
(* The latch opens only when the count is zero: no interleaving of pushes, *)
(* failed exchanges and count_downs lets a waiter through earlier.         *)
(***************************************************************************)
NobodyPassesEarly ==
  (\E a \in Actors : co[a] \in {"attached", "returned"}) => counter = 0

(***************************************************************************)
(* "do not use *this after possible destroy": the thread that wakes the    *)
(* waiters, and the others still inside count_down, do not touch a latch   *)
(* that a woken waiter has destroyed.                                      *)
(***************************************************************************)
NoUseAfterDestroy ==
  destroyed => \A a \in Actors :
    pc[a] \notin {"await_ready", "load", "cas", "fetch_sub", "read_exe", "close"}

(***************************************************************************)
(* A node is read by attach_list only while its coroutine is suspended:    *)
(* the list of one waker never leads to a coroutine that was resumed, by   *)
(* this waker or by another one.                                           *)
(***************************************************************************)
AttachListSeesLiveNodes ==
  \A a \in Actors : rest[a] # Null => co[rest[a]] = "suspended"

(***************************************************************************)
(* Every waiter is released once the count is zero, in particular the one  *)
(* whose push races with the closing of the stack.                         *)
(***************************************************************************)
EveryWaiterReturns ==
  \A a \in Actors :
    counter = 0 /\ (pc[a] \in {"await_ready", "load", "cas"} \/ co[a] = "suspended")
      ~> co[a] = "returned"

(***************************************************************************)
(* count_down, wait and wakeup_all touch neither a latch that a woken      *)
(* waiter has destroyed nor, in attach_list, a node whose coroutine has    *)
(* gone on; with the types of the state.                                   *)
(***************************************************************************)
NothingDeadIsTouched ==
  /\ TypeOK /\ NoUseAfterDestroy /\ AttachListSeesLiveNodes
=============================================================================
