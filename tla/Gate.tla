-------------------------------- MODULE Gate --------------------------------
(***************************************************************************)
(* gate (gate.hpp), used by coroutines of one thread.  leave() resumes the *)
(* coroutines that wait for close() itself, one after the other, and each  *)
(* of them may use the gate, and leave it, before the next one is resumed. *)
(* The call stack of the thread is therefore part of the state.            *)
(***************************************************************************)
EXTENDS Integers, Sequences, FiniteSets

CONSTANTS Coros,
          MaxHold   \* bound on holders (enter without leave) of a coroutine

ASSUME GateAssumption == MaxHold \in Nat \ {0}

VARIABLES count, closed, waiters, \* gate: count, close_requested, close_waiters
          stack,   \* what the thread executes, innermost first: coroutines,
                   \* and loops of attach_list with the rest of their list
          co,      \* ready, running, waiting, returned (from co_await close())
          holds,   \* entered and not left
          pending  \* has called close() and not yet awaited it

vars == <<count, closed, waiters, stack, co, holds, pending>>

Co(c)      == <<"co", c>>
Walk(list) == <<"walk", list>>

Init == /\ count = 0 /\ closed = FALSE /\ waiters = <<>>
        /\ stack = <<>>
        /\ co = [c \in Coros |-> "ready"]
        /\ holds = [c \in Coros |-> 0]
        /\ pending = [c \in Coros |-> FALSE]

Running(c) == stack # <<>> /\ stack[1] = Co(c) /\ co[c] = "running"
Free(c)    == Running(c) /\ ~pending[c]

\* Those who were popped by a leave() that has not come to them yet.
Popped == UNION {{stack[k][2][i] : i \in DOMAIN stack[k][2]} :
                   k \in {j \in DOMAIN stack : stack[j][1] = "walk"}}
-----------------------------------------------------------------------------
\* The event loop resumes a coroutine; a coroutine suspends for other reasons,
\* also between close() and the co_await of what it has returned.
Schedule(c) ==
  /\ stack = <<>> /\ co[c] = "ready"
  /\ stack' = <<Co(c)>>
  /\ co' = [co EXCEPT ![c] = "running"]
  /\ UNCHANGED <<count, closed, waiters, holds, pending>>

Suspend(c) ==
  /\ Running(c)
  /\ stack' = Tail(stack)
  /\ co' = [co EXCEPT ![c] = "ready"]
  /\ UNCHANGED <<count, closed, waiters, holds, pending>>

\* try_enter() that returns true, enter(), hold().
Enter(c) ==
  /\ Free(c) /\ holds[c] < MaxHold
  /\ ~closed
  /\ count' = count + 1
  /\ holds' = [holds EXCEPT ![c] = @ + 1]
  /\ UNCHANGED <<closed, waiters, stack, co, pending>>

\* Wrong: one waiter is resumed, the others stay.
LeaveResumesOne(c) ==
  /\ Free(c) /\ holds[c] > 0
  /\ count' = count - 1
  /\ holds' = [holds EXCEPT ![c] = @ - 1]
  /\ IF closed /\ count = 1 /\ waiters # <<>>
     THEN stack' = <<Walk(<<Head(waiters)>>)>> \o stack /\ waiters' = Tail(waiters)
     ELSE UNCHANGED <<stack, waiters>>
  /\ UNCHANGED <<closed, co, pending>>

\* leave(), ~holder, holder::release(): the last one out of a closed gate pops
\* all waiters and starts to resume them.
Leave(c) ==
  /\ Free(c) /\ holds[c] > 0
  /\ count' = count - 1
  /\ holds' = [holds EXCEPT ![c] = @ - 1]
  /\ IF closed /\ count = 1
     THEN stack' = <<Walk(waiters)>> \o stack /\ waiters' = <<>>
     ELSE UNCHANGED <<stack, waiters>>
  /\ UNCHANGED <<closed, co, pending>>

\* attach_list(this_thread_executor, ...): resume the next waiter, return.
WalkNext ==
  /\ stack # <<>> /\ stack[1][1] = "walk"
  /\ LET list == stack[1][2]
     IN IF list = <<>>
        THEN stack' = Tail(stack) /\ UNCHANGED co
        ELSE /\ stack' = <<Co(Head(list)), Walk(Tail(list))>> \o Tail(stack)
             /\ co' = [co EXCEPT ![Head(list)] = "returned"]
  /\ UNCHANGED <<count, closed, waiters, holds, pending>>

\* close(): is_closed() from now on, even before the co_await.  A coroutine that is itself inside would wait for itself;
\* users do not do that.
Close(c) ==
  /\ Free(c) /\ holds[c] = 0
  /\ closed' = TRUE
  /\ pending' = [pending EXCEPT ![c] = TRUE]
  /\ UNCHANGED <<count, waiters, stack, co, holds>>

\* co_await of the awaiter: ready if nobody is inside, else wait.
AwaitClose(c) ==
  /\ Running(c) /\ pending[c]
  /\ pending' = [pending EXCEPT ![c] = FALSE]
  /\ IF count = 0
     THEN co' = [co EXCEPT ![c] = "returned"] /\ UNCHANGED <<waiters, stack>>
     ELSE /\ co' = [co EXCEPT ![c] = "waiting"]
          /\ waiters' = Append(waiters, c)
          /\ stack' = Tail(stack)
  /\ UNCHANGED <<count, closed, holds>>

\* The coroutine goes on behind its co_await close().
Continue(c) ==
  /\ stack # <<>> /\ stack[1] = Co(c) /\ co[c] = "returned"
  /\ co' = [co EXCEPT ![c] = "running"]
  /\ UNCHANGED <<count, closed, waiters, stack, holds, pending>>

\* Wrong: asks only the queue whether somebody waits, as the assertion does.
ReopenAsksQueueOnly(c) ==
  /\ Free(c) /\ closed
  /\ count = 0 /\ waiters = <<>>
  /\ closed' = FALSE
  /\ UNCHANGED <<count, waiters, stack, co, holds, pending>>

\* reopen(): "active_count() == 0 && no one waits for `close`", neither in the
\* queue, nor popped from it, nor with the awaiter still in its hands.
Reopen(c) ==
  /\ Free(c) /\ closed
  /\ count = 0 /\ waiters = <<>> /\ Popped = {} /\ \A d \in Coros : ~pending[d]
  /\ closed' = FALSE
  /\ UNCHANGED <<count, waiters, stack, co, holds, pending>>

Next == \/ WalkNext
        \/ \E c \in Coros : \/ Schedule(c) \/ Suspend(c) \/ Enter(c) \/ Leave(c)
                            \/ Close(c) \/ AwaitClose(c) \/ Continue(c) \/ Reopen(c)

Spec == Init /\ [][Next]_vars

(***************************************************************************)
(* The thread goes on, the event loop comes back to every coroutine that   *)
(* is ready, and a coroutine that is inside comes out in the end.          *)
(***************************************************************************)
Fairness == /\ WF_vars(WalkNext)
            /\ \A c \in Coros : /\ SF_vars(Schedule(c)) /\ SF_vars(Suspend(c))
                                /\ SF_vars(Leave(c)) /\ SF_vars(AwaitClose(c))
                                /\ WF_vars(Continue(c))

FairSpec == Spec /\ Fairness
-----------------------------------------------------------------------------
TypeOK ==
  /\ count \in Nat /\ closed \in BOOLEAN
  /\ waiters \in Seq(Coros)
  /\ co \in [Coros -> {"ready", "running", "waiting", "returned"}]
  /\ holds \in [Coros -> 0 .. MaxHold] /\ pending \in [Coros -> BOOLEAN]
  /\ \A k \in DOMAIN stack : stack[k][1] = "co" => co[stack[k][2]] \in {"running", "returned"}

(***************************************************************************)
(* "postcondition: is_closed() == true && `active_count()` == 0": what a   *)
(* coroutine finds when its co_await close() returns, at once, from a      *)
(* leave() or behind other waiters of the same leave().                    *)
(***************************************************************************)
CloseReturnsClosedAndEmpty ==
  \A c \in Coros : co[c] = "returned" => closed /\ count = 0

(***************************************************************************)
(* Somebody is inside as long as somebody waits, and its leave() will wake *)
(* the waiter: a gate with waiters is closed and not empty, or they have   *)
(* been popped already.                                                    *)
(***************************************************************************)
WaitersHaveSomebodyToWakeThem ==
  \A c \in Coros : co[c] = "waiting" =>
    \/ c \in Popped
    \/ closed /\ count > 0 /\ \E i \in DOMAIN waiters : waiters[i] = c

(***************************************************************************)
(* "All close awaiters will be resumed".                                   *)
(***************************************************************************)
AllCloseAwaitersAreResumed ==
  \A c \in Coros : co[c] = "waiting" ~> co[c] # "waiting"

(***************************************************************************)
(* The postcondition of close() holds whenever one returns, and who has to *)
(* wait for it has somebody inside who will wake it; with the types of the *)
(* state.                                                                  *)
(***************************************************************************)
GateInv ==
  /\ TypeOK /\ CloseReturnsClosedAndEmpty /\ WaitersHaveSomebodyToWakeThem
=============================================================================
