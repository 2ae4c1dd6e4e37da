-------------------------------- MODULE Road --------------------------------
(***************************************************************************)
(* road (road.hpp), used as its comments ask, by coroutines of one thread: *)
(*    while (!co_await r.wait_open());  r.close();  ...  r.open(e);        *)
(* open() hands the waiters to an executor.  this_thread_executor resumes  *)
(* them inside of open(), each before the next one, so that the call stack *)
(* of the thread matters; a queueing executor resumes them later, and      *)
(* others may find the road open before them.                              *)
(***************************************************************************)
EXTENDS Integers, Sequences, FiniteSets

CONSTANT Coros

VARIABLES inline, \* open(this_thread_executor), or open(a queueing executor)
          closed, waiters, \* road: _closed, _waiters
          stack,  \* what the thread executes, innermost first: coroutines,
                  \* and loops of attach_list with the rest of their list
          queue,  \* nodes attached to a queueing executor
          co      \* where each coroutine is, see TypeOK

vars == <<inline, closed, waiters, stack, queue, co>>

Co(c)      == <<"co", c>>
Walk(list) == <<"walk", list>>

Init == /\ inline \in BOOLEAN
        /\ closed = FALSE /\ waiters = <<>>
        /\ stack = <<>> /\ queue = <<>>
        /\ co = [c \in Coros |-> "out"]

Executes(c) == stack # <<>> /\ stack[1] = Co(c)
Elements(list) == {list[i] : i \in DOMAIN list}

\* Those who have been popped by an open() and not been resumed yet.
Popped == Elements(queue) \cup
          UNION {Elements(stack[k][2]) : k \in {j \in DOMAIN stack : stack[j][1] = "walk"}}
-----------------------------------------------------------------------------
\* The event loop resumes a coroutine that waits for something else.
Schedule(c) ==
  /\ stack = <<>> /\ co[c] \in {"out", "paused"}
  /\ stack' = <<Co(c)>>
  /\ co' = [co EXCEPT ![c] = IF @ = "out" THEN "running" ELSE "inside"]
  /\ UNCHANGED <<inline, closed, waiters, queue>>

\* A coroutine waits for something else, with the road closed by it or not.
Suspend(c) ==
  /\ Executes(c) /\ co[c] \in {"running", "inside"}
  /\ stack' = Tail(stack)
  /\ co' = [co EXCEPT ![c] = IF @ = "running" THEN "out" ELSE "paused"]
  /\ UNCHANGED <<inline, closed, waiters, queue>>

\* co_await wait_open(): await_ready, await_suspend.
WaitOpen(c) ==
  /\ Executes(c) /\ co[c] \in {"running", "retry"}
  /\ IF closed
     THEN /\ waiters' = Append(waiters, c)
          /\ co' = [co EXCEPT ![c] = "waiting"]
          /\ stack' = Tail(stack)
     ELSE co' = [co EXCEPT ![c] = "passed"] /\ UNCHANGED <<waiters, stack>>
  /\ UNCHANGED <<inline, closed, queue>>

\* Wrong: whoever has been woken believes that the road is open.
ResumeUnchecked(c) ==
  /\ Executes(c) /\ co[c] = "woken"
  /\ co' = [co EXCEPT ![c] = "passed"]
  /\ UNCHANGED <<inline, closed, waiters, stack, queue>>

\* await_resume of a woken waiter: on false the loop of the caller goes on.
AwaitResume(c) ==
  /\ Executes(c) /\ co[c] = "woken"
  /\ co' = [co EXCEPT ![c] = IF closed THEN "retry" ELSE "passed"]
  /\ UNCHANGED <<inline, closed, waiters, stack, queue>>

\* close(), right behind the loop.
Close(c) ==
  /\ Executes(c) /\ co[c] = "passed"
  /\ closed' = TRUE
  /\ co' = [co EXCEPT ![c] = "inside"]
  /\ UNCHANGED <<inline, waiters, stack, queue>>

\* Wrong: opens the road and wakes nobody.
OpenWakesNobody(c) ==
  /\ Executes(c) /\ co[c] = "inside"
  /\ co' = [co EXCEPT ![c] = "running"]
  /\ closed' = FALSE
  /\ UNCHANGED <<inline, waiters, stack, queue>>

\* open(e): _closed = false, then attach_list(e, _waiters.pop_all()).
Open(c) ==
  /\ Executes(c) /\ co[c] = "inside"
  /\ closed' = FALSE
  /\ waiters' = <<>>
  /\ IF inline THEN stack' = <<Walk(waiters)>> \o stack /\ UNCHANGED queue
               ELSE queue' = queue \o waiters /\ UNCHANGED stack
  /\ co' = [co EXCEPT ![c] = "running"]
  /\ UNCHANGED inline

\* attach_list(this_thread_executor, ...): resume the next one, or return.
WalkNext ==
  /\ stack # <<>> /\ stack[1][1] = "walk"
  /\ LET list == stack[1][2]
     IN IF list = <<>>
        THEN stack' = Tail(stack) /\ UNCHANGED co
        ELSE /\ stack' = <<Co(Head(list)), Walk(Tail(list))>> \o Tail(stack)
             /\ co' = [co EXCEPT ![Head(list)] = "woken"]
  /\ UNCHANGED <<inline, closed, waiters, queue>>

\* The queueing executor runs a node between two turns of the event loop.
RunQueued ==
  /\ stack = <<>> /\ queue # <<>>
  /\ queue' = Tail(queue)
  /\ stack' = <<Co(Head(queue))>>
  /\ co' = [co EXCEPT ![Head(queue)] = "woken"]
  /\ UNCHANGED <<inline, closed, waiters>>

Next == \/ WalkNext
        \/ RunQueued
        \/ \E c \in Coros : \/ Schedule(c) \/ Suspend(c) \/ WaitOpen(c)
                            \/ AwaitResume(c) \/ Close(c) \/ Open(c)

Spec == Init /\ [][Next]_vars

(***************************************************************************)
(* The thread goes on and comes back to every coroutine; one that closed   *)
(* the road opens it in the end.                                           *)
(***************************************************************************)
Fairness == /\ WF_vars(WalkNext) /\ WF_vars(RunQueued)
            /\ \A c \in Coros :
                 /\ SF_vars(Schedule(c)) /\ SF_vars(Suspend(c)) /\ SF_vars(Open(c))
                 /\ WF_vars(co[c] = "retry" /\ WaitOpen(c))
                 /\ WF_vars(AwaitResume(c)) /\ WF_vars(Close(c))

FairSpec == Spec /\ Fairness
-----------------------------------------------------------------------------
TypeOK ==
  /\ inline \in BOOLEAN
  /\ closed \in BOOLEAN
  /\ waiters \in Seq(Coros) /\ queue \in Seq(Coros)
  /\ co \in [Coros -> {"out", "running",    \* elsewhere: suspended, executing
                       "waiting", "woken",  \* in co_await wait_open()
                       "retry", "passed",   \* it returned false, true
                       "inside", "paused"}] \* closed by it: executing, suspended
  /\ \A k \in DOMAIN stack :
       stack[k][1] = "co" => co[stack[k][2]] \notin {"out", "waiting", "paused"}
  /\ (inline => queue = <<>>)

(***************************************************************************)
(* The assertion of close(), "precondition: not closed", never fails: a    *)
(* waiter that is told that the road is open can close it, whoever else    *)
(* was woken by the same open(), and nobody else has it closed meanwhile.  *)
(***************************************************************************)
OnlyOneCloses ==
  /\ \A c \in Coros : co[c] = "passed" => ~closed
  /\ \A c, d \in Coros : {co[c], co[d]} \subseteq {"inside", "paused"} => c = d
  /\ \A c \in Coros : co[c] \in {"inside", "paused"} => closed

(***************************************************************************)
(* Nobody waits on an open road: a waiter is in _waiters of a road that    *)
(* somebody has closed, and will open, or open() has popped it.            *)
(***************************************************************************)
WaitersWaitForSomebody ==
  \A c \in Coros : co[c] = "waiting" =>
    \/ c \in Popped
    \/ c \in Elements(waiters) /\ \E d \in Coros : co[d] \in {"inside", "paused"}

(***************************************************************************)
(* Waiters that lose the race go to the end of _waiters and win in the     *)
(* end, with an executor that resumes them inside of open().               *)
(***************************************************************************)
EveryWaiterPasses ==
  \A c \in Coros : inline /\ co[c] = "waiting" ~> co[c] = "passed"

(***************************************************************************)
(* One coroutine at a time has the road closed and nobody waits on an open *)
(* road, with both kinds of executor; with the types of the state.         *)
(***************************************************************************)
RoadInv ==
  /\ TypeOK /\ OnlyOneCloses /\ WaitersWaitForSomebody
=============================================================================
