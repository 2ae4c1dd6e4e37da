-------------------------------- MODULE Task --------------------------------
(***************************************************************************)
(* task<Result> (task.hpp) with the default context: a lazy coroutine and  *)
(* the coroutine that made it, its owner, on one thread, as start() asks.  *)
(* Who destroys the frame of the task, and who is resumed at its end, is   *)
(* decided by who_waits and by what the owner holds: the task, the result  *)
(* of start(), a raw handle, or nothing.  An event loop resumes what has   *)
(* suspended; the call stack of the thread is part of the state.           *)
(***************************************************************************)
EXTENDS Sequences

VARIABLES alive,     \* does the frame of the task exist?
          stage,     \* not_started, running, suspended, done
          kind,      \* return_block: EMPTY, VAL, EX
          who_waits, \* nullptr, noop, owner
          obj,       \* what the owner holds: task, started, handle, nothing
          owner,     \* ready, running, awaiting, resumed (has to take the result)
          got,       \* what its last co_await gave: nothing, VAL, EX, garbage
          how,       \* lazy, awaited, started, detached (nobody will look at the result)
          threw,     \* the task has ended with an exception: no, thrown, returned
          reported,  \* on_ignored_exception has been called
          stack      \* what the thread executes, innermost first

vars == <<alive, stage, kind, who_waits, obj, owner, got, how, threw, reported, stack>>

frame == <<alive, stage, kind, threw, reported>>

Init == /\ alive = TRUE /\ stage = "not_started" /\ kind = "EMPTY"
        /\ who_waits = "nullptr" /\ obj = "task"
        /\ owner = "running" /\ got = "nothing" /\ how = "lazy"
        /\ threw = "no" /\ reported = FALSE
        /\ stack = <<"owner">>

OwnerRuns == stack # <<>> /\ stack[1] = "owner" /\ owner = "running"
TaskRuns  == stack # <<>> /\ stack[1] = "task"
-----------------------------------------------------------------------------
\* The owner calls the task function again when the last task is gone for it.
NewTask ==
  /\ OwnerRuns /\ obj = "nothing" /\ ~alive
  /\ alive' = TRUE /\ stage' = "not_started" /\ kind' = "EMPTY"
  /\ who_waits' = "nullptr" /\ obj' = "task" /\ how' = "lazy" /\ got' = "nothing"
  /\ threw' = "no" /\ reported' = FALSE
  /\ UNCHANGED <<owner, stack>>

\* The owner waits for something else and is resumed by the event loop.
OwnerSuspends ==
  /\ OwnerRuns
  /\ owner' = "ready" /\ stack' = Tail(stack)
  /\ UNCHANGED <<frame, who_waits, obj, got, how>>

OwnerScheduled ==
  /\ stack = <<>> /\ owner = "ready"
  /\ owner' = "running" /\ stack' = <<"owner">>
  /\ UNCHANGED <<frame, who_waits, obj, got, how>>

\* co_await task, co_await task.wait(): starter, symmetric transfer to the task.
Starter ==
  /\ OwnerRuns /\ obj = "task" /\ stage = "not_started"
  /\ who_waits' = "owner" /\ how' = "awaited"
  /\ stage' = "running"
  /\ owner' = "awaiting" /\ stack' = <<"task">> \o Tail(stack)
  /\ UNCHANGED <<alive, kind, threw, reported, obj, got>>

\* start(): the task runs inside of the call.
Start ==
  /\ OwnerRuns /\ obj = "task" /\ stage = "not_started"
  /\ who_waits' = "noop" /\ how' = "started" /\ obj' = "started"
  /\ stage' = "running" /\ stack' = <<"task">> \o stack
  /\ UNCHANGED <<alive, kind, threw, reported, owner, got>>

\* Wrong: the noop that start() has set stays.
AwaitStartedKeepsNoop ==
  /\ OwnerRuns /\ obj = "started" /\ stage # "done" /\ how = "started"
  /\ how' = "awaited"
  /\ owner' = "awaiting" /\ stack' = Tail(stack)
  /\ UNCHANGED <<frame, who_waits, obj, got>>

\* co_await of the result of start() and of its wait(), not done: already_started.
AwaitStarted ==
  /\ OwnerRuns /\ obj = "started" /\ stage # "done" /\ how = "started"
  /\ who_waits' = "owner" /\ how' = "awaited"
  /\ owner' = "awaiting" /\ stack' = Tail(stack)
  /\ UNCHANGED <<frame, obj, got>>

\* co_await of a task or of the result of start() that is done: await_ready.
AwaitDone ==
  /\ OwnerRuns /\ obj \in {"task", "started"} /\ stage = "done"
  /\ owner' = "resumed" /\ how' = "awaited"
  /\ UNCHANGED <<frame, who_waits, obj, got, stack>>

\* await_resume, get(): result_or_rethrow.  take_exception leaves EMPTY behind;
\* result() of an EMPTY block is whatever its storage holds.
TakeResult ==
  /\ stack # <<>> /\ stack[1] = "owner" /\ owner = "resumed"
  /\ got' = IF kind = "EMPTY" THEN "garbage" ELSE kind
  /\ kind' = IF kind = "EX" THEN "EMPTY" ELSE kind
  /\ owner' = "running"
  /\ UNCHANGED <<alive, stage, who_waits, obj, how, threw, reported, stack>>

\* await_resume of wait(): the result stays where it is.
WaitReturns ==
  /\ stack # <<>> /\ stack[1] = "owner" /\ owner = "resumed"
  /\ owner' = "running"
  /\ UNCHANGED <<frame, who_waits, obj, got, how, stack>>

\* Wrong: leaves a task that is not done to itself, with a noop at its end.
DropStartedOnly ==
  /\ OwnerRuns /\ obj = "started"
  /\ obj' = "nothing"
  /\ alive' = (stage # "done")
  /\ how' = IF stage = "done" THEN how ELSE "detached"
  /\ UNCHANGED <<stage, kind, who_waits, owner, got, threw, reported, stack>>

\* ~start_result: a task that is done is destroyed, another one detached.
DropStarted ==
  /\ OwnerRuns /\ obj = "started"
  /\ obj' = "nothing"
  /\ IF stage = "done"
     THEN alive' = FALSE /\ UNCHANGED <<who_waits, how>>
     ELSE who_waits' = "nullptr" /\ how' = "detached" /\ UNCHANGED alive
  /\ UNCHANGED <<stage, kind, owner, got, threw, reported, stack>>

\* start_and_detach(stop_at_end) of a task that has not started.
StartAndDetach(stop) ==
  /\ OwnerRuns /\ obj = "task" /\ stage = "not_started"
  /\ who_waits' = (IF stop THEN "noop" ELSE "nullptr")
  /\ obj' = (IF stop THEN "handle" ELSE "nothing")
  /\ how' = (IF stop THEN "started" ELSE "detached")
  /\ stage' = "running" /\ stack' = <<"task">> \o stack
  /\ UNCHANGED <<alive, kind, threw, reported, owner, got>>

\* start_and_detach(stop_at_end) of a task that is done.
DetachDone(stop) ==
  /\ OwnerRuns /\ obj = "task" /\ stage = "done"
  /\ who_waits' = "nullptr"
  /\ IF stop THEN obj' = "handle" /\ UNCHANGED alive
             ELSE obj' = "nothing" /\ alive' = FALSE
  /\ UNCHANGED <<stage, kind, owner, got, how, threw, reported, stack>>

\* detach(); whoever gets the handle, a thread pool for example, resumes it.
Detach ==
  /\ OwnerRuns /\ obj = "task" /\ stage = "not_started"
  /\ who_waits' = "nullptr" /\ obj' = "nothing" /\ how' = "detached"
  /\ stage' = "suspended"
  /\ UNCHANGED <<alive, kind, threw, reported, owner, got, stack>>

\* ~task, and destroy() of the handle of start_and_detach(true) at its end.
Destroy ==
  /\ OwnerRuns
  /\ obj = "task" \/ (obj = "handle" /\ stage = "done")
  /\ obj' = "nothing" /\ alive' = FALSE
  /\ UNCHANGED <<stage, kind, who_waits, owner, got, how, threw, reported, stack>>

TaskSuspends ==
  /\ TaskRuns
  /\ stage' = "suspended" /\ stack' = Tail(stack)
  /\ UNCHANGED <<alive, kind, threw, reported, who_waits, obj, owner, got, how>>

TaskResumed ==
  /\ stack = <<>> /\ stage = "suspended"
  /\ stage' = "running" /\ stack' = <<"task">>
  /\ UNCHANGED <<alive, kind, threw, reported, who_waits, obj, owner, got, how>>

\* Wrong: noop does not keep the frame for the result of start().
FinalDestroysUnawaited ==
  /\ stage' = "done"
  /\ IF who_waits = "owner"
     THEN owner' = "resumed" /\ stack' = <<"owner">> \o Tail(stack) /\ UNCHANGED alive
     ELSE alive' = FALSE /\ stack' = Tail(stack) /\ UNCHANGED owner

\* final_suspend: transfer_control_to who_waits; nullptr is suspend_never, and
\* the frame destroys itself.
FinalSuspend ==
  /\ stage' = "done"
  /\ CASE who_waits = "owner"   -> /\ owner' = "resumed"
                                   /\ stack' = <<"owner">> \o Tail(stack)
                                   /\ UNCHANGED alive
       [] who_waits = "noop"    -> stack' = Tail(stack) /\ UNCHANGED <<owner, alive>>
       [] who_waits = "nullptr" -> /\ alive' = FALSE
                                   /\ stack' = Tail(stack)
                                   /\ UNCHANGED owner

\* co_await this_coro::return_place: the result is made before the end.
ReturnPlace ==
  /\ TaskRuns /\ kind = "EMPTY"
  /\ kind' = "VAL"
  /\ UNCHANGED <<alive, stage, threw, reported, who_waits, obj, owner, got, how, stack>>

\* co_return value; co_return rvo, with a result that has been made.
TaskReturns ==
  /\ TaskRuns
  /\ kind' = "VAL"
  /\ FinalSuspend
  /\ UNCHANGED <<who_waits, obj, got, how, threw, reported>>

\* co_return return_exception(e): set_exception, in place of a result that has
\* been made, and final_suspend.
TaskReturnsException ==
  /\ TaskRuns
  /\ kind' = "EX" /\ threw' = "returned"
  /\ FinalSuspend
  /\ UNCHANGED <<who_waits, obj, got, how, reported>>

\* unhandled_exception: set_exception too, and who_waits is asked before.
TaskThrows ==
  /\ TaskRuns
  /\ kind' = "EX" /\ threw' = "thrown"
  /\ reported' = (reported \/ who_waits = "nullptr")
  /\ FinalSuspend
  /\ UNCHANGED <<who_waits, obj, got, how>>

TaskEnds == TaskReturns \/ TaskReturnsException \/ TaskThrows

Next == \/ NewTask \/ OwnerSuspends \/ OwnerScheduled
        \/ Starter \/ Start \/ AwaitStarted \/ AwaitDone \/ TakeResult \/ WaitReturns
        \/ DropStarted \/ Detach \/ Destroy
        \/ \E stop \in BOOLEAN : StartAndDetach(stop) \/ DetachDone(stop)
        \/ TaskSuspends \/ TaskResumed \/ ReturnPlace \/ TaskEnds

Spec == Init /\ [][Next]_vars

(***************************************************************************)
(* The event loop comes to everything that is suspended, and the body of a *)
(* task ends in the end.                                                   *)
(***************************************************************************)
Fairness == /\ SF_vars(OwnerScheduled) /\ SF_vars(OwnerSuspends)
            /\ SF_vars(TaskResumed) /\ SF_vars(TaskEnds)
            /\ WF_vars(TakeResult \/ WaitReturns)

FairSpec == Spec /\ Fairness
-----------------------------------------------------------------------------
TypeOK ==
  /\ alive \in BOOLEAN /\ threw \in {"no", "thrown", "returned"} /\ reported \in BOOLEAN
  /\ stage \in {"not_started", "running", "suspended", "done"}
  /\ kind \in {"EMPTY", "VAL", "EX"} /\ (kind = "EX" => stage = "done")
  /\ who_waits \in {"nullptr", "noop", "owner"}
  /\ obj \in {"task", "started", "handle", "nothing"}
  /\ owner \in {"ready", "running", "awaiting", "resumed"}
  /\ got \in {"nothing", "VAL", "EX", "garbage"}
  /\ how \in {"lazy", "awaited", "started", "detached"}
  /\ stack \in {<<>>, <<"owner">>, <<"task">>, <<"task", "owner">>}

(***************************************************************************)
(* The frame exists as long as anybody can touch it: its own body while it *)
(* has not ended, the owner through the task, the result of start() or the *)
(* handle that stops at the end, and an owner that takes the result.       *)
(***************************************************************************)
FrameOutlivesItsUsers ==
  obj # "nothing" \/ stage \in {"running", "suspended"} \/ owner \in {"awaiting", "resumed"}
    => alive

(***************************************************************************)
(* A frame that nobody holds any more destroys itself: it has not ended    *)
(* and its who_waits is null, whatever the order of start(), suspension,   *)
(* end and ~start_result was.                                              *)
(***************************************************************************)
UnownedFrameDestroysItself ==
  alive /\ obj = "nothing" => stage # "done" /\ who_waits = "nullptr"

(***************************************************************************)
(* The end of a task that an owner has awaited, also after start(),        *)
(* resumes this owner.                                                     *)
(***************************************************************************)
AwaitingOwnerIsResumed == owner = "awaiting" ~> owner = "resumed"

(***************************************************************************)
(* A co_await that is over, of the task or of the result of start(),       *)
(* before or after the end of the task, finds the task done and its value  *)
(* or exception in the promise; only an exception that an earlier co_await *)
(* of the same task has rethrown is not there any more (take_exception).   *)
(* The value of a task that made its result and failed later is not there. *)
(***************************************************************************)
AwaitFindsTheResult ==
  owner = "resumed" => /\ stage = "done"
                       /\ kind = "EMPTY" => threw # "no" /\ got \in {"EX", "garbage"}
                       /\ kind = "VAL" => threw = "no"

(***************************************************************************)
(* What is thrown in a task that was detached before its end, by detach(), *)
(* by start_and_detach() or by dropping the result of start(), is reported *)
(* to on_ignored_exception, whenever the task ends.                        *)
(***************************************************************************)
DetachedExceptionIsReported ==
  threw = "thrown" /\ how = "detached" => reported

(***************************************************************************)
(* "co_return dd::return_exception(my_ex); is EQUAL to throw": then an     *)
(* exception that a detached task returns is reported like one it throws.  *)
(* It is not: only unhandled_exception looks at who_waits.                 *)
(***************************************************************************)
ReturnedExceptionIsReported ==
  threw = "returned" /\ how = "detached" => reported

(***************************************************************************)
(* The frame of a task is destroyed by whoever is the last to hold it, the *)
(* owner or the task itself at its end, not earlier and not never; with    *)
(* the types of the state.                                                 *)
(***************************************************************************)
FrameHasOneEnd ==
  /\ TypeOK /\ FrameOutlivesItsUsers /\ UnownedFrameDestroysItself

(***************************************************************************)
(* What a task has ended with is there for whoever awaits it, and an       *)
(* exception that nobody can await any more is reported.                   *)
(***************************************************************************)
OutcomeIsNotLost ==
  /\ AwaitFindsTheResult /\ DetachedExceptionIsReported
=============================================================================
