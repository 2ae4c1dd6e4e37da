------------------------------ MODULE MCTasks ------------------------------
(***************************************************************************)
(* Model-checking instance of Task and of the two algorithms that wait for *)
(* tasks, WhenAll and WhenAny.  They share nothing: a behaviour is one of  *)
(* the component in `which`, and the others stay as they were.             *)
(***************************************************************************)
EXTENDS WhenAll

CONSTANTS NAny, Nobody  \* the constants of WhenAny

VARIABLES which,
          anyStarting, anyInline, anyJob, anyOutcome, refs, mtx, result, anyCount,
          anyOwner, frame, anyResumes, returned, history,
          alive, stage, kind, who_waits, obj, taskOwner, got, how, threw, reported, stack

Any == INSTANCE WhenAny WITH
  N <- NAny, starting <- anyStarting, inline <- anyInline, job <- anyJob,
  outcome <- anyOutcome, count <- anyCount, owner <- anyOwner, resumes <- anyResumes

T == INSTANCE Task WITH owner <- taskOwner

allVars  == vars
anyVars  == <<anyStarting, anyInline, anyJob, anyOutcome, refs, mtx, result, anyCount,
              anyOwner, frame, anyResumes, returned, history>>
taskVars == <<alive, stage, kind, who_waits, obj, taskOwner, got, how, threw, reported, stack>>

MCInit == which \in {"when_all", "when_any", "task"} /\ Init /\ Any!Init /\ T!Init

MCNext == \/ which = "when_all" /\ Next /\ UNCHANGED <<which, anyVars, taskVars>>
          \/ which = "when_any" /\ Any!Next /\ UNCHANGED <<which, allVars, taskVars>>
          \/ which = "task" /\ T!Next /\ UNCHANGED <<which, allVars, anyVars>>

\* The fairness of the three, each for the behaviours in which it moves.
AllFairness ==
  /\ WF_allVars(which = "when_all" /\ StartJob)
  /\ WF_allVars(which = "when_all" /\ OwnerReturns)
  /\ \A i \in Tasks : /\ WF_allVars(which = "when_all" /\ ChildEnds(i))
                      /\ WF_allVars(which = "when_all" /\ JobStep(i))

AnyFairness ==
  /\ WF_anyVars(which = "when_any" /\ Any!CreateJobs)
  /\ WF_anyVars(which = "when_any" /\ Any!ResumeJob)
  /\ WF_anyVars(which = "when_any" /\ Any!OwnerReturns)
  /\ \A i \in Any!Tasks : /\ WF_anyVars(which = "when_any" /\ Any!ChildEnds(i))
                          /\ SF_anyVars(which = "when_any" /\ Any!JobStep(i))

TaskFairness ==
  /\ SF_taskVars(which = "task" /\ T!OwnerScheduled)
  /\ SF_taskVars(which = "task" /\ T!OwnerSuspends)
  /\ SF_taskVars(which = "task" /\ T!TaskResumed)
  /\ SF_taskVars(which = "task" /\ T!TaskEnds)
  /\ WF_taskVars(which = "task" /\ (T!TakeResult \/ T!WaitReturns))

MCSpec == /\ MCInit /\ [][MCNext]_<<which, allVars, anyVars, taskVars>>
          /\ AllFairness /\ AnyFairness /\ TaskFairness
-----------------------------------------------------------------------------
\* when_all returns once all its children have ended, see WhenAll.
WhenAllReturns == which = "when_all" => AllReturns

\* when_any returns the first value or the last exception, see WhenAny.
FirstValueOrLastException == Any!FirstValueOrLastException

\* when_any goes on once, alone with its result, and its frame is not used after
\* its destruction, see WhenAny.
OwnerIsAlone == Any!OwnerIsAlone

\* when_any and all its jobs come to their end, see WhenAny.
EverybodyReturns == which = "when_any" => Any!EverybodyReturns

\* The frame of a task is destroyed once, by whoever holds it last, see Task.
FrameHasOneEnd == T!FrameHasOneEnd

\* The outcome of a task reaches who awaits it or on_ignored_exception, see Task.
OutcomeIsNotLost == T!OutcomeIsNotLost

\* The owner that awaits a task is resumed by its end, see Task.
AwaitingOwnerIsResumed == T!AwaitingOwnerIsResumed

\* What common.hpp says of return_exception, and does not hold, see Task.
ReturnedExceptionIsReported == T!ReturnedExceptionIsReported
=============================================================================
