---------------------------- MODULE MCSharedFrame ----------------------------
(***************************************************************************)
(* Model-checking instance of the components that share an object between  *)
(* a coroutine and somebody who may destroy it: AsyncTask, LogicalThread,  *)
(* Latch, Events and BlockingGet.  A behaviour is one of the component in  *)
(* `which`; the others stay as they were.                                  *)
(***************************************************************************)
EXTENDS AsyncTask

CONSTANTS Actors, MaxCount, Decrements, Closed, \* of Latch
          Threads,
          GetTasks, MaxHops,                    \* of BlockingGet
          N, Subs, Rounds, Starter, Modes, MaxNotify, MaxAgain \* of Events

VARIABLES which,
          lcpc, flag, stop, lfrees, lobj, lopc, lon, from, todo,
          top, counter, destroyed, budget, tkind, n, tpc, co, next, rest,
          mode, etop, enext, node, value, since, again, awaiter, count, input,
          resumes, epc, cur, erest, val, fired,
          stack, queue, stage, outcome, hops, gready, grefs, gfrees

L == INSTANCE LogicalThread WITH
  cpc <- lcpc, frees <- lfrees, obj <- lobj, opc <- lopc, on <- lon
T == INSTANCE Latch WITH pc <- tpc, kind <- tkind
E == INSTANCE Events WITH top <- etop, next <- enext, pc <- epc, rest <- erest
G == INSTANCE BlockingGet WITH
  Tasks <- GetTasks, ready <- gready, refs <- grefs, frees <- gfrees

asyncVars   == vars
logicalVars == <<lcpc, flag, stop, lfrees, lobj, lopc, lon, from, todo>>
latchVars   == <<top, counter, destroyed, budget, tkind, n, tpc, co, next, rest>>
eventVars   == <<mode, etop, enext, node, value, since, again, awaiter, count, input,
                 resumes, epc, cur, erest, val, fired>>
getVars     == <<stack, queue, stage, outcome, hops, gready, grefs, gfrees>>

MCInit == /\ which \in {"async_task", "logical_thread", "latch", "events", "get"}
          /\ Init /\ L!Init /\ G!Init
          /\ T!Init /\ (which # "latch" => counter = 0)
          /\ E!Init /\ (which # "events" => mode = CHOOSE m \in Modes : TRUE)

MCNext ==
  \/ /\ which = "async_task" /\ Next
     /\ UNCHANGED <<which, logicalVars, latchVars, eventVars, getVars>>
  \/ /\ which = "logical_thread" /\ L!Next
     /\ UNCHANGED <<which, asyncVars, latchVars, eventVars, getVars>>
  \/ /\ which = "latch" /\ T!Next
     /\ UNCHANGED <<which, asyncVars, logicalVars, eventVars, getVars>>
  \/ /\ which = "events" /\ E!Next
     /\ UNCHANGED <<which, asyncVars, logicalVars, latchVars, getVars>>
  \/ /\ which = "get" /\ G!Next
     /\ UNCHANGED <<which, asyncVars, logicalVars, latchVars, eventVars>>

\* The fairness of each, for the behaviours in which it moves.
AsyncFairness ==
  /\ WF_asyncVars(which = "async_task" /\ ConsumerStep)
  /\ \A f \in Frames : WF_asyncVars(which = "async_task" /\ CoroStep(f))

LogicalFairness ==
  /\ WF_logicalVars(which = "logical_thread" /\ L!OwnerStep)
  /\ \A f \in Frames :
       /\ WF_logicalVars(which = "logical_thread" /\ L!CoroFinal(f))
       /\ WF_logicalVars(which = "logical_thread" /\ stop[f] /\ L!CoroReturn(f))

LatchFairness ==
  \A a \in Actors : /\ WF_latchVars(which = "latch" /\ T!ThreadStep(a))
                    /\ WF_latchVars(which = "latch" /\ T!ExecutorResumes(a))

ThreadFairness ==
  \A t \in Threads : /\ WF_eventVars(which = "events" /\ E!ThreadStep(t))
                     /\ WF_getVars(which = "get" /\ G!ThreadStep(t))

MCSpec == /\ MCInit
          /\ [][MCNext]_<<which, asyncVars, logicalVars, latchVars, eventVars, getVars>>
          /\ AsyncFairness /\ LogicalFairness /\ LatchFairness /\ ThreadFairness
-----------------------------------------------------------------------------
\* The frame of a logical_thread is destroyed exactly once and not while it is
\* used, see LogicalThread.
LogicalFrameSafe == L!LogicalFrameSafe

\* join of a logical_thread that was asked to stop returns, see LogicalThread.
CancelledJoinReturns == L!CancelledJoinReturns

\* Neither a destroyed latch nor the node of a resumed waiter is used, see Latch.
NothingDeadIsTouched == T!NothingDeadIsTouched

\* No waiter passes the latch before the count is zero, see Latch.
NobodyPassesEarly == T!NobodyPassesEarly

\* Every waiter of a latch that has come to zero returns, see Latch.
EveryWaiterReturns == T!EveryWaiterReturns

\* Callbacks, and the registration of when_all, use an awaiter that is alive,
\* see Events.
LiveAwaiterOnly == E!LiveAwaiterOnly

\* A suspended subscriber of an event is in exactly one list, see Events.
SubscriberIsInOneList == E!SubscriberIsInOneList

\* Main is resumed once per await, with inputs newer than the await, see Events.
MainGetsFreshInputs == E!MainGetsFreshInputs

\* Who was popped by notify_all is resumed, see Events.
NotifiedIsResumed == E!NotifiedIsResumed

\* get() of a task takes the result of a task that has ended and destroys nothing
\* in use, see BlockingGet.
GetIsSafe == G!GetIsSafe

\* get() returns unless threads wait for each other, see BlockingGet.
GetReturnsOrDeadlocks == G!GetReturnsOrDeadlocks
=============================================================================
