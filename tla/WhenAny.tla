------------------------------- MODULE WhenAny -------------------------------
(***************************************************************************)
(* when_any(tasks...) and when_any(vector<task>) of algorithm.hpp.  The    *)
(* result is collected in a when_any_state on the heap, owned by the frame *)
(* of when_any and reached by the jobs, one per child, through weak_ptrs.  *)
(* when_any may return, and be destroyed with its frame, while children    *)
(* run and even while the starter is still resuming the jobs.              *)
(*                                                                         *)
(* The jobs are resumed one after another by the thread that awaits        *)
(* when_any (the starter).  A child runs on that thread until it suspends, *)
(* and may be finished later by any other thread.                          *)
(***************************************************************************)
EXTENDS Integers, FiniteSets, Sequences

CONSTANTS N,      \* number of tasks
          Nobody  \* the mutex is free; the owner handle is null

Tasks == 1 .. N

VARIABLES starting, \* the job the starter runs; 0 while it creates them, N + 1 at the end
          inline,   \* tasks that still run on the starter's thread
          job,      \* where the job of each task is
          outcome,  \* how each child ended
          refs,     \* who holds a shared_ptr to the state: the frame (0), jobs
          mtx, result, count, owner, \* when_any_state: mtx, result, count_waiters, owner
          frame,    \* the coroutine when_any
          resumes,  \* how often it was resumed
          returned, \* what it returned
          history   \* what was reported to the state, in the order of its mutex

vars == <<starting, inline, job, outcome, refs, mtx, result, count, owner,
          frame, resumes, returned, history>>
stateVars == <<mtx, result, count, owner, history>>
ownerVars == <<frame, resumes, returned>>
startVars == <<starting, inline>>

NoResult == <<"none", 0>>

Init == /\ starting = 0 /\ inline = {}
        /\ job = [i \in Tasks |-> "none"]
        /\ outcome = [i \in Tasks |-> "none"]
        /\ refs = {0}
        /\ mtx = Nobody
        /\ result = NoResult
        /\ count = N
        /\ owner = "when_any"
        /\ frame = "suspended" /\ resumes = 0 /\ returned = NoResult
        /\ history = <<>>
-----------------------------------------------------------------------------
\* Wrong: creates a job and resumes it before the next one is created.
CreateOneJob ==
  /\ \E i \in Tasks : /\ job[i] = "none" /\ \A k \in 1 .. i - 1 : job[k] # "none"
                      /\ inline = {} /\ starting = i - 1
                      /\ job' = [job EXCEPT ![i] = "entry"]
                      /\ starting' = IF i = 1 THEN 1 ELSE starting
  /\ UNCHANGED <<inline, outcome, refs, stateVars, ownerVars>>

\* All jobs are created first, suspended at their entry; this moves the tasks
\* and the weak_ptr out of the frame of when_any.
CreateJobs ==
  /\ starting = 0
  /\ starting' = 1
  /\ job' = [i \in Tasks |-> "entry"]
  /\ UNCHANGED <<inline, outcome, refs, stateVars, ownerVars>>

\* for (job& j : jobs) j.handle.resume(): state.expired() is tested first.
ResumeJob ==
  /\ starting \in Tasks /\ inline = {} /\ job[starting] = "entry"
  /\ IF refs = {}
     THEN job' = [job EXCEPT ![starting] = "done"] /\ starting' = starting + 1 /\ UNCHANGED inline
     ELSE job' = [job EXCEPT ![starting] = "child"] /\ inline' = {starting} /\ UNCHANGED starting
  /\ UNCHANGED <<outcome, refs, stateVars, ownerVars>>

\* The child suspends and goes on elsewhere: the starter gets its thread back.
ChildSuspends(i) ==
  /\ i \in inline /\ job[i] = "child"
  /\ inline' = {} /\ starting' = starting + 1
  /\ UNCHANGED <<job, outcome, refs, stateVars, ownerVars>>

\* The child ends; its final suspend resumes the job.
ChildEnds(i) ==
  /\ job[i] = "child"
  /\ \E o \in {"value", "exception"} : outcome' = [outcome EXCEPT ![i] = o]
  /\ job' = [job EXCEPT ![i] = "lock_state"]
  /\ UNCHANGED <<startVars, refs, stateVars, ownerVars>>

\* A job ends, or the coroutine it has resumed returns: if that was on the
\* starter's thread its loop goes on.
Leave(i) == IF i \in inline THEN inline' = {} /\ starting' = starting + 1
                            ELSE UNCHANGED startVars

\* state.lock(): nobody waits any more, or the job shares the state now.
LockState(i) ==
  /\ job[i] = "lock_state"
  /\ IF refs = {}
     THEN job' = [job EXCEPT ![i] = "done"] /\ Leave(i) /\ UNCHANGED refs
     ELSE /\ job' = [job EXCEPT ![i] = IF outcome[i] = "value" THEN "set_result" ELSE "set_exception"]
          /\ refs' = refs \cup {i}
          /\ UNCHANGED startVars
  /\ UNCHANGED <<outcome, stateVars, ownerVars>>

\* lock_guard l(mtx) in set_exception and set_result.
LockMtx(i, from, to) ==
  /\ job[i] = from
  /\ mtx = Nobody
  /\ mtx' = i
  /\ job' = [job EXCEPT ![i] = to]
  /\ UNCHANGED <<startVars, outcome, refs, result, count, owner, history, ownerVars>>

SetExceptionLock(i) == LockMtx(i, "set_exception", "exception_locked")
SetResultLock(i)    == LockMtx(i, "set_result", "result_locked")

\* `if (!owner) return nullptr`, in both: the value that was set stays.
SetTooLate(i) ==
  /\ job[i] \in {"exception_locked", "result_locked"}
  /\ owner = Nobody
  /\ mtx' = Nobody
  /\ job' = [job EXCEPT ![i] = "release"]
  /\ UNCHANGED <<startVars, outcome, refs, result, count, owner, history, ownerVars>>

\* Wrong: only a value cares whether a value was set before it.
SetExceptionAnyway(i) ==
  /\ job[i] = "exception_locked"
  /\ result' = <<"exception", i>>
  /\ history' = Append(history, result')
  /\ count' = count - 1
  /\ mtx' = Nobody
  /\ job' = [job EXCEPT ![i] = IF count = 1 /\ owner # Nobody THEN "transfer" ELSE "release"]
  /\ UNCHANGED <<startVars, outcome, refs, owner, ownerVars>>

\* Wrong: an exception does not count.
SetExceptionNotCounted(i) ==
  /\ job[i] = "exception_locked"
  /\ owner # Nobody
  /\ result' = <<"exception", i>>
  /\ history' = Append(history, result')
  /\ mtx' = Nobody
  /\ job' = [job EXCEPT ![i] = IF count = 0 THEN "transfer" ELSE "release"]
  /\ UNCHANGED <<startVars, outcome, refs, count, owner, ownerVars>>

\* set_exception: only the last of all children resumes the owner with it.
SetException(i) ==
  /\ job[i] = "exception_locked"
  /\ owner # Nobody
  /\ result' = <<"exception", i>>
  /\ history' = Append(history, result')
  /\ count' = count - 1
  /\ mtx' = Nobody
  /\ job' = [job EXCEPT ![i] = IF count = 1 THEN "transfer" ELSE "release"]
  /\ UNCHANGED <<startVars, outcome, refs, owner, ownerVars>>

\* set_result: the first value takes the owner's handle and resumes it.
SetResult(i) ==
  /\ job[i] = "result_locked"
  /\ owner # Nobody
  /\ result' = <<"value", i>>
  /\ history' = Append(history, result')
  /\ owner' = Nobody
  /\ mtx' = Nobody
  /\ job' = [job EXCEPT ![i] = "transfer"]
  /\ UNCHANGED <<startVars, outcome, refs, count, ownerVars>>

\* The value's constructor throws: the old result is gone, the mutex is
\* unlocked, and set_exception is called like for a child that has failed.
SetResultThrows(i) ==
  /\ job[i] = "result_locked"
  /\ owner # Nobody
  /\ result' = NoResult
  /\ mtx' = Nobody
  /\ job' = [job EXCEPT ![i] = "set_exception"]
  /\ UNCHANGED <<startVars, outcome, refs, count, owner, history, ownerVars>>

\* The job returns: its frame and its shared_ptr are destroyed.
JobReturns(i) ==
  /\ job[i] = "release"
  /\ job' = [job EXCEPT ![i] = "done"]
  /\ refs' = refs \ {i}
  /\ Leave(i)
  /\ UNCHANGED <<outcome, stateVars, ownerVars>>

\* destroy_and_transfer_control_to(owner): likewise, and when_any runs on
\* this thread.
Transfer(i) ==
  /\ job[i] = "transfer"
  /\ job' = [job EXCEPT ![i] = "done"]
  /\ refs' = refs \ {i}
  /\ frame' = "running"
  /\ resumes' = resumes + 1
  /\ UNCHANGED <<startVars, outcome, stateVars, returned>>

\* co_return std::move(*state->result), without the mutex; whoever awaits
\* when_any destroys it, and with it the frame's shared_ptr.
OwnerReturns ==
  /\ frame = "running"
  /\ returned' = result
  /\ frame' = "destroyed"
  /\ refs' = refs \ {0}
  /\ IF \E i \in inline : job[i] = "done" THEN inline' = {} /\ starting' = starting + 1
                                          ELSE UNCHANGED startVars
  /\ UNCHANGED <<job, outcome, stateVars, resumes>>

\* Everybody has returned.
Terminated == /\ frame = "destroyed" /\ starting = N + 1
              /\ \A i \in Tasks : job[i] = "done"
              /\ UNCHANGED vars

JobStep(i) == \/ LockState(i) \/ SetExceptionLock(i) \/ SetResultLock(i) \/ SetTooLate(i)
              \/ SetException(i) \/ SetResult(i) \/ SetResultThrows(i)
              \/ JobReturns(i) \/ Transfer(i)
Next == \/ CreateJobs \/ ResumeJob \/ OwnerReturns \/ Terminated
        \/ \E i \in Tasks : ChildSuspends(i) \/ ChildEnds(i) \/ JobStep(i)

Spec == Init /\ [][Next]_vars

\* Threads go on, a mutex is never withheld for ever, and the children end.
Fairness == /\ WF_vars(CreateJobs) /\ WF_vars(ResumeJob) /\ WF_vars(OwnerReturns)
            /\ \A i \in Tasks : WF_vars(ChildEnds(i)) /\ SF_vars(JobStep(i))

FairSpec == Spec /\ Fairness
-----------------------------------------------------------------------------
Reports == {NoResult} \cup ({"value", "exception"} \X Tasks)

ConstantsAreSane == N \in Nat \ {0} /\ Nobody \notin Tasks /\ Nobody # "when_any"

TypeOK ==
  /\ ConstantsAreSane
  /\ starting \in 0 .. N + 1 /\ inline \in SUBSET Tasks
  /\ job \in [Tasks -> {"none", "entry", "child", "lock_state", "set_exception", "set_result",
                        "exception_locked", "result_locked", "release", "transfer", "done"}]
  /\ outcome \in [Tasks -> {"none", "value", "exception"}]
  /\ refs \in SUBSET (0 .. N)
  /\ mtx \in Tasks \cup {Nobody} /\ owner \in {"when_any", Nobody}
  /\ result \in Reports /\ returned \in Reports
  /\ count \in 0 .. N
  /\ frame \in {"suspended", "running", "destroyed"} /\ resumes \in Nat
  /\ history \in Seq(Reports)

(***************************************************************************)
(* "returns first not failed or last exception if all failed": what        *)
(* when_any returns, whatever children report while it reads the result    *)
(* without the mutex and whatever constructors throw.                      *)
(***************************************************************************)
FirstValueOrLastException ==
  frame = "destroyed" =>
    LET values == {k \in 1 .. Len(history) : history[k][1] = "value"}
    IN IF values = {} THEN Len(history) = N /\ returned = history[N]
       ELSE \E k \in values : (\A m \in values : k <= m) /\ returned = history[k]

(***************************************************************************)
(* when_any is resumed at most once, and nobody who could still write the  *)
(* result it is about to move out is past the test of `owner`.             *)
(***************************************************************************)
ResumedOnceAndAlone ==
  /\ resumes <= 1
  /\ frame = "running" => \A i \in Tasks : job[i] # "transfer" /\
       (job[i] \in {"exception_locked", "result_locked"} => owner = Nobody)

(***************************************************************************)
(* The frame of when_any is used by the starter to create the jobs and by  *)
(* the job that resumes it: neither happens after it was destroyed.  The   *)
(* state is alive for every job that is inside it.                         *)
(***************************************************************************)
DeadFrameIsNotUsed ==
  frame = "destroyed" => \A i \in Tasks : job[i] \notin {"none", "transfer"}

(***************************************************************************)
(* when_any returns, and every job, those that come too late or are        *)
(* resumed after when_any was destroyed included, comes to its end.        *)
(***************************************************************************)
EverybodyReturns == <>[](frame = "destroyed" /\ \A i \in Tasks : job[i] = "done")

(***************************************************************************)
(* when_any goes on once, alone with its result, and nobody uses its frame *)
(* after it has returned; with the types of the state.                     *)
(***************************************************************************)
OwnerIsAlone ==
  /\ TypeOK /\ ResumedOnceAndAlone /\ DeadFrameIsNotUsed
=============================================================================
