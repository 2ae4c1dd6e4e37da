------------------------------- MODULE WhenAll -------------------------------
(***************************************************************************)
(* when_all(tasks...) and when_all(vector<task>) of algorithm.hpp: a job   *)
(* per child starts it and writes its outcome into the frame of when_all;  *)
(* the one that counts down to zero destroys itself and transfers control  *)
(* to when_all, which returns the results and is destroyed by its awaiter. *)
(*                                                                         *)
(* The jobs are started one after another by the thread that awaits        *)
(* when_all (the starter).  A child runs on that thread until it suspends, *)
(* and may be finished later by any other thread.                          *)
(***************************************************************************)
EXTENDS Integers, FiniteSets

CONSTANT N  \* number of tasks; zero returns at once and is not modelled

ASSUME NAssumption == N \in Nat \ {0}

Tasks    == 1 .. N
Outcomes == {"value", "exception"}

VARIABLES starting, \* the task whose job the starter runs; N + 1 when done
          job,      \* where the job of each task is
          inline,   \* tasks that still run on the starter's thread
          outcome,  \* how each child ended
          results,  \* results in the frame, "none" before they are written
          count,    \* the atomic in the frame
          owner,    \* the coroutine when_all
          resumes   \* how often it was resumed

vars == <<starting, job, inline, outcome, results, count, owner, resumes>>

Init == /\ starting = 1
        /\ job = [i \in Tasks |-> "none"]
        /\ inline = {}
        /\ outcome = [i \in Tasks |-> "none"]
        /\ results = [i \in Tasks |-> "none"]
        /\ count = N
        /\ owner = "suspended"
        /\ resumes = 0
-----------------------------------------------------------------------------
\* The starter is back in its loop, in suspend_and, before the next job.
StarterIsFree == inline = {} /\ (starting > N \/ job[starting] = "none")

\* job_for_when_all: wait_with_proxy_owner starts the child at once.
StartJob ==
  /\ starting \in Tasks /\ StarterIsFree
  /\ job' = [job EXCEPT ![starting] = "child"]
  /\ inline' = {starting}
  /\ UNCHANGED <<starting, outcome, results, count, owner, resumes>>

\* The child suspends and goes on elsewhere: the starter gets its thread back.
ChildSuspends(i) ==
  /\ i \in inline /\ job[i] = "child"
  /\ inline' = {}
  /\ starting' = starting + 1
  /\ UNCHANGED <<job, outcome, results, count, owner, resumes>>

\* The child ends; its final suspend resumes the job.
ChildEnds(i) ==
  /\ job[i] = "child"
  /\ \E o \in Outcomes : outcome' = [outcome EXCEPT ![i] = o]
  /\ job' = [job EXCEPT ![i] = "write"]
  /\ UNCHANGED <<starting, inline, results, count, owner, resumes>>

\* The job reads the child's promise and fills its slot of the results.
WriteResult(i) ==
  /\ job[i] = "write"
  /\ results' = [results EXCEPT ![i] = outcome[i]]
  /\ job' = [job EXCEPT ![i] = "sub"]
  /\ UNCHANGED <<starting, inline, outcome, count, owner, resumes>>

\* Leaving a job: on the starter's thread the loop goes on.
Leave(i) == IF i \in inline THEN inline' = {} /\ starting' = starting + 1
                            ELSE UNCHANGED <<inline, starting>>

\* Wrong: count is read again after it was decremented.
SubThenLoad(i) ==
  /\ \/ /\ job[i] = "sub"
        /\ count' = count - 1
        /\ job' = [job EXCEPT ![i] = "load"]
        /\ UNCHANGED <<inline, starting>>
     \/ /\ job[i] = "load"
        /\ count' = count
        /\ IF count = 0 THEN job' = [job EXCEPT ![i] = "transfer"] /\ UNCHANGED <<inline, starting>>
                        ELSE job' = [job EXCEPT ![i] = "done"] /\ Leave(i)
  /\ UNCHANGED <<outcome, results, owner, resumes>>

\* Wrong: the job that counts down to zero ends like the others.
SubResumesNobody(i) ==
  /\ job[i] = "sub"
  /\ count' = count - 1
  /\ job' = [job EXCEPT ![i] = "done"]
  /\ Leave(i)
  /\ UNCHANGED <<outcome, results, owner, resumes>>

\* count.fetch_sub(1): the last use of the frame by a job that is not last.
FetchSub(i) ==
  /\ job[i] = "sub"
  /\ count' = count - 1
  /\ IF count = 1
     THEN job' = [job EXCEPT ![i] = "transfer"] /\ UNCHANGED <<inline, starting>>
     ELSE job' = [job EXCEPT ![i] = "done"] /\ Leave(i)
  /\ UNCHANGED <<outcome, results, owner, resumes>>

\* destroy_and_transfer_control_to(owner): the job's frame is gone, when_all
\* runs on this thread.
Transfer(i) ==
  /\ job[i] = "transfer"
  /\ job' = [job EXCEPT ![i] = "done"]
  /\ owner' = "running"
  /\ resumes' = resumes + 1
  /\ UNCHANGED <<starting, inline, outcome, results, count>>

\* co_return results; whoever awaits when_all destroys it.  If all this ran on
\* the starter's thread, the starter returns from its last job now.
OwnerReturns ==
  /\ owner = "running"
  /\ owner' = "destroyed"
  /\ inline' = {}
  /\ starting' = IF inline = {} THEN starting ELSE starting + 1
  /\ UNCHANGED <<job, outcome, results, count, resumes>>

\* Everybody has returned.
Terminated == owner = "destroyed" /\ starting = N + 1 /\ UNCHANGED vars

JobStep(i) == WriteResult(i) \/ FetchSub(i) \/ Transfer(i)
Next == \/ StartJob \/ OwnerReturns \/ Terminated
        \/ \E i \in Tasks : ChildSuspends(i) \/ ChildEnds(i) \/ JobStep(i)

Spec == Init /\ [][Next]_vars

\* Threads go on, and the children end, as the tasks given to when_all do.
Fairness == /\ WF_vars(StartJob) /\ WF_vars(OwnerReturns)
            /\ \A i \in Tasks : WF_vars(ChildEnds(i)) /\ WF_vars(JobStep(i))

FairSpec == Spec /\ Fairness
-----------------------------------------------------------------------------
TypeOK ==
  /\ starting \in 1 .. N + 1
  /\ job \in [Tasks -> {"none", "child", "write", "sub", "transfer", "done"}]
  /\ inline \in SUBSET Tasks
  /\ outcome \in [Tasks -> Outcomes \cup {"none"}]
  /\ results \in [Tasks -> Outcomes \cup {"none"}]
  /\ count \in 0 .. N
  /\ owner \in {"suspended", "running", "destroyed"}
  /\ resumes \in Nat

(***************************************************************************)
(* when_all is resumed at most once and never early: by then every child,  *)
(* whatever thread ended it and however the starter was delayed, has its   *)
(* own outcome in its own slot.                                            *)
(***************************************************************************)
OwnerSeesAllResults ==
  /\ resumes <= 1
  /\ owner # "suspended" => \A i \in Tasks : results[i] = outcome[i] /\ results[i] # "none"

(***************************************************************************)
(* The children, the results and the counter live in the frame of when_all *)
(* and the jobs and the starter's loop use them by reference: once         *)
(* when_all may be running or destroyed on another thread, no job is left  *)
(* that would, and the starter has no task left to start.                  *)
(***************************************************************************)
FrameOutlivesItsUsers ==
  owner # "suspended" => /\ \A i \in Tasks : job[i] = "done"
                         /\ starting >= N

(***************************************************************************)
(* when_all returns once all children have ended.                          *)
(***************************************************************************)
AllReturns == <>(owner = "destroyed")

(***************************************************************************)
(* when_all goes on after its last job, once, with all results, and nobody *)
(* is left who would use its frame; with the types of the state.           *)
(***************************************************************************)
OwnerIsLast ==
  /\ TypeOK /\ OwnerSeesAllResults /\ FrameOutlivesItsUsers
=============================================================================
