---------------------------- MODULE TasksProofs ----------------------------
(***************************************************************************)
(* Proofs about the components of MCTasks, for any number of tasks.  First *)
(* WhenAll: when_all is resumed once and with all results, by a job after  *)
(* which nobody uses its frame.  Then WhenAny: when_any goes on once,      *)
(* alone with its result, which is the first value that was reported or,   *)
(* if there was none, the last exception.  Last Task: its frame is         *)
(* destroyed once, and its outcome is not lost.                            *)
(***************************************************************************)
EXTENDS MCTasks, FiniteSetTheorems, SequenceTheorems, TLAPS

\* The jobs that have not counted down yet.
Uncounted == {i \in Tasks : job[i] \notin {"transfer", "done"}}

\* Behind the end of its child a job knows the outcome, behind its write the
\* slot of its task holds it.
SlotsAreFilled ==
  \A i \in Tasks :
    /\ job[i] \notin {"none", "child"} => outcome[i] # "none"
    /\ job[i] \in {"sub", "transfer", "done"} => results[i] = outcome[i]

\* The starter has started the tasks below `starting`, and this one as long as
\* it keeps the starter's thread; the last job keeps it for when_all.
StarterIsAt ==
  /\ \A i \in Tasks : /\ i < starting => job[i] # "none"
                      /\ i > starting => job[i] = "none"
  /\ \A i \in inline : i = starting /\ job[i] # "none"
  /\ \A i \in inline : job[i] = "done" => owner = "running"

\* The counter counts.  Who has found it to be the last is alone, and when_all
\* goes on only after it.
LastOneResumes ==
  /\ count = Cardinality(Uncounted)
  /\ resumes = IF owner = "suspended" THEN 0 ELSE 1
  /\ owner # "suspended" => count = 0 /\ \A i \in Tasks : job[i] # "transfer"
  /\ \A i \in Tasks : job[i] = "transfer" => count = 0
  /\ \A i, k \in Tasks : job[i] = "transfer" /\ job[k] = "transfer" => i = k

\* The inductive invariant: OwnerIsLast says nothing of the counter.
Inv == TypeOK /\ SlotsAreFilled /\ StarterIsAt /\ LastOneResumes
-----------------------------------------------------------------------------
LEMMA UncountedIsFinite == IsFiniteSet(Uncounted) /\ Cardinality(Uncounted) \in Nat
  <1>1. IsFiniteSet(Tasks)
    BY FS_Interval, NAssumption DEF Tasks
  <1>2. IsFiniteSet(Uncounted)
    BY <1>1, FS_Subset DEF Uncounted
  <1> QED
    BY <1>2, FS_CardinalityType

\* The counter is zero when nobody has to count down, and only then.
LEMMA ZeroMeansNobody ==
  ASSUME LastOneResumes PROVE count = 0 <=> \A i \in Tasks : job[i] \in {"transfer", "done"}
  <1>1. Cardinality(Uncounted) = 0 <=> Uncounted = {}
    BY UncountedIsFinite, FS_EmptySet
  <1>2. Uncounted = {} <=> \A i \in Tasks : job[i] \in {"transfer", "done"}
    BY DEF Uncounted
  <1> QED
    BY <1>1, <1>2 DEF LastOneResumes

LEMMA InitInv == Init => Inv
  <1> SUFFICES ASSUME Init PROVE Inv
    OBVIOUS
  <1>1. TypeOK /\ SlotsAreFilled /\ StarterIsAt
    BY NAssumption DEF Init, TypeOK, SlotsAreFilled, StarterIsAt, Tasks
  <1>2. Uncounted = 1 .. N
    BY DEF Init, Uncounted, Tasks
  <1>3. Cardinality(Uncounted) = N
    BY <1>2, FS_Interval, NAssumption
  <1> QED
    BY <1>1, <1>3 DEF Inv, LastOneResumes, Init

\* Jobs and the starter, apart from the decrement: nobody joins or leaves the
\* set of those who have to count down.
LEMMA OtherStepsInv ==
  ASSUME Inv, NEW i \in Tasks,
         StartJob \/ ChildSuspends(i) \/ ChildEnds(i) \/ WriteResult(i)
  PROVE  Inv'
  <1> USE NAssumption DEF Inv, Tasks, TypeOK
  <1>1. CASE StartJob
    <2>1. starting \in Tasks /\ inline = {} /\ job[starting] = "none"
      BY <1>1 DEF StartJob, StarterIsFree
    <2>2. TypeOK' /\ SlotsAreFilled' /\ StarterIsAt'
      BY <1>1, <2>1 DEF StartJob, SlotsAreFilled, StarterIsAt
    <2>3. Uncounted' = Uncounted
      BY <1>1, <2>1 DEF StartJob, Uncounted
    <2>4. LastOneResumes'
      BY <1>1, <2>1, <2>3 DEF StartJob, LastOneResumes
    <2> QED
      BY <2>2, <2>4
  <1>2. CASE ChildSuspends(i)
    <2>1. TypeOK' /\ SlotsAreFilled' /\ StarterIsAt'
      BY <1>2 DEF ChildSuspends, SlotsAreFilled, StarterIsAt
    <2>2. LastOneResumes'
      BY <1>2 DEF ChildSuspends, LastOneResumes, Uncounted
    <2> QED
      BY <2>1, <2>2
  <1>3. CASE ChildEnds(i)
    <2>1. TypeOK' /\ SlotsAreFilled' /\ StarterIsAt'
      BY <1>3 DEF ChildEnds, SlotsAreFilled, StarterIsAt, Outcomes
    <2>2. Uncounted' = Uncounted
      BY <1>3 DEF ChildEnds, Uncounted
    <2>3. LastOneResumes'
      BY <1>3, <2>2 DEF ChildEnds, LastOneResumes
    <2> QED
      BY <2>1, <2>3
  <1>4. CASE WriteResult(i)
    <2>1. TypeOK' /\ SlotsAreFilled' /\ StarterIsAt'
      BY <1>4 DEF WriteResult, SlotsAreFilled, StarterIsAt
    <2>2. Uncounted' = Uncounted
      BY <1>4 DEF WriteResult, Uncounted
    <2>3. LastOneResumes'
      BY <1>4, <2>2 DEF WriteResult, LastOneResumes
    <2> QED
      BY <2>1, <2>3
  <1> QED
    BY <1>1, <1>2, <1>3, <1>4

\* fetch_sub: the counter follows the set, and one finds that it is the last.
LEMMA FetchSubInv == ASSUME Inv, NEW i \in Tasks, FetchSub(i) PROVE Inv'
  <1> USE NAssumption DEF Inv, Tasks
  <1>1. Uncounted' = Uncounted \ {i} /\ i \in Uncounted
    BY DEF TypeOK, Uncounted, FetchSub
  <1>2. /\ Cardinality(Uncounted') = Cardinality(Uncounted) - 1
        /\ Cardinality(Uncounted') \in Nat
    BY <1>1, UncountedIsFinite, FS_RemoveElement, FS_CardinalityType
  <1>3. count' = Cardinality(Uncounted') /\ count \in 1 .. N
    BY <1>2 DEF FetchSub, LastOneResumes, TypeOK
  <1>4. owner = "suspended" /\ \A k \in Tasks : job[k] # "transfer"
    BY <1>3 DEF LastOneResumes
  <1>5. TypeOK' /\ StarterIsAt'
    <2>0. /\ \A k \in Tasks : k # i => job'[k] = job[k]
          /\ job' \in [Tasks -> {"none", "child", "write", "sub", "transfer", "done"}]
          /\ count' \in 0 .. N
      BY <1>3 DEF TypeOK, FetchSub
    <2>1. CASE count = 1
      <3>1. /\ inline' = inline /\ starting' = starting /\ owner' = owner
            /\ job'[i] = "transfer"
        BY <2>1 DEF TypeOK, FetchSub
      <3>2. TypeOK'
        BY <2>0, <3>1 DEF TypeOK, FetchSub
      <3>3. StarterIsAt'
        BY <2>0, <3>1 DEF TypeOK, StarterIsAt, FetchSub
      <3> QED
        BY <3>2, <3>3
    <2>2. CASE count # 1 /\ i \in inline
      BY <1>3, <2>2 DEF TypeOK, StarterIsAt, FetchSub, Leave
    <2>3. CASE count # 1 /\ i \notin inline
      <3>1. /\ inline' = inline /\ starting' = starting /\ owner' = owner
            /\ job'[i] = "done"
        BY <2>3 DEF TypeOK, FetchSub, Leave
      <3>2. TypeOK'
        BY <2>0, <3>1 DEF TypeOK, FetchSub
      <3>3. StarterIsAt'
        BY <2>0, <2>3, <3>1 DEF TypeOK, StarterIsAt, FetchSub
      <3> QED
        BY <3>2, <3>3
    <2> QED
      BY <2>1, <2>2, <2>3
  <1>6. SlotsAreFilled'
    BY DEF TypeOK, SlotsAreFilled, FetchSub
  <1>7. LastOneResumes'
    BY <1>3, <1>4 DEF TypeOK, LastOneResumes, FetchSub
  <1> QED
    BY <1>5, <1>6, <1>7

\* The last job resumes when_all, which returns.
LEMMA OwnerStepsInv == ASSUME Inv, NEW i \in Tasks, Transfer(i) \/ OwnerReturns PROVE Inv'
  <1> USE NAssumption DEF Inv, Tasks
  <1>1. CASE Transfer(i)
    <2>1. TypeOK' /\ SlotsAreFilled' /\ StarterIsAt'
      BY <1>1 DEF TypeOK, Transfer, SlotsAreFilled, StarterIsAt
    <2>2. Uncounted' = Uncounted
      BY <1>1 DEF TypeOK, Transfer, Uncounted
    <2>3. LastOneResumes'
      BY <1>1, <2>2 DEF TypeOK, Transfer, LastOneResumes
    <2> QED
      BY <2>1, <2>3
  <1>2. CASE OwnerReturns
    <2>1. inline # {} => starting \in Tasks
      BY DEF TypeOK, StarterIsAt
    <2>2. \A k \in Tasks : job[k] # "none"
      BY <1>2, ZeroMeansNobody DEF OwnerReturns, LastOneResumes
    <2>3. starting' \in 1 .. N + 1 /\ starting' >= starting
      BY <1>2, <2>1 DEF OwnerReturns, TypeOK
    <2>4. TypeOK' /\ SlotsAreFilled'
      BY <1>2, <2>3 DEF TypeOK, OwnerReturns, SlotsAreFilled
    <2>5. StarterIsAt'
      BY <1>2, <2>2, <2>3 DEF TypeOK, OwnerReturns, StarterIsAt
    <2>6. LastOneResumes'
      BY <1>2 DEF TypeOK, OwnerReturns, LastOneResumes, Uncounted
    <2> QED
      BY <2>4, <2>5, <2>6
  <1> QED
    BY <1>1, <1>2

LEMMA Invariance == Spec => []Inv
  <1>1. Inv /\ UNCHANGED vars => Inv'
    BY DEF Inv, vars, TypeOK, SlotsAreFilled, StarterIsAt, LastOneResumes, Uncounted
  <1>2. Inv /\ Next => Inv'
    <2>1. 1 \in Tasks
      BY NAssumption DEF Tasks
    <2> QED
      BY <1>1, <2>1, OtherStepsInv, FetchSubInv, OwnerStepsInv DEF Next, JobStep, Terminated
  <1> QED
    BY InitInv, <1>1, <1>2, PTL DEF Spec
-----------------------------------------------------------------------------
\* Whatever the number of tasks and whoever ends them, the count down in the
\* jobs of when_all resumes it once, when every result is in its slot, and no
\* job and no loop of the starter uses its frame from then on.
THEOREM WhenAllIsLast == Spec => []OwnerIsLast
  <1>1. ASSUME Inv PROVE OwnerIsLast
    <2>1. owner # "suspended" => \A i \in Tasks : job[i] = "done"
      BY <1>1, ZeroMeansNobody DEF Inv, LastOneResumes
    <2>2. OwnerSeesAllResults
      BY <1>1, <2>1 DEF Inv, LastOneResumes, SlotsAreFilled, OwnerSeesAllResults
    <2>3. owner # "suspended" => starting >= N
      <3>1. N \in Tasks /\ starting \in Nat /\ N \in Nat
        BY <1>1, NAssumption DEF Tasks, Inv, TypeOK
      <3> QED
        BY <1>1, <2>1, <3>1 DEF Inv, StarterIsAt
    <2> QED
      BY <1>1, <2>1, <2>2, <2>3 DEF Inv, OwnerIsLast, FrameOutlivesItsUsers
  <1> QED
    BY <1>1, Invariance, PTL
-----------------------------------------------------------------------------
\* The tasks that have not told the state how they ended.
Unreported == Any!Tasks \ {history[k][2] : k \in DOMAIN history}

\* A value took the owner's handle, or the last child has failed.
Decided == anyOwner = Nobody \/ anyCount = 0

\* A job reports once; nobody else counts down.
JobsReportOnce ==
  /\ \A i \in Any!Tasks : anyJob[i] \notin {"release", "transfer", "done"} => i \in Unreported
  /\ anyOwner # Nobody => anyCount = Cardinality(Unreported) /\ Len(history) = NAny - anyCount

\* Exceptions are reported until a value takes the owner's handle.
ValueIsLast ==
  /\ \A k \in DOMAIN history : k # Len(history) => history[k][1] = "exception"
  /\ IF anyOwner = Nobody THEN Len(history) > 0 /\ history[Len(history)][1] = "value"
                      ELSE \A k \in DOMAIN history : history[k][1] = "exception"
  /\ Decided => result = history[Len(history)]
  /\ frame = "destroyed" => returned = result

\* One job has been chosen to resume when_any once the result is decided.
OneIsChosen ==
  /\ anyResumes = IF frame = "suspended" THEN 0 ELSE 1
  /\ frame # "suspended" => Decided /\ \A i \in Any!Tasks : anyJob[i] # "transfer"
  /\ \A i \in Any!Tasks : anyJob[i] = "transfer" => Decided
  /\ \A i, k \in Any!Tasks : anyJob[i] = "transfer" /\ anyJob[k] = "transfer" => i = k

\* The starter runs the job it has come to, if it is not between two of them.
AnyStarterIsAt ==
  /\ anyInline \subseteq {anyStarting} \cap Any!Tasks
  /\ \A i \in Any!Tasks : anyJob[i] = "none" <=> anyStarting = 0

\* The inductive invariant: neither property tells what is still to be counted.
AnyInv == Any!TypeOK /\ JobsReportOnce /\ ValueIsLast /\ OneIsChosen /\ AnyStarterIsAt
-----------------------------------------------------------------------------
LEMMA UnreportedIsFinite ==
  ASSUME Any!ConstantsAreSane
  PROVE  IsFiniteSet(Unreported) /\ Cardinality(Unreported) \in Nat
  <1>1. IsFiniteSet(Any!Tasks)
    BY FS_Interval DEF Any!Tasks, Any!ConstantsAreSane
  <1>2. IsFiniteSet(Unreported)
    BY <1>1, FS_Subset DEF Unreported
  <1> QED
    BY <1>2, FS_CardinalityType

\* Who has not reported keeps the result undecided, until a value is set.
LEMMA UndecidedByReporter ==
  ASSUME AnyInv, NEW i \in Unreported, anyOwner # Nobody
  PROVE  anyCount \in 1 .. NAny /\ ~Decided /\ frame = "suspended" /\ \A k \in Any!Tasks : anyJob[k] # "transfer"
  <1>1. Cardinality(Unreported) # 0
    BY UnreportedIsFinite, FS_EmptySet DEF AnyInv, Any!TypeOK
  <1>2. anyCount # 0 /\ anyCount \in 0 .. NAny /\ NAny \in Nat
    BY <1>1 DEF AnyInv, Any!TypeOK, JobsReportOnce, Any!ConstantsAreSane
  <1> QED
    BY <1>2 DEF AnyInv, OneIsChosen, Decided, Any!TypeOK

LEMMA AnyInitInv == Any!ConstantsAreSane /\ Any!Init => AnyInv
  <1> SUFFICES ASSUME Any!ConstantsAreSane, Any!Init PROVE AnyInv
    OBVIOUS
  <1>0. NAny \in Nat \ {0} /\ history = <<>> /\ DOMAIN history = {} /\ Len(history) = 0
    BY DEF Any!ConstantsAreSane, Any!Init
  <1>1. Any!TypeOK
    <2>1. history \in Seq(Any!Reports)
      BY <1>0
    <2> QED
      BY <1>0, <2>1 DEF Any!Init, Any!TypeOK, Any!ConstantsAreSane, Any!Reports, Any!Tasks
  <1>2. Unreported = 1 .. NAny
    BY <1>0 DEF Unreported, Any!Tasks
  <1>3. Cardinality(Unreported) = NAny
    BY <1>0, <1>2, FS_Interval
  <1>4. JobsReportOnce
    BY <1>0, <1>2, <1>3 DEF JobsReportOnce, Any!Init, Any!Tasks
  <1>5. anyOwner # Nobody /\ anyCount # 0 /\ ~Decided
    BY <1>0 DEF Any!Init, Decided, Any!ConstantsAreSane
  <1>6. ValueIsLast /\ OneIsChosen /\ AnyStarterIsAt
    BY <1>0, <1>5 DEF ValueIsLast, OneIsChosen, AnyStarterIsAt, Any!Init
  <1> QED
    BY <1>1, <1>4, <1>6 DEF AnyInv
-----------------------------------------------------------------------------
\* The steps that report nothing and resume nobody leave what was decided.
LEMMA NothingReported ==
  ASSUME AnyInv, Any!TypeOK', AnyStarterIsAt', UNCHANGED <<anyCount, anyOwner, history, frame, anyResumes, returned>>,
         result' = result \/ ~Decided,
         \A i \in Any!Tasks : anyJob'[i] \notin {"release", "transfer", "done"} => i \in Unreported,
         \A i \in Any!Tasks : anyJob'[i] = "transfer" <=> anyJob[i] = "transfer"
  PROVE  AnyInv'
  <1>1. Unreported' = Unreported /\ Decided' = Decided
    BY DEF Unreported, Decided
  <1>2. JobsReportOnce'
    BY <1>1 DEF AnyInv, JobsReportOnce
  <1>3. ValueIsLast'
    BY <1>1 DEF AnyInv, ValueIsLast, OneIsChosen
  <1>4. OneIsChosen'
    BY <1>1 DEF AnyInv, OneIsChosen
  <1> QED
    BY <1>2, <1>3, <1>4 DEF AnyInv

\* The starter creates and resumes the jobs.
LEMMA AnyStarterInv == ASSUME AnyInv, Any!CreateJobs \/ Any!ResumeJob PROVE AnyInv'
  <1> USE DEF AnyInv, Any!ConstantsAreSane
  <1>1. CASE Any!CreateJobs
    <2>1. Any!TypeOK' /\ AnyStarterIsAt'
      BY <1>1 DEF Any!CreateJobs, Any!TypeOK, AnyStarterIsAt, Any!Tasks, Any!stateVars, Any!ownerVars
    <2>2. \A i \in Any!Tasks : anyJob[i] = "none" /\ anyJob'[i] = "entry" /\ i \in Unreported
      BY <1>1 DEF Any!CreateJobs, AnyStarterIsAt, JobsReportOnce
    <2> QED
      BY <1>1, <2>1, <2>2, NothingReported DEF Any!CreateJobs, Any!stateVars, Any!ownerVars
  <1>2. CASE Any!ResumeJob
    <2>1. /\ anyStarting \in Any!Tasks /\ anyJob[anyStarting] = "entry" /\ anyJob'[anyStarting] \in {"done", "child"}
          /\ \A i \in Any!Tasks : i # anyStarting => anyJob'[i] = anyJob[i]
          /\ UNCHANGED <<anyCount, anyOwner, history, frame, anyResumes, returned, result>>
      BY <1>2 DEF Any!ResumeJob, Any!TypeOK, Any!stateVars, Any!ownerVars
    <2>2. Any!TypeOK' /\ AnyStarterIsAt'
      BY <1>2 DEF Any!ResumeJob, Any!TypeOK, AnyStarterIsAt, Any!Tasks, Any!stateVars, Any!ownerVars
    <2>3. \A i \in Any!Tasks : anyJob'[i] \notin {"release", "transfer", "done"} => i \in Unreported
      BY <2>1 DEF JobsReportOnce
    <2> QED
      BY <2>1, <2>2, <2>3, NothingReported
  <1> QED
    BY <1>1, <1>2

\* A child suspends or ends, and its job comes to the state.
LEMMA AnyQuietStepsInv ==
  ASSUME AnyInv, NEW i \in Any!Tasks,
         \/ Any!ChildSuspends(i) \/ Any!ChildEnds(i) \/ Any!LockState(i) \/ Any!SetExceptionLock(i) \/ Any!SetResultLock(i)
         \/ Any!SetTooLate(i) \/ Any!SetResultThrows(i) \/ Any!JobReturns(i)
  PROVE  AnyInv'
  <1> USE DEF AnyInv, Any!stateVars, Any!ownerVars, Any!startVars
  <1>1. \/ i \in Unreported /\ anyJob[i] # "transfer"
           /\ anyJob'[i] \in {"child", "lock_state", "set_result", "set_exception", "exception_locked",
                           "result_locked", "release", "done"}
        \/ anyJob[i] = "release" /\ anyJob'[i] = "done"
    BY DEF Any!ChildSuspends, Any!ChildEnds, Any!LockState, Any!SetExceptionLock, Any!SetResultLock, Any!LockMtx,
           Any!SetTooLate, Any!SetResultThrows, Any!JobReturns, Any!TypeOK, JobsReportOnce
  <1>2. /\ UNCHANGED <<anyCount, anyOwner, history, frame, anyResumes, returned>>
        /\ \A k \in Any!Tasks : k # i => anyJob'[k] = anyJob[k]
    BY DEF Any!ChildSuspends, Any!ChildEnds, Any!LockState, Any!SetExceptionLock, Any!SetResultLock, Any!LockMtx,
           Any!SetTooLate, Any!SetResultThrows, Any!JobReturns, Any!TypeOK
  <1>3. result' = result \/ ~Decided
    <2>1. CASE Any!SetResultThrows(i)
      BY <2>1, <1>1, UndecidedByReporter DEF Any!SetResultThrows
    <2>2. CASE ~Any!SetResultThrows(i)
      BY <2>2 DEF Any!ChildSuspends, Any!ChildEnds, Any!LockState, Any!SetExceptionLock, Any!SetResultLock, Any!LockMtx,
           Any!SetTooLate, Any!JobReturns
    <2> QED
      BY <2>1, <2>2
  <1>4. Any!TypeOK' /\ AnyStarterIsAt'
    <2> USE DEF Any!ConstantsAreSane, Any!TypeOK, AnyStarterIsAt, Any!Tasks
    <2>1. CASE Any!ChildSuspends(i)
      BY <2>1 DEF Any!ChildSuspends
    <2>2. CASE Any!ChildEnds(i)
      BY <2>2 DEF Any!ChildEnds
    <2>3. CASE Any!LockState(i)
      <3>1. anyJob' \in [Any!Tasks -> {"none", "entry", "child", "lock_state", "set_exception", "set_result",
                        "exception_locked", "result_locked", "release", "transfer", "done"}]
        BY <2>3 DEF Any!LockState
      <3>2. anyJob[i] = "lock_state" /\ anyJob'[i] # "none" /\ \A k \in Any!Tasks : k # i => anyJob'[k] = anyJob[k]
        BY <2>3 DEF Any!LockState
      <3>3. refs' \in SUBSET (0 .. NAny)
        <4>1. i \in 0 .. NAny /\ refs \subseteq 0 .. NAny
          OBVIOUS
        <4>2. refs' = refs \/ refs' = refs \cup {i}
          BY <2>3 DEF Any!LockState
        <4> QED
          BY <4>1, <4>2
      <3>4. /\ UNCHANGED <<anyStarting, anyInline>> \/ (i \in anyInline /\ anyInline' = {} /\ anyStarting' = anyStarting + 1)
            /\ UNCHANGED <<anyOutcome, Any!stateVars, Any!ownerVars>>
        BY <2>3 DEF Any!LockState, Any!Leave
      <3>5. /\ anyStarting' \in 0 .. NAny + 1 /\ (anyStarting' = 0 <=> anyStarting = 0)
            /\ anyInline' \in SUBSET Any!Tasks /\ anyInline' \subseteq {anyStarting'} \cap Any!Tasks
        <4>1. CASE UNCHANGED <<anyStarting, anyInline>>
          BY <4>1
        <4>2. CASE i \in anyInline /\ anyInline' = {} /\ anyStarting' = anyStarting + 1
          BY <4>2
        <4> QED
          BY <3>4, <4>1, <4>2
      <3>6. Any!TypeOK'
        BY <3>1, <3>3, <3>4, <3>5
      <3>7. AnyStarterIsAt'
        BY <3>2, <3>5
      <3> QED
        BY <3>6, <3>7
    <2>4. CASE Any!SetExceptionLock(i) \/ Any!SetResultLock(i)
      BY <2>4 DEF Any!SetExceptionLock, Any!SetResultLock, Any!LockMtx
    <2>5. CASE Any!SetTooLate(i)
      BY <2>5 DEF Any!SetTooLate
    <2>6. CASE Any!SetResultThrows(i)
      BY <2>6 DEF Any!SetResultThrows, Any!Reports
    <2>7. CASE Any!JobReturns(i)
      <3>1. CASE i \in anyInline
        BY <2>7, <3>1 DEF Any!JobReturns, Any!Leave
      <3>2. CASE i \notin anyInline
        BY <2>7, <3>2 DEF Any!JobReturns, Any!Leave
      <3> QED
        BY <3>1, <3>2
    <2> QED
      BY <2>1, <2>2, <2>3, <2>4, <2>5, <2>6, <2>7
  <1>5. \A k \in Any!Tasks : anyJob'[k] \notin {"release", "transfer", "done"} => k \in Unreported
    BY <1>1, <1>2 DEF JobsReportOnce
  <1>6. \A k \in Any!Tasks : anyJob'[k] = "transfer" <=> anyJob[k] = "transfer"
    BY <1>1, <1>2
  <1> QED
    BY <1>2, <1>3, <1>4, <1>5, <1>6, NothingReported

\* A report of i is the last one in the history, and i the one who is missing
\* from those who have not reported.
LEMMA ReportAppends ==
  ASSUME AnyInv, NEW i \in Any!Tasks, NEW o, history' = Append(history, <<o, i>>)
  PROVE  /\ Unreported' = Unreported \ {i}
         /\ Len(history') = Len(history) + 1 /\ Len(history) \in Nat
         /\ DOMAIN history' = 1 .. Len(history) + 1 /\ DOMAIN history = 1 .. Len(history)
         /\ history'[Len(history) + 1] = <<o, i>>
         /\ \A k \in DOMAIN history : history'[k] = history[k] /\ k # Len(history) + 1
         /\ \A k \in DOMAIN history' : k = Len(history) + 1 \/ k \in DOMAIN history
  <1>1. history \in Seq(Any!Reports)
    BY DEF AnyInv, Any!TypeOK
  <1>2. /\ Len(history') = Len(history) + 1 /\ Len(history) \in Nat
        /\ DOMAIN history' = 1 .. Len(history) + 1 /\ DOMAIN history = 1 .. Len(history)
        /\ history'[Len(history) + 1] = <<o, i>>
        /\ \A k \in DOMAIN history : history'[k] = history[k]
    BY <1>1
  <1>3. /\ \A k \in DOMAIN history : k # Len(history) + 1 /\ k \in DOMAIN history'
        /\ \A k \in DOMAIN history' : k = Len(history) + 1 \/ k \in DOMAIN history
        /\ Len(history) + 1 \in DOMAIN history'
    <2>1. ASSUME NEW m \in Nat
          PROVE  /\ \A k \in 1 .. m : k # m + 1 /\ k \in 1 .. m + 1
                 /\ \A k \in 1 .. m + 1 : k = m + 1 \/ k \in 1 .. m
                 /\ m + 1 \in 1 .. m + 1
      OBVIOUS
    <2> QED
      BY <1>2, <2>1
  <1>4. {history'[k][2] : k \in DOMAIN history'} = {history[k][2] : k \in DOMAIN history} \cup {i}
    BY <1>2, <1>3
  <1> QED
    BY <1>2, <1>3, <1>4 DEF Unreported

\* An exception is reported, and counted.
LEMMA AnySetExceptionInv == ASSUME AnyInv, NEW i \in Any!Tasks, Any!SetException(i) PROVE AnyInv'
  <1> USE DEF AnyInv, Any!stateVars, Any!ownerVars, Any!startVars
  <1>1. /\ i \in Unreported /\ anyOwner # Nobody /\ NAny \in Nat
        /\ UNCHANGED <<anyStarting, anyInline, anyOutcome, refs, anyOwner, frame, anyResumes, returned>>
        /\ result' = <<"exception", i>> /\ history' = Append(history, <<"exception", i>>)
        /\ anyCount' = anyCount - 1 /\ mtx' = Nobody
        /\ anyJob[i] = "exception_locked"
        /\ anyJob'[i] = IF anyCount = 1 THEN "transfer" ELSE "release"
        /\ \A k \in Any!Tasks : k # i => anyJob'[k] = anyJob[k]
    BY DEF Any!SetException, Any!TypeOK, JobsReportOnce, Any!ConstantsAreSane
  <1>2. anyCount \in 1 .. NAny /\ ~Decided /\ frame = "suspended" /\ \A k \in Any!Tasks : anyJob[k] # "transfer"
    BY <1>1, UndecidedByReporter
  <1>3. /\ Unreported' = Unreported \ {i}
        /\ Len(history') = Len(history) + 1 /\ Len(history) \in Nat
        /\ history'[Len(history) + 1] = <<"exception", i>>
        /\ \A k \in DOMAIN history : history'[k] = history[k] /\ k # Len(history) + 1
        /\ \A k \in DOMAIN history' : k = Len(history) + 1 \/ k \in DOMAIN history
    BY <1>1, ReportAppends
  <1>4. Any!TypeOK'
    <2>1. <<"exception", i>> \in Any!Reports
      BY DEF Any!Reports
    <2>2. history' \in Seq(Any!Reports) /\ anyCount' \in 0 .. NAny
      BY <1>1, <1>2, <2>1 DEF Any!TypeOK
    <2>3. result' \in Any!Reports
      BY <1>1, <2>1
    <2>4. anyJob' \in [Any!Tasks -> {"none", "entry", "child", "lock_state", "set_exception", "set_result",
                        "exception_locked", "result_locked", "release", "transfer", "done"}]
      BY DEF Any!SetException, Any!TypeOK
    <2> QED
      BY <1>1, <2>2, <2>3, <2>4 DEF Any!TypeOK, Any!ConstantsAreSane
  <1>5. JobsReportOnce'
    <2>1. anyCount' = Cardinality(Unreported')
      <3>1. anyCount = Cardinality(Unreported) /\ IsFiniteSet(Unreported)
        BY <1>1, UnreportedIsFinite DEF JobsReportOnce, Any!TypeOK
      <3>2. Cardinality(Unreported \ {i}) = Cardinality(Unreported) - 1
        BY <1>1, <3>1, FS_RemoveElement
      <3> QED
        BY <1>1, <1>3, <3>1, <3>2
    <2>2. Len(history') = NAny - anyCount'
      <3>1. Len(history) = NAny - anyCount
        BY <1>1 DEF JobsReportOnce
      <3>2. ASSUME NEW a \in Nat, NEW b \in Nat, NEW c \in 1 .. b, a = b - c PROVE a + 1 = b - (c - 1)
        BY <3>2
      <3> QED
        BY <1>1, <1>2, <1>3, <3>1, <3>2
    <2>3. \A k \in Any!Tasks : anyJob'[k] \notin {"release", "transfer", "done"} => k \in Unreported'
      BY <1>1, <1>3 DEF JobsReportOnce
    <2> QED
      BY <2>1, <2>2, <2>3 DEF JobsReportOnce
  <1>6. ValueIsLast'
    <2>1. \A k \in DOMAIN history : history[k][1] = "exception"
      BY <1>1 DEF ValueIsLast
    <2>2. \A k \in DOMAIN history' : history'[k][1] = "exception"
      BY <1>3, <2>1
    <2>3. result' = history'[Len(history')]
      BY <1>1, <1>3
    <2> QED
      BY <1>1, <1>2, <2>2, <2>3 DEF ValueIsLast
  <1>7. OneIsChosen'
    <2>1. Decided' <=> anyCount = 1
      BY <1>1, <1>2 DEF Decided
    <2> QED
      BY <1>1, <1>2, <2>1 DEF OneIsChosen
  <1>8. AnyStarterIsAt'
    BY <1>1 DEF AnyStarterIsAt
  <1> QED
    BY <1>4, <1>5, <1>6, <1>7, <1>8

\* The first value takes the owner's handle.
LEMMA AnySetResultInv == ASSUME AnyInv, NEW i \in Any!Tasks, Any!SetResult(i) PROVE AnyInv'
  <1> USE DEF AnyInv, Any!stateVars, Any!ownerVars, Any!startVars
  <1>1. /\ i \in Unreported /\ anyOwner # Nobody /\ anyOwner' = Nobody
        /\ UNCHANGED <<anyStarting, anyInline, anyOutcome, refs, anyCount, frame, anyResumes, returned>>
        /\ result' = <<"value", i>> /\ history' = Append(history, <<"value", i>>)
        /\ mtx' = Nobody
        /\ anyJob[i] = "result_locked" /\ anyJob'[i] = "transfer"
        /\ \A k \in Any!Tasks : k # i => anyJob'[k] = anyJob[k]
    BY DEF Any!SetResult, Any!TypeOK, JobsReportOnce
  <1>2. ~Decided /\ frame = "suspended" /\ \A k \in Any!Tasks : anyJob[k] # "transfer"
    BY <1>1, UndecidedByReporter
  <1>3. /\ Unreported' = Unreported \ {i}
        /\ Len(history') = Len(history) + 1 /\ Len(history) \in Nat
        /\ history'[Len(history) + 1] = <<"value", i>>
        /\ \A k \in DOMAIN history : history'[k] = history[k] /\ k # Len(history) + 1
        /\ \A k \in DOMAIN history' : k = Len(history) + 1 \/ k \in DOMAIN history
    BY <1>1, ReportAppends
  <1>4. Any!TypeOK'
    <2>1. <<"value", i>> \in Any!Reports
      BY DEF Any!Reports
    <2>2. history' \in Seq(Any!Reports)
      BY <1>1, <2>1 DEF Any!TypeOK
    <2>3. result' \in Any!Reports
      BY <1>1, <2>1
    <2>4. anyJob' \in [Any!Tasks -> {"none", "entry", "child", "lock_state", "set_exception", "set_result",
                        "exception_locked", "result_locked", "release", "transfer", "done"}]
      BY DEF Any!SetResult, Any!TypeOK
    <2> QED
      BY <1>1, <2>2, <2>3, <2>4 DEF Any!TypeOK, Any!ConstantsAreSane
  <1>5. JobsReportOnce'
    BY <1>1, <1>3 DEF JobsReportOnce
  <1>6. ValueIsLast'
    <2>1. \A k \in DOMAIN history : history[k][1] = "exception"
      BY <1>1 DEF ValueIsLast
    <2>2. \A k \in DOMAIN history' : k # Len(history') => history'[k][1] = "exception"
      BY <1>3, <2>1
    <2>3. /\ result' = history'[Len(history')] /\ Len(history') > 0
          /\ history'[Len(history')][1] = "value"
      BY <1>1, <1>3
    <2> QED
      BY <1>1, <1>2, <2>2, <2>3 DEF ValueIsLast
  <1>7. OneIsChosen'
    BY <1>1, <1>2 DEF OneIsChosen, Decided
  <1>8. AnyStarterIsAt'
    BY <1>1 DEF AnyStarterIsAt
  <1> QED
    BY <1>4, <1>5, <1>6, <1>7, <1>8

\* The chosen job resumes when_any, which returns.
LEMMA AnyOwnerStepsInv == ASSUME AnyInv, NEW i \in Any!Tasks, Any!Transfer(i) \/ Any!OwnerReturns PROVE AnyInv'
  <1> USE DEF AnyInv, Any!stateVars, Any!ownerVars, Any!startVars
  <1>1. CASE Any!Transfer(i)
    <2>1. /\ UNCHANGED <<anyStarting, anyInline, anyOutcome, mtx, result, anyCount, anyOwner, history, returned>>
          /\ anyJob[i] = "transfer" /\ anyJob'[i] = "done" /\ frame' = "running" /\ anyResumes' = anyResumes + 1
          /\ \A k \in Any!Tasks : k # i => anyJob'[k] = anyJob[k]
      BY <1>1 DEF Any!Transfer, Any!TypeOK
    <2>2. Unreported' = Unreported /\ Decided' = Decided
      BY <2>1 DEF Unreported, Decided
    <2>3. Decided /\ frame = "suspended" /\ anyResumes = 0 /\ \A k \in Any!Tasks : k # i => anyJob[k] # "transfer"
      BY <2>1 DEF OneIsChosen, Any!TypeOK
    <2>4. Any!TypeOK'
      <3>1. anyResumes' \in Nat
        BY <2>1, <2>3
      <3>2. refs' \in SUBSET (0 .. NAny)
        BY <1>1 DEF Any!Transfer, Any!TypeOK
      <3>3. anyJob' \in [Any!Tasks -> {"none", "entry", "child", "lock_state", "set_exception", "set_result",
                        "exception_locked", "result_locked", "release", "transfer", "done"}]
        BY <1>1 DEF Any!Transfer, Any!TypeOK
      <3> QED
        BY <2>1, <3>1, <3>2, <3>3 DEF Any!TypeOK, Any!ConstantsAreSane
    <2>5. JobsReportOnce'
      BY <2>1, <2>2 DEF JobsReportOnce
    <2>6. ValueIsLast'
      BY <2>1, <2>2 DEF ValueIsLast
    <2>7. OneIsChosen' /\ AnyStarterIsAt'
      BY <2>1, <2>2, <2>3 DEF OneIsChosen, AnyStarterIsAt
    <2> QED
      BY <2>4, <2>5, <2>6, <2>7
  <1>2. CASE Any!OwnerReturns
    <2>1. /\ UNCHANGED <<anyJob, anyOutcome, mtx, result, anyCount, anyOwner, history, anyResumes>>
          /\ frame = "running" /\ frame' = "destroyed" /\ returned' = result
      BY <1>2 DEF Any!OwnerReturns
    <2>2. Unreported' = Unreported /\ Decided' = Decided
      BY <2>1 DEF Unreported, Decided
    <2>3. Any!TypeOK' /\ AnyStarterIsAt'
      <3>1. CASE \E k \in anyInline : anyJob[k] = "done"
        BY <1>2, <3>1 DEF Any!OwnerReturns, Any!TypeOK, Any!ConstantsAreSane, AnyStarterIsAt, Any!Tasks
      <3>2. CASE ~\E k \in anyInline : anyJob[k] = "done"
        BY <1>2, <3>2 DEF Any!OwnerReturns, Any!TypeOK, Any!ConstantsAreSane, AnyStarterIsAt
      <3> QED
        BY <3>1, <3>2
    <2>4. JobsReportOnce' /\ ValueIsLast' /\ OneIsChosen'
      BY <2>1, <2>2 DEF JobsReportOnce, ValueIsLast, OneIsChosen
    <2> QED
      BY <2>3, <2>4
  <1> QED
    BY <1>1, <1>2

LEMMA AnyInvariance == ASSUME Any!ConstantsAreSane PROVE Any!Spec => []AnyInv
  <1>1. AnyInv /\ UNCHANGED Any!vars => AnyInv'
    BY DEF AnyInv, Any!vars, Any!TypeOK, Any!ConstantsAreSane, JobsReportOnce, ValueIsLast, OneIsChosen, AnyStarterIsAt,
           Unreported, Decided
  <1>2. AnyInv /\ Any!Next => AnyInv'
    <2> SUFFICES ASSUME AnyInv, Any!Next PROVE AnyInv'
      OBVIOUS
    <2>1. 1 \in Any!Tasks
      BY DEF Any!Tasks, Any!ConstantsAreSane
    <2>2. CASE Any!CreateJobs \/ Any!ResumeJob
      BY <2>2, AnyStarterInv
    <2>3. CASE Any!OwnerReturns
      BY <2>1, <2>3, AnyOwnerStepsInv
    <2>4. CASE Any!Terminated
      BY <1>1, <2>4 DEF Any!Terminated
    <2>5. ASSUME NEW i \in Any!Tasks, Any!ChildSuspends(i) \/ Any!ChildEnds(i) \/ Any!JobStep(i) PROVE AnyInv'
      BY <2>5, AnyQuietStepsInv, AnySetExceptionInv, AnySetResultInv, AnyOwnerStepsInv DEF Any!JobStep
    <2> QED
      BY <2>2, <2>3, <2>4, <2>5 DEF Any!Next
  <1>3. Any!Init => AnyInv
    BY AnyInitInv
  <1> QED
    BY <1>1, <1>2, <1>3, PTL DEF Any!Spec
-----------------------------------------------------------------------------
\* when_any is resumed once, by the job that has decided its result, nobody can
\* write the result from then on, and nobody uses the frame of a when_any that
\* was destroyed: for any number of tasks.
THEOREM WhenAnyIsAlone == ASSUME Any!ConstantsAreSane PROVE Any!Spec => []OwnerIsAlone
  <1>1. ASSUME AnyInv PROVE OwnerIsAlone
    <2> USE <1>1 DEF AnyInv
    <2>1. anyResumes <= 1
      BY DEF OneIsChosen
    <2>2. frame = "running" => \A i \in Any!Tasks : anyJob[i] # "transfer" /\
            (anyJob[i] \in {"exception_locked", "result_locked"} => anyOwner = Nobody)
      <3> SUFFICES ASSUME frame = "running", NEW i \in Any!Tasks,
                          anyJob[i] \in {"exception_locked", "result_locked"}
                   PROVE  anyOwner = Nobody
        BY DEF OneIsChosen
      <3>1. i \in Unreported
        BY DEF JobsReportOnce
      <3> QED
        BY <3>1, UndecidedByReporter
    <2>3. frame = "destroyed" => \A i \in Any!Tasks : anyJob[i] \notin {"none", "transfer"}
      <3> SUFFICES ASSUME frame = "destroyed", NEW i \in Any!Tasks, anyJob[i] = "none" PROVE FALSE
        BY DEF OneIsChosen
      <3>1. \A k \in Any!Tasks : k \in Unreported
        BY DEF AnyStarterIsAt, JobsReportOnce
      <3>2. anyOwner = Nobody
        BY <3>1, UndecidedByReporter
      <3>3. Len(history) > 0 /\ history[Len(history)][1] = "value" /\ history \in Seq(Any!Reports)
        BY <3>2 DEF ValueIsLast, Any!TypeOK
      <3>4. Len(history) \in DOMAIN history /\ history[Len(history)] \in Any!Reports
        BY <3>3
      <3>5. history[Len(history)][2] \in Any!Tasks
        BY <3>3, <3>4 DEF Any!Reports, Any!NoResult
      <3> QED
        BY <3>1, <3>4, <3>5 DEF Unreported
    <2> QED
      BY <2>1, <2>2, <2>3 DEF OwnerIsAlone, Any!OwnerIsAlone, Any!ResumedOnceAndAlone, Any!DeadFrameIsNotUsed
  <1> QED
    BY <1>1, AnyInvariance, PTL

\* when_any returns the first value that a child has reported or, when all
\* have failed, the last of their exceptions: for any number of tasks, whatever
\* is reported while it moves the result out and whatever constructors throw.
THEOREM WhenAnyReturnsFirst == ASSUME Any!ConstantsAreSane PROVE Any!Spec => []FirstValueOrLastException
  <1>1. ASSUME AnyInv PROVE FirstValueOrLastException
    <2> USE <1>1 DEF AnyInv
    <2> DEFINE values == {k \in 1 .. Len(history) : history[k][1] = "value"}
    <2> SUFFICES ASSUME frame = "destroyed"
                 PROVE  IF values = {} THEN Len(history) = NAny /\ returned = history[NAny]
                        ELSE \E k \in values : (\A m \in values : k <= m) /\ returned = history[k]
      BY SMTT(30) DEF FirstValueOrLastException, Any!FirstValueOrLastException
    <2>1. /\ Decided /\ returned = history[Len(history)] /\ Len(history) \in Nat
          /\ DOMAIN history = 1 .. Len(history)
      BY DEF OneIsChosen, ValueIsLast, Any!TypeOK
    <2>2. CASE anyOwner = Nobody
      <3>1. Len(history) > 0 /\ history[Len(history)][1] = "value"
        BY <2>2 DEF ValueIsLast
      <3>2. Len(history) \in values
        BY <2>1, <3>1, SMTT(30)
      <3>3. \A k \in values : k = Len(history)
        BY <2>1 DEF ValueIsLast
      <3> HIDE DEF values
      <3>4. \A k \in values : Len(history) <= k
        <4>1. Len(history) <= Len(history)
          BY <2>1
        <4> QED
          BY <3>3, <4>1
      <3>5. values # {}
        BY <3>2
      <3> QED
        BY <2>1, <3>2, <3>4, <3>5
    <2>3. CASE anyOwner # Nobody
      <3>1. values = {}
        BY <2>1, <2>3 DEF ValueIsLast
      <3>2. anyCount = 0 /\ Len(history) = NAny - anyCount /\ NAny \in Nat
        BY <2>1, <2>3 DEF JobsReportOnce, Decided, Any!TypeOK, Any!ConstantsAreSane
      <3>3. Len(history) = NAny
        BY <3>2
      <3> QED
        BY <2>1, <3>1, <3>3
    <2> QED
      BY <2>2, <2>3
  <1> QED
    BY <1>1, AnyInvariance, PTL
-----------------------------------------------------------------------------
(***************************************************************************)
(* Task.                                                                   *)
(***************************************************************************)
\* Who is executed is what the stack says.
TaskExecuted ==
  /\ stage = "running" <=> stack \in {<<"task">>, <<"task", "owner">>}
  /\ taskOwner \in {"running", "resumed"} <=> stack \in {<<"owner">>, <<"task", "owner">>}
  /\ taskOwner = "resumed" => stack = <<"owner">> /\ stage = "done"

\* What the owner holds tells what who_waits is until the task has ended: noop or
\* the owner itself if it holds anything, else nothing.
TaskHeld ==
  /\ T!FrameOutlivesItsUsers /\ T!UnownedFrameDestroysItself
  /\ stage = "not_started" => how = "lazy"
  /\ how = "detached" => obj = "nothing" /\ who_waits = "nullptr"
  /\ alive /\ obj = "nothing" => how = "detached"
  /\ obj \in {"started", "handle"} => stage # "not_started"
  /\ taskOwner \in {"awaiting", "resumed"} => obj \in {"task", "started"}
  /\ taskOwner = "awaiting" => who_waits = "owner" /\ stage \in {"running", "suspended"}
  /\ stage \in {"running", "suspended"} =>
       /\ taskOwner # "awaiting" => who_waits # "owner"
       /\ obj # "nothing" => who_waits # "nullptr" /\ (obj = "task" => taskOwner = "awaiting")

\* The result is there from the end of the task on, until an exception is taken.
TaskResult ==
  /\ stage # "done" => threw = "no" /\ got = "nothing"
  /\ stage = "not_started" => kind = "EMPTY"
  /\ stage = "done" => /\ kind = "VAL" <=> threw = "no"
                       /\ kind = "EMPTY" => got \in {"EX", "garbage"}
  /\ T!DetachedExceptionIsReported

\* The inductive invariant: what is to be shown of a task tells neither who is
\* executed nor which who_waits goes with what the owner holds.
TaskInv == T!TypeOK /\ TaskExecuted /\ TaskHeld /\ TaskResult

\* The stacks there are.
LEMMA TaskStacks ==
  /\ <<>> # <<"owner">> /\ <<>> # <<"task">> /\ <<>> # <<"task", "owner">>
  /\ <<"owner">> # <<"task">> /\ <<"owner">> # <<"task", "owner">> /\ <<"task">> # <<"task", "owner">>
  /\ Tail(<<"owner">>) = <<>> /\ Tail(<<"task">>) = <<>> /\ Tail(<<"task", "owner">>) = <<"owner">>
  /\ <<"task">> \o <<>> = <<"task">> /\ <<"owner">> \o <<>> = <<"owner">>
  /\ <<"task">> \o <<"owner">> = <<"task", "owner">>
  /\ <<"owner">>[1] = "owner" /\ <<"task">>[1] = "task" /\ <<"task", "owner">>[1] = "task"
  <1>1. /\ Len(<<"owner">>) = 1 /\ Len(<<"task">>) = 1 /\ Len(<<"task", "owner">>) = 2 /\ Len(<<>>) = 0
        /\ <<"owner">>[1] = "owner" /\ <<"task">>[1] = "task" /\ <<"task", "owner">>[1] = "task"
        /\ <<"task", "owner">>[2] = "owner"
    OBVIOUS
  <1>2. /\ <<>> # <<"owner">> /\ <<>> # <<"task">> /\ <<>> # <<"task", "owner">>
        /\ <<"owner">> # <<"task">> /\ <<"owner">> # <<"task", "owner">> /\ <<"task">> # <<"task", "owner">>
    BY <1>1
  <1>3. Tail(<<"owner">>) = <<>> /\ Tail(<<"task">>) = <<>>
    OBVIOUS
  <1>4. Tail(<<"task", "owner">>) = <<"owner">>
    OBVIOUS
  <1>5. <<"task">> \o <<>> = <<"task">> /\ <<"owner">> \o <<>> = <<"owner">>
    OBVIOUS
  <1>6. <<"task">> \o <<"owner">> = <<"task", "owner">>
    <2> DEFINE a == <<"task">>
               b == <<"owner">>
    <2>1. /\ a \in Seq({"task", "owner"}) /\ b \in Seq({"task", "owner"}) /\ Len(a) = 1 /\ Len(b) = 1
          /\ a[1] = "task" /\ b[1] = "owner"
      OBVIOUS
    <2> HIDE DEF a, b
    <2>2. PICK u : u = a \o b
      OBVIOUS
    <2>3. u \in Seq({"task", "owner"}) /\ Len(u) = 2 /\ u[1] = "task" /\ u[2] = "owner"
      BY <2>1, <2>2, ConcatProperties
    <2>4. u = <<"task", "owner">>
      BY <2>3
    <2> QED
      BY <2>2, <2>4 DEF a, b
  <1> QED
    BY <1>1, <1>2, <1>3, <1>4, <1>5, <1>6

\* The owner is executed.
LEMMA OwnerOnTop ==
  ASSUME TaskInv, stack # <<>>, stack[1] = "owner"
  PROVE  /\ stack = <<"owner">> /\ Tail(stack) = <<>> /\ <<"task">> \o Tail(stack) = <<"task">>
         /\ <<"task">> \o stack = <<"task", "owner">>
         /\ stage # "running" /\ taskOwner \in {"running", "resumed"}
  <1>1. stack = <<"owner">>
    BY TaskStacks DEF TaskInv, T!TypeOK
  <1>2. Tail(stack) = <<>> /\ <<"task">> \o Tail(stack) = <<"task">> /\ <<"task">> \o stack = <<"task", "owner">>
    BY <1>1, TaskStacks
  <1> QED
    BY <1>1, <1>2, TaskStacks DEF TaskInv, TaskExecuted

\* The task is executed.
LEMMA TaskOnTop ==
  ASSUME TaskInv, T!TaskRuns
  PROVE  /\ stage = "running" /\ alive
         /\ \/ /\ taskOwner = "running" /\ Tail(stack) = <<"owner">>
            \/ /\ taskOwner \in {"ready", "awaiting"} /\ Tail(stack) = <<>>
               /\ <<"owner">> \o Tail(stack) = <<"owner">>
  <1>1. stack \in {<<"task">>, <<"task", "owner">>}
    BY TaskStacks DEF TaskInv, T!TypeOK, T!TaskRuns
  <1>2. stage = "running"
    BY <1>1 DEF TaskInv, TaskExecuted
  <1>3. alive
    BY <1>2 DEF TaskInv, TaskHeld, T!FrameOutlivesItsUsers
  <1>4. CASE stack = <<"task">>
    BY <1>2, <1>3, <1>4, TaskStacks DEF TaskInv, TaskExecuted, T!TypeOK
  <1>5. CASE stack = <<"task", "owner">>
    <2>1. taskOwner = "running"
      BY <1>2, <1>5, TaskStacks DEF TaskInv, TaskExecuted
    <2> QED
      BY <2>1, <1>2, <1>3, <1>5, TaskStacks
  <1> QED
    BY <1>1, <1>4, <1>5

\* What the owner does with its hands, without being suspended.
LEMMA OwnerStep ==
  ASSUME TaskInv,
         \/ T!NewTask \/ T!AwaitDone \/ T!TakeResult \/ T!WaitReturns \/ T!DropStarted
         \/ T!Detach \/ T!Destroy \/ \E stop \in BOOLEAN : T!DetachDone(stop)
  PROVE  TaskInv'
  <1>1. /\ stack' = stack /\ stack = <<"owner">> /\ stage # "running"
    BY OwnerOnTop DEF T!OwnerRuns, T!NewTask, T!AwaitDone, T!TakeResult, T!WaitReturns, T!DropStarted,
       T!Detach, T!Destroy, T!DetachDone
  <1>2. stack # <<"task">> /\ stack # <<"task", "owner">>
    BY <1>1, TaskStacks
  <1> USE <1>1, <1>2 DEF TaskInv, TaskExecuted, TaskHeld, TaskResult, T!TypeOK, T!FrameOutlivesItsUsers,
          T!UnownedFrameDestroysItself, T!DetachedExceptionIsReported, T!OwnerRuns, T!frame
  <1>3. CASE T!NewTask
    BY <1>3 DEF T!NewTask
  <1>4. CASE T!AwaitDone
    BY <1>4 DEF T!AwaitDone
  <1>5. CASE T!TakeResult
    BY <1>5 DEF T!TakeResult
  <1>6. CASE T!WaitReturns
    BY <1>6 DEF T!WaitReturns
  <1>7. CASE T!DropStarted
    BY <1>7 DEF T!DropStarted
  <1>8. CASE T!Detach
    BY <1>8 DEF T!Detach
  <1>9. CASE T!Destroy
    BY <1>9 DEF T!Destroy
  <1>10. CASE \E stop \in BOOLEAN : T!DetachDone(stop)
    BY <1>10 DEF T!DetachDone
  <1> QED
    BY <1>3, <1>4, <1>5, <1>6, <1>7, <1>8, <1>9, <1>10

\* Who is executed changes.
LEMMA TransferStep ==
  ASSUME TaskInv,
         \/ T!OwnerSuspends \/ T!OwnerScheduled \/ T!Starter \/ T!Start \/ T!AwaitStarted
         \/ (\E stop \in BOOLEAN : T!StartAndDetach(stop)) \/ T!TaskSuspends \/ T!TaskResumed
  PROVE  TaskInv'
  <1> USE TaskStacks DEF TaskInv, TaskExecuted, TaskHeld, TaskResult, T!TypeOK, T!FrameOutlivesItsUsers,
          T!UnownedFrameDestroysItself, T!DetachedExceptionIsReported, T!OwnerRuns, T!frame
  <1>1. CASE T!OwnerSuspends
    BY <1>1, OwnerOnTop DEF T!OwnerSuspends
  <1>2. CASE T!OwnerScheduled
    BY <1>2 DEF T!OwnerScheduled
  <1>3. CASE T!Starter
    BY <1>3, OwnerOnTop DEF T!Starter
  <1>4. CASE T!Start
    BY <1>4, OwnerOnTop DEF T!Start
  <1>5. CASE T!AwaitStarted
    BY <1>5, OwnerOnTop DEF T!AwaitStarted
  <1>6. CASE \E stop \in BOOLEAN : T!StartAndDetach(stop)
    BY <1>6, OwnerOnTop DEF T!StartAndDetach
  <1>7. CASE T!TaskSuspends
    BY <1>7, TaskOnTop DEF T!TaskSuspends
  <1>8. CASE T!TaskResumed
    BY <1>8 DEF T!TaskResumed
  <1> QED
    BY <1>1, <1>2, <1>3, <1>4, <1>5, <1>6, <1>7, <1>8

\* The task makes its result, or ends.
LEMMA EndStep ==
  ASSUME TaskInv, T!ReturnPlace \/ T!TaskEnds
  PROVE  TaskInv'
  <1>1. T!TaskRuns
    BY DEF T!ReturnPlace, T!TaskEnds, T!TaskReturns, T!TaskReturnsException, T!TaskThrows
  <1> USE TaskStacks DEF TaskInv, TaskExecuted, TaskHeld, TaskResult, T!TypeOK, T!FrameOutlivesItsUsers,
          T!UnownedFrameDestroysItself, T!DetachedExceptionIsReported
  <1>2. CASE T!ReturnPlace
    BY <1>1, <1>2, TaskOnTop DEF T!ReturnPlace
  <1>3. CASE T!TaskEnds
    <2>1. /\ kind' \in {"VAL", "EX"} /\ (kind' = "VAL" <=> threw' = "no")
          /\ threw' \in {"no", "thrown", "returned"} /\ reported' \in BOOLEAN
          /\ threw' = "thrown" /\ who_waits = "nullptr" => reported'
          /\ T!FinalSuspend /\ UNCHANGED <<who_waits, obj, got, how>>
      BY <1>1, <1>3, TaskOnTop DEF T!TaskEnds, T!TaskReturns, T!TaskReturnsException, T!TaskThrows
    <2>2. CASE who_waits = "owner"
      BY <1>1, <2>1, <2>2, TaskOnTop DEF T!FinalSuspend
    <2>3. CASE who_waits = "noop"
      BY <1>1, <2>1, <2>3, TaskOnTop DEF T!FinalSuspend
    <2>4. CASE who_waits = "nullptr"
      BY <1>1, <2>1, <2>4, TaskOnTop DEF T!FinalSuspend
    <2> QED
      BY <2>2, <2>3, <2>4
  <1> QED
    BY <1>2, <1>3

\* TaskInv is an invariant.
LEMMA TaskInvariance == T!Spec => []TaskInv
  <1>1. T!Init => TaskInv
    BY TaskStacks DEF T!Init, TaskInv, TaskExecuted, TaskHeld, TaskResult, T!TypeOK, T!FrameOutlivesItsUsers,
       T!UnownedFrameDestroysItself, T!DetachedExceptionIsReported
  <1>2. TaskInv /\ [T!Next]_(T!vars) => TaskInv'
    <2>1. TaskInv /\ T!Next => TaskInv'
      BY OwnerStep, TransferStep, EndStep DEF T!Next
    <2>2. TaskInv /\ UNCHANGED T!vars => TaskInv'
      BY DEF T!vars, TaskInv, TaskExecuted, TaskHeld, TaskResult, T!TypeOK, T!FrameOutlivesItsUsers,
         T!UnownedFrameDestroysItself, T!DetachedExceptionIsReported
    <2> QED
      BY <2>1, <2>2
  <1> QED
    BY <1>1, <1>2, PTL DEF T!Spec

\* The frame of a task is destroyed by ~task, ~start_result, the handle that stops at
\* the end or final_suspend, exactly one of them: whatever the order of start(),
\* suspension, co_await and end is, nobody uses a frame that is gone, and a frame that
\* nobody holds will destroy itself.
THEOREM TaskFrameHasOneEnd == T!Spec => []FrameHasOneEnd
  <1>1. TaskInv => FrameHasOneEnd
    BY DEF TaskInv, TaskHeld, FrameHasOneEnd, T!FrameHasOneEnd
  <1> QED
    BY <1>1, TaskInvariance, PTL

\* A co_await of a task finds what it has ended with, and what a detached task throws
\* reaches on_ignored_exception, however late the task is detached.
THEOREM TaskOutcomeIsNotLost == T!Spec => []OutcomeIsNotLost
  <1>1. TaskInv => OutcomeIsNotLost
    BY DEF TaskInv, TaskExecuted, TaskResult, T!TypeOK, OutcomeIsNotLost, T!OutcomeIsNotLost,
       T!AwaitFindsTheResult
  <1> QED
    BY <1>1, TaskInvariance, PTL
=============================================================================
