----------------------------- MODULE ThreadPool -----------------------------
(***************************************************************************)
(* thread_pool with its workers (thread_pool.hpp): construction,           *)
(* default_worker_job, attach / attach_list / jump_on, request_stop,       *)
(* wait_stop and the destructor.                                           *)
(*                                                                         *)
(* Each operation of a task_queue is one atomic step: TaskQueue shows that *)
(* its lock and its condition variable implement that.  The lists          *)
(* themselves are kept as pointers, because the destructor pushes ONE pill *)
(* into all queues in turn and nodes die while lists are being walked.     *)
(***************************************************************************)
EXTENDS Integers, Sequences, FiniteSets

CONSTANTS NumWorkers,  \* threads.size()
          Coros,       \* user coroutines that jump on the pool
          Stops,       \* calls of request_stop
          MaxJumps,    \* bound: how often coroutines jump on the pool again
          MaxList,     \* bound: longest list given to attach_list
          Null,
          Nobody,      \* no coroutine, no caller
          Client       \* a thread outside the pool, as the caller of request_stop

ASSUME PoolAssumption ==
  /\ NumWorkers \in Nat \ {0}
  /\ MaxJumps \in Nat \ {0}
  /\ MaxList \in Nat \ {0}
  /\ IsFiniteSet(Coros) /\ IsFiniteSet(Stops)

Workers == 1 .. NumWorkers

ASSUME CallersAreDistinct ==
  Nobody \notin Workers /\ Client \notin Workers /\ Nobody # Client

(***************************************************************************)
(* The task nodes: the awaiter of each coroutine, the pair `pill`,         *)
(* `this_node` in the frame of each push_deadpill job, and the pill on the *)
(* stack of the destructor (or of the constructor that failed).            *)
(***************************************************************************)
CoroNode(c)    == <<"coro", c>>
StopPill(s, q) == <<"pill", s, q>>
StopNode(s, q) == <<"stop", s, q>>
DtorPill       == <<"dtor">>
Nodes == {CoroNode(c) : c \in Coros} \cup {DtorPill}
           \cup {StopPill(s, q) : s \in Stops, q \in Workers}
           \cup {StopNode(s, q) : s \in Stops, q \in Workers}

ASSUME NullIsNowhere == Null \notin Nodes

INSTANCE LinkedLists

IsPill(n) == n[1] \in {"pill", "dtor"}  \* node->task == nullptr

VARIABLES first, last,  \* the queues
          next,         \* the `next` field of every node
          alive,        \* nodes that exist
          coro,         \* what each coroutine does: new, suspended, running, done
          cancelled,    \* coroutines that were resumed with errc::cancelled
          jumps,        \* how often coroutines of the pool have jumped on it again
          wpc, top,     \* worker threads: program counter and rest of the batch
          cur,          \* the coroutine a worker is executing
          joinable,     \* threads[i].joinable()
          caller,       \* caller[s]: who executes request_stop s
          stopq,        \* stopq[s]: the queue it pushes to next
          mpc, mi, mtop, \* the thread that owns the pool: where it is, loop
                         \* index, rest of the list it cancels
          ctop, chash   \* a client in attach_list: rest of the list, next queue

vars == <<first, last, next, alive, coro, cancelled, jumps, wpc, top, cur,
          joinable, caller, stopq, mpc, mi, mtop, ctop, chash>>
queueVars  == <<first, last, next, alive>>
coroVars   == <<coro, cancelled, jumps>>
workerVars == <<wpc, top, cur>>
stopVars   == <<caller, stopq>>
mainVars   == <<mpc, mi, mtop, joinable>>
clientVars == <<ctop, chash>>

Init ==
  /\ first = [q \in Workers |-> Null] /\ last = [q \in Workers |-> Null]
  /\ next = [n \in Nodes |-> Null]
  /\ alive = {}
  /\ coro = [c \in Coros |-> "new"]
  /\ cancelled = {}
  /\ jumps = 0
  /\ wpc = [w \in Workers |-> "unborn"]
  /\ top = [w \in Workers |-> Null]
  /\ cur = [w \in Workers |-> Nobody]
  /\ joinable = [w \in Workers |-> FALSE]
  /\ caller = [s \in Stops |-> Nobody]
  /\ stopq = [s \in Stops |-> 1]
  /\ mpc = "ctor" /\ mi = 1 /\ mtop = Null
  /\ ctop = Null /\ chash = 1
-----------------------------------------------------------------------------
\* Wrong: links the new list in front of the queue.
PushListInFront(q, f, l, nxt) ==
  /\ first' = [first EXCEPT ![q] = f]
  /\ last' = IF first[q] = Null THEN [last EXCEPT ![q] = l] ELSE last
  /\ next' = [nxt EXCEPT ![l] = first[q]]

\* task_queue::push_list(f, l) on queue q, with `nxt` the memory before it.
PushList(q, f, l, nxt) ==
  /\ first' = IF first[q] = Null THEN [first EXCEPT ![q] = f] ELSE first
  /\ last' = [last EXCEPT ![q] = l]
  /\ next' = IF first[q] = Null THEN nxt ELSE [nxt EXCEPT ![last[q]] = f]

\* task_queue::push(node): node->next = nullptr, then push_list.
Push(q, n) == PushList(q, n, n, [next EXCEPT ![n] = Null])

\* task_queue::pop_all, the list goes to the owner of the pool.
PopAll(q) ==
  /\ mtop' = first[q]
  /\ first' = [first EXCEPT ![q] = Null]

(***************************************************************************)
(* One round of cancel_tasks on node n: step to the next node, then resume *)
(* with status cancelled.  The coroutine sees the status, schedules        *)
(* nothing ("after getting 'cancelled' status task do not produce new      *)
(* task") and ends; the frame of a push_deadpill job dies with its pill.   *)
(***************************************************************************)
CancelNode(n) ==
  /\ alive' = CASE n[1] = "coro" -> alive \ {n}
                [] n[1] = "stop" -> alive \ {n, StopPill(n[2], n[3])}
                [] OTHER -> alive
  /\ coro' = IF n[1] = "coro" THEN [coro EXCEPT ![n[2]] = "done"] ELSE coro
  /\ cancelled' = IF n[1] = "coro" THEN cancelled \cup {n[2]} ELSE cancelled
-----------------------------------------------------------------------------
(***************************************************************************)
(* A client of the pool: builds a list of coroutines and calls             *)
(* attach_list(pool, list), which reads `next` before it attaches a node   *)
(* and gives consecutive nodes to consecutive queues.  A list of one node  *)
(* is `attach`, `schedule` or a coroutine that awaits jump_on(pool).       *)
(***************************************************************************)
PoolUsable == mpc \in {"live", "wait", "wait_cancel", "waited"}

ClientBegin ==
  /\ PoolUsable
  /\ ctop = Null
  /\ \E s \in DistinctSeqs({c \in Coros : coro[c] = "new"}, MaxList) :
       LET nodes == [i \in DOMAIN s |-> CoroNode(s[i])]
       IN  /\ next' = Chained(next, nodes)
           /\ alive' = alive \cup {nodes[i] : i \in DOMAIN s}
           /\ ctop' = nodes[1]
           /\ coro' = [c \in Coros |-> IF \E i \in DOMAIN s : s[i] = c
                                       THEN "suspended" ELSE coro[c]]
  /\ \E h \in Workers : chash' = h    \* do_hash(top) % queues.size()
  /\ UNCHANGED <<first, last, cancelled, jumps, workerVars, stopVars, mainVars>>

ClientAttach ==
  /\ ctop # Null
  /\ ctop' = next[ctop]
  /\ Push(chash, ctop)
  /\ chash' = (chash % NumWorkers) + 1
  /\ UNCHANGED <<alive, coroVars, workerVars, stopVars, mainVars>>

(***************************************************************************)
(* request_stop, from a client thread or from a coroutine that a worker    *)
(* runs: for every queue, start a push_deadpill job, whose await_suspend   *)
(* pushes its pill and itself behind it as one list.                       *)
(***************************************************************************)
RequestStopBegin(s, who) ==
  /\ caller[s] = Nobody
  /\ stopq[s] = 1
  /\ caller' = [caller EXCEPT ![s] = who]
  /\ UNCHANGED <<queueVars, coroVars, stopq, mainVars, clientVars>>

ClientRequestStop(s) ==
  /\ PoolUsable
  /\ RequestStopBegin(s, Client)
  /\ UNCHANGED workerVars

\* Wrong: only the first queue gets a pill.
PushOneDeadpill(s) ==
  LET q == stopq[s] IN
  /\ caller[s] # Nobody
  /\ q <= NumWorkers
  /\ alive' = alive \cup {StopPill(s, q), StopNode(s, q)}
  /\ PushList(q, StopPill(s, q), StopNode(s, q),
              Chained(next, <<StopPill(s, q), StopNode(s, q)>>))
  /\ stopq' = [stopq EXCEPT ![s] = NumWorkers + 1]
  /\ UNCHANGED <<caller, coroVars, workerVars, mainVars, clientVars>>

PushDeadpill(s) ==
  LET q == stopq[s] IN
  /\ caller[s] # Nobody
  /\ q <= NumWorkers
  /\ alive' = alive \cup {StopPill(s, q), StopNode(s, q)}
  /\ PushList(q, StopPill(s, q), StopNode(s, q),
              Chained(next, <<StopPill(s, q), StopNode(s, q)>>))
  /\ stopq' = [stopq EXCEPT ![s] = q + 1]
  /\ UNCHANGED <<caller, coroVars, workerVars, mainVars, clientVars>>

RequestStopEnd(s) ==
  /\ caller[s] # Nobody
  /\ stopq[s] > NumWorkers
  /\ caller' = [caller EXCEPT ![s] = Nobody]
  /\ wpc' = IF caller[s] \in Workers
            THEN [wpc EXCEPT ![caller[s]] = "run"] ELSE wpc
  /\ UNCHANGED <<queueVars, coroVars, top, cur, stopq, mainVars, clientVars>>
-----------------------------------------------------------------------------
\* default_worker_job: pop_all_not_empty.
WorkerPop(w) ==
  /\ wpc[w] = "pop"
  /\ first[w] # Null
  /\ top' = [top EXCEPT ![w] = first[w]]
  /\ first' = [first EXCEPT ![w] = Null]
  /\ wpc' = [wpc EXCEPT ![w] = "batch"]
  /\ UNCHANGED <<last, next, alive, cur, coroVars, stopVars, mainVars, clientVars>>

\* The inner loop: grab the task, step to the next node, then resume.  The
\* node dies when its coroutine goes on.
WorkerResume(w) ==
  LET n == top[w] IN
  /\ wpc[w] = "batch"
  /\ ~IsPill(n)
  /\ top' = [top EXCEPT ![w] = next[n]]
  /\ IF n[1] = "coro"
     THEN /\ coro' = [coro EXCEPT ![n[2]] = "running"]
          /\ cur' = [cur EXCEPT ![w] = n[2]]
          /\ wpc' = [wpc EXCEPT ![w] = "run"]
          /\ alive' = alive \ {n}
     ELSE /\ alive' = alive \ {n, StopPill(n[2], n[3])}
          /\ wpc' = [wpc EXCEPT ![w] = IF next[n] = Null THEN "pop" ELSE "batch"]
          /\ UNCHANGED <<coro, cur>>
  /\ UNCHANGED <<first, last, next, cancelled, jumps, stopVars, mainVars, clientVars>>

\* Wrong: forgets the rest of the batch.
WorkerDropsBatch(w) ==
  /\ wpc[w] = "batch"
  /\ IsPill(top[w])
  /\ top' = [top EXCEPT ![w] = Null]
  /\ wpc' = [wpc EXCEPT ![w] = "cancel"]
  /\ UNCHANGED <<queueVars, cur, coroVars, stopVars, mainVars, clientVars>>

\* The dead pill: leave the loop with the rest of the batch.
WorkerSwallowPill(w) ==
  /\ wpc[w] = "batch"
  /\ IsPill(top[w])
  /\ top' = [top EXCEPT ![w] = next[top[w]]]
  /\ wpc' = [wpc EXCEPT ![w] = "cancel"]
  /\ UNCHANGED <<queueVars, cur, coroVars, stopVars, mainVars, clientVars>>

\* work_end: cancel_tasks(top), then the thread ends.
WorkerCancel(w) ==
  /\ wpc[w] = "cancel"
  /\ top[w] # Null
  /\ top' = [top EXCEPT ![w] = next[top[w]]]
  /\ CancelNode(top[w])
  /\ UNCHANGED <<first, last, next, jumps, wpc, cur, stopVars, mainVars, clientVars>>

WorkerExit(w) ==
  /\ wpc[w] = "cancel"
  /\ top[w] = Null
  /\ wpc' = [wpc EXCEPT ![w] = "exited"]
  /\ UNCHANGED <<queueVars, top, cur, coroVars, stopVars, mainVars, clientVars>>

\* resume() has returned: go on with the batch or pop again.
BackToLoop(w) ==
  /\ wpc' = [wpc EXCEPT ![w] = IF top[w] = Null THEN "pop" ELSE "batch"]
  /\ cur' = [cur EXCEPT ![w] = Nobody]

\* The coroutine a worker runs ends ...
CoroFinish(w) ==
  /\ wpc[w] = "run"
  /\ coro' = [coro EXCEPT ![cur[w]] = "done"]
  /\ BackToLoop(w)
  /\ UNCHANGED <<queueVars, top, cancelled, jumps, stopVars, mainVars, clientVars>>

\* ... or jumps on the pool (or on a strand of it) again ...
CoroJump(w) ==
  /\ wpc[w] = "run"
  /\ jumps < MaxJumps
  /\ jumps' = jumps + 1
  /\ coro' = [coro EXCEPT ![cur[w]] = "suspended"]
  /\ alive' = alive \cup {CoroNode(cur[w])}
  /\ \E q \in Workers : Push(q, CoroNode(cur[w]))
  /\ BackToLoop(w)
  /\ UNCHANGED <<top, cancelled, stopVars, mainVars, clientVars>>

\* ... or calls request_stop.
CoroRequestStop(w, s) ==
  /\ wpc[w] = "run"
  /\ RequestStopBegin(s, w)
  /\ wpc' = [wpc EXCEPT ![w] = "stopping"]
  /\ UNCHANGED <<top, cur>>
-----------------------------------------------------------------------------
\* The constructor starts the threads one by one ...
Spawn ==
  /\ mpc = "ctor"
  /\ wpc' = [wpc EXCEPT ![mi] = "pop"]
  /\ joinable' = [joinable EXCEPT ![mi] = TRUE]
  /\ mi' = mi + 1
  /\ mpc' = IF mi = NumWorkers THEN "live" ELSE "ctor"
  /\ UNCHANGED <<queueVars, top, cur, coroVars, stopVars, mtop, clientVars>>

\* ... and when one cannot be started, stops the started ones in turn.
SpawnFails ==
  /\ mpc = "ctor"
  /\ mpc' = "undo"
  /\ mi' = 1
  /\ alive' = alive \cup {DtorPill}
  /\ UNCHANGED <<first, last, next, coroVars, workerVars, stopVars, joinable, mtop, clientVars>>

UndoPush ==
  /\ mpc = "undo"
  /\ joinable[mi]
  /\ Push(mi, DtorPill)
  /\ mpc' = "undo_join"
  /\ UNCHANGED <<alive, coroVars, workerVars, stopVars, mi, mtop, joinable, clientVars>>

UndoJoin ==
  /\ mpc = "undo_join"
  /\ wpc[mi] = "exited"
  /\ joinable' = [joinable EXCEPT ![mi] = FALSE]
  /\ mi' = mi + 1
  /\ mpc' = "undo"
  /\ UNCHANGED <<queueVars, coroVars, workerVars, stopVars, mtop, clientVars>>

UndoEnd ==
  /\ mpc = "undo"
  /\ ~joinable[mi]
  /\ mpc' = "dead"
  /\ alive' = alive \ {DtorPill}
  /\ UNCHANGED <<first, last, next, coroVars, workerVars, stopVars, mi, mtop, joinable, clientVars>>

\* wait_stop(), called once, after request_stop has been called.
WaitStopBegin ==
  /\ mpc = "live"
  /\ \E s \in Stops : caller[s] # Nobody \/ stopq[s] > 1
  /\ mpc' = "wait" /\ mi' = 1
  /\ UNCHANGED <<queueVars, coroVars, workerVars, stopVars, joinable, mtop, clientVars>>

WaitStopJoin ==
  /\ mpc = "wait"
  /\ mi <= NumWorkers
  /\ wpc[mi] = "exited"
  /\ joinable' = [joinable EXCEPT ![mi] = FALSE]
  /\ mi' = mi + 1
  /\ UNCHANGED <<queueVars, coroVars, workerVars, stopVars, mpc, mtop, clientVars>>

WaitStopJoined ==
  /\ mpc = "wait"
  /\ mi > NumWorkers
  /\ mpc' = "wait_cancel" /\ mi' = 1
  /\ UNCHANGED <<queueVars, coroVars, workerVars, stopVars, joinable, mtop, clientVars>>

\* The loop `for (auto& q : queues) cancel_tasks(q.pop_all())`, which wait_stop
\* and the destructor both end with.
CancelQueuesPop ==
  /\ mpc \in {"wait_cancel", "dtor_cancel"}
  /\ mi <= NumWorkers
  /\ mtop = Null
  /\ PopAll(mi)
  /\ mi' = mi + 1
  /\ UNCHANGED <<last, next, alive, coroVars, workerVars, stopVars, mpc, joinable, clientVars>>

CancelQueuesDone ==
  /\ mpc \in {"wait_cancel", "dtor_cancel"}
  /\ mi > NumWorkers
  /\ mtop = Null
  /\ mpc' = IF mpc = "wait_cancel" THEN "waited" ELSE "dead"
  /\ alive' = IF mpc = "dtor_cancel" THEN alive \ {DtorPill} ELSE alive
  /\ UNCHANGED <<first, last, next, coroVars, workerVars, stopVars, mi, mtop, joinable, clientVars>>

\* One round of cancel_tasks executed by the owner of the pool.
MainCancel ==
  /\ mtop # Null
  /\ mtop' = next[mtop]
  /\ CancelNode(mtop)
  /\ UNCHANGED <<first, last, next, jumps, workerVars, stopVars, mpc, mi, joinable, clientVars>>

(***************************************************************************)
(* ~thread_pool.  No client may be using the pool any more; coroutines on  *)
(* its workers still may.                                                  *)
(***************************************************************************)
DtorBegin ==
  /\ mpc \in {"live", "waited"}
  /\ ctop = Null
  /\ \A s \in Stops : caller[s] # Client
  /\ mpc' = "dtor" /\ mi' = 1
  /\ alive' = alive \cup {DtorPill}
  /\ UNCHANGED <<first, last, next, coroVars, workerVars, stopVars, mtop, joinable, clientVars>>

DtorPush ==
  /\ mpc = "dtor"
  /\ mi <= NumWorkers
  /\ joinable[mi]
  /\ Push(mi, DtorPill)
  /\ mpc' = "dtor_join"
  /\ UNCHANGED <<alive, coroVars, workerVars, stopVars, mi, mtop, joinable, clientVars>>

DtorSkip ==
  /\ mpc = "dtor"
  /\ mi <= NumWorkers
  /\ ~joinable[mi]
  /\ mi' = mi + 1
  /\ UNCHANGED <<queueVars, coroVars, workerVars, stopVars, mpc, mtop, joinable, clientVars>>

\* Wrong: leaves the pill in the queue of a worker that exited earlier.
DtorJoinLeavesPill ==
  /\ mpc = "dtor_join"
  /\ wpc[mi] = "exited"
  /\ joinable' = [joinable EXCEPT ![mi] = FALSE]
  /\ mpc' = "dtor_drain"
  /\ UNCHANGED <<queueVars, coroVars, workerVars, stopVars, mi, mtop, clientVars>>

\* join() returns; pop_all before the pill is pushed into the next queue.
DtorJoin ==
  /\ mpc = "dtor_join"
  /\ wpc[mi] = "exited"
  /\ joinable' = [joinable EXCEPT ![mi] = FALSE]
  /\ PopAll(mi)
  /\ mpc' = "dtor_drain"
  /\ UNCHANGED <<last, next, alive, coroVars, workerVars, stopVars, mi, clientVars>>

DtorDrained ==
  /\ mpc = "dtor_drain"
  /\ mtop = Null
  /\ mi' = mi + 1
  /\ mpc' = "dtor"
  /\ UNCHANGED <<queueVars, coroVars, workerVars, stopVars, mtop, joinable, clientVars>>

\* Wrong: no second look at queues that were filled after they were drained.
DtorNoSecondLook ==
  /\ mpc = "dtor"
  /\ mi > NumWorkers
  /\ mpc' = "dead"
  /\ alive' = alive \ {DtorPill}
  /\ UNCHANGED <<first, last, next, coroVars, workerVars, stopVars, mi, mtop, joinable, clientVars>>

DtorCancelAll ==
  /\ mpc = "dtor"
  /\ mi > NumWorkers
  /\ mi' = 1
  /\ mpc' = "dtor_cancel"
  /\ UNCHANGED <<queueVars, coroVars, workerVars, stopVars, mtop, joinable, clientVars>>
-----------------------------------------------------------------------------
ClientStep == ClientBegin \/ ClientAttach
StopStep(s) == PushDeadpill(s) \/ RequestStopEnd(s)
WorkerStep(w) ==
  \/ WorkerPop(w) \/ WorkerResume(w) \/ WorkerSwallowPill(w)
  \/ WorkerCancel(w) \/ WorkerExit(w)
  \/ CoroFinish(w) \/ CoroJump(w) \/ \E s \in Stops : CoroRequestStop(w, s)
MainStep ==
  \/ Spawn \/ SpawnFails \/ UndoPush \/ UndoJoin \/ UndoEnd
  \/ WaitStopBegin \/ WaitStopJoin \/ WaitStopJoined
  \/ CancelQueuesPop \/ CancelQueuesDone \/ MainCancel
  \/ DtorBegin \/ DtorPush \/ DtorSkip \/ DtorJoin \/ DtorDrained \/ DtorCancelAll

\* The pool and everything that used it are gone.
Terminated == mpc = "dead" /\ UNCHANGED vars

Next == \/ ClientStep
        \/ \E s \in Stops : ClientRequestStop(s) \/ StopStep(s)
        \/ \E w \in Workers : WorkerStep(w)
        \/ MainStep
        \/ Terminated

Spec == Init /\ [][Next]_vars

(***************************************************************************)
(* Every thread that can take a step goes on taking steps, the owner       *)
(* destroys the pool in the end, and a coroutine does not run for ever     *)
(* (MaxJumps).  Nothing obliges a client to start anything.                *)
(***************************************************************************)
Fairness == /\ WF_vars(ClientAttach)
            /\ WF_vars(MainStep)
            /\ \A s \in Stops : WF_vars(StopStep(s))
            /\ \A w \in Workers : WF_vars(WorkerStep(w))

FairSpec == Spec /\ Fairness
-----------------------------------------------------------------------------
TypeOK ==
  /\ first \in [Workers -> Nodes \cup {Null}]
  /\ last \in [Workers -> Nodes \cup {Null}]
  /\ next \in [Nodes -> Nodes \cup {Null}]
  /\ alive \in SUBSET Nodes
  /\ coro \in [Coros -> {"new", "suspended", "running", "done"}]
  /\ cancelled \in SUBSET Coros
  /\ jumps \in 0 .. MaxJumps
  /\ wpc \in [Workers -> {"unborn", "pop", "batch", "run", "stopping", "cancel", "exited"}]
  /\ top \in [Workers -> Nodes \cup {Null}]
  /\ cur \in [Workers -> Coros \cup {Nobody}]
  /\ joinable \in [Workers -> BOOLEAN]
  /\ caller \in [Stops -> Workers \cup {Client, Nobody}]
  /\ stopq \in [Stops -> 1 .. NumWorkers + 1]
  /\ mpc \in {"ctor", "undo", "undo_join", "live", "wait", "wait_cancel", "waited",
              "dtor", "dtor_join", "dtor_drain", "dtor_cancel", "dead"}
  /\ mi \in 1 .. NumWorkers + 1
  /\ mtop \in Nodes \cup {Null}
  /\ ctop \in Nodes \cup {Null}
  /\ chash \in Workers
  /\ \A w \in Workers : wpc[w] = "batch" => top[w] # Null

\* Every place that holds a list: where a node can be found.
Places == {<<"main">>, <<"client">>}
            \cup {<<"queue", q>> : q \in Workers} \cup {<<"batch", w>> : w \in Workers}
HeadOf(l) == CASE l[1] = "main" -> mtop
               [] l[1] = "client" -> ctop
               [] l[1] = "queue" -> first[l[2]]
               [] l[1] = "batch" -> top[l[2]]
Occupied == {l \in Places : HeadOf(l) # Null}

(***************************************************************************)
(* The assertion in deadpill_pusher::await_resume: a job that pushed a     *)
(* pill is only ever resumed as cancelled, so a worker in its normal loop  *)
(* meets the pill in front of the job first, never the job.                *)
(***************************************************************************)
StopJobIsOnlyCancelled ==
  \A w \in Workers : wpc[w] = "batch" => top[w][1] # "stop"

(***************************************************************************)
(* Lists walked by one thread while nodes die and are pushed elsewhere by  *)
(* others, and one pill for all queues: no list is ever cyclic, shares a   *)
(* node with another one or holds a node that no longer exists, `last`     *)
(* ends its queue, and a job of push_deadpill stays behind its pill.       *)
(***************************************************************************)
ListsAreDisjointAndAlive ==
  /\ \A l \in Occupied : /\ NoRepeats(ListOf(next, HeadOf(l)))
                         /\ NodesOf(next, HeadOf(l)) \subseteq alive
  /\ \A l, m \in Occupied :
       l # m => NodesOf(next, HeadOf(l)) \cap NodesOf(next, HeadOf(m)) = {}
  /\ \A q \in Workers : first[q] # Null => last[q] = LastOf(next, first[q])
  /\ StopJobIsOnlyCancelled

(***************************************************************************)
(* No coroutine is forgotten: as long as it is suspended on the pool its   *)
(* node can be reached from some list, and the frame of every pending      *)
(* push_deadpill job too (it is freed only by being resumed).              *)
(***************************************************************************)
NothingSuspendedIsForgotten ==
  LET listed == UNION {NodesOf(next, HeadOf(l)) : l \in Places} IN
  /\ \A c \in Coros : coro[c] = "suspended" => CoroNode(c) \in listed
  /\ \A s \in Stops, q \in Workers :
       StopNode(s, q) \in alive => StopNode(s, q) \in listed

(***************************************************************************)
(* When the destructor returns ("when thread pool dies, all pending tasks  *)
(* invoked with schedule_errc::cancelled") every thread has been joined,   *)
(* every queue is empty, every coroutine that entered the pool has ended   *)
(* and no frame of a push_deadpill job is leaked.                          *)
(***************************************************************************)
DeadPoolLeavesNothing ==
  mpc = "dead" =>
    /\ alive = {}
    /\ \A w \in Workers : first[w] = Null /\ wpc[w] \in {"unborn", "exited"} /\ ~joinable[w]
    /\ \A c \in Coros : coro[c] \in {"new", "done"}

\* Coroutine c waits on worker w with no pill between it and the worker.
AheadOfPill(c, w) ==
  LET s == ListOf(next, top[w]) \o ListOf(next, first[w]) IN
  /\ wpc[w] \in {"pop", "batch", "run", "stopping"}
  /\ \E i \in 1 .. Len(s) : /\ s[i] = CoroNode(c)
                            /\ \A j \in 1 .. i - 1 : ~IsPill(s[j])

(***************************************************************************)
(* The contract of a worker job, "execute tasks from queue until got       *)
(* task_node::deadpill and cancel all pending tasks after": a coroutine    *)
(* queued in front of the first pill is really executed, whatever stop     *)
(* requests, joins and destructor steps happen meanwhile.                  *)
(***************************************************************************)
TasksAheadOfPillAreExecuted ==
  [][\A c \in Coros, w \in Workers :
       AheadOfPill(c, w) => AheadOfPill(c, w)' \/ coro'[c] = "running"]_vars

(***************************************************************************)
(* ~thread_pool terminates, also when workers have exited before it pushes *)
(* its pill and when coroutines still jump on the pool meanwhile, and so   *)
(* does wait_stop: a stop request reaches every worker.                    *)
(***************************************************************************)
StoppingTerminates ==
  /\ mpc = "dtor" ~> mpc = "dead"
  /\ mpc = "wait" ~> mpc = "waited"

(***************************************************************************)
(* A coroutine that jumped on the pool is resumed: executed by a worker,   *)
(* or cancelled by a worker, by wait_stop or by the destructor.            *)
(***************************************************************************)
SuspendedIsResumed ==
  \A c \in Coros : coro[c] = "suspended" ~> coro[c] # "suspended"

(***************************************************************************)
(* The pool has the right types, nothing that was attached to it is        *)
(* forgotten while it lives, and nothing is left in it when its destructor *)
(* has returned.                                                           *)
(***************************************************************************)
NothingIsLost ==
  /\ TypeOK /\ NothingSuspendedIsForgotten /\ DeadPoolLeavesNothing
=============================================================================
