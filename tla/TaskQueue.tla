----------------------------- MODULE TaskQueue -----------------------------
(***************************************************************************)
(* task_queue (thread_pool.hpp): an intrusive list guarded by a mutex,     *)
(* with a condition variable for blocking consumers.  Producers call       *)
(* push / push_list, consumers pop_all_not_empty, drainers pop_all.  Node  *)
(* memory is recycled: a node that was resumed may be pushed again at the  *)
(* same address, its `next` field still holding the old value.             *)
(***************************************************************************)
EXTENDS LinkedLists

CONSTANTS Producers, Consumers, Drainers,  \* the threads, by what they call
          NoThread,                        \* owner of a free mutex
          MaxList                          \* longest list pushed at once

Takers  == Consumers \cup Drainers
Threads == Producers \cup Takers

ASSUME ThreadAssumption ==
  /\ NoThread \notin Threads
  /\ Producers \cap Takers = {}
  /\ Consumers \cap Drainers = {}
ASSUME MaxListAssumption == MaxList \in Nat \ {0}

VARIABLES first,  \* head of the queue
          last,   \* tail of the queue, meaningful only when first # Null
          next,   \* the `next` field of every node
          alive,  \* nodes that exist: created and not yet resumed
          mtx,    \* the thread that holds the mutex
          pc,     \* where each thread is
          arg,    \* arg[p]: the arguments first_ and last_ of p's push_list
          top     \* top[t]: the rest of the batch t has popped

vars == <<first, last, next, alive, mtx, pc, arg, top>>

NoList  == [first |-> Null, last |-> Null]
Waiting == {c \in Consumers : pc[c] = "wait"}

Init == /\ first = Null /\ last = Null
        /\ next = [n \in Nodes |-> Null]
        /\ alive = {}
        /\ mtx = NoThread
        /\ pc = [t \in Threads |-> "idle"]
        /\ arg = [p \in Producers |-> NoList]
        /\ top = [t \in Takers |-> Null]
-----------------------------------------------------------------------------
Lock(t, from, to) ==
  /\ pc[t] = from
  /\ mtx = NoThread
  /\ mtx' = t
  /\ pc' = [pc EXCEPT ![t] = to]

Unlock(t, to) ==
  /\ mtx' = NoThread
  /\ pc' = [pc EXCEPT ![t] = to]

(***************************************************************************)
(* push(node) sets node->next and calls push_list(node, node); the         *)
(* one-argument push_list walks the caller's own list to find its end.     *)
(* Both happen before the lock, on nodes only the caller knows.            *)
(***************************************************************************)
CallPush(p) ==
  /\ pc[p] = "idle"
  /\ \E s \in DistinctSeqs(Nodes \ alive, MaxList) :
       /\ next' = Chained(next, s)
       /\ alive' = alive \cup {s[i] : i \in DOMAIN s}
       /\ arg' = [arg EXCEPT ![p] = [first |-> s[1], last |-> s[Len(s)]]]
  /\ pc' = [pc EXCEPT ![p] = "push_lock"]
  /\ UNCHANGED <<first, last, mtx, top>>

PushLock(p) ==
  /\ Lock(p, "push_lock", "push")
  /\ UNCHANGED <<first, last, next, alive, arg, top>>

\* Wrong: tests the stale `last` instead of `first`.
PushBehindStaleLast(p) ==
  /\ pc[p] = "push"
  /\ last # Null
  /\ next' = [next EXCEPT ![last] = arg[p].first]
  /\ last' = arg[p].last
  /\ Unlock(p, "idle")
  /\ arg' = [arg EXCEPT ![p] = NoList]
  /\ UNCHANGED <<first, alive, top>>

\* push_list, the branch `if (first)`: link behind the last node and unlock.
PushBehind(p) ==
  /\ pc[p] = "push"
  /\ first # Null
  /\ next' = [next EXCEPT ![last] = arg[p].first]
  /\ last' = arg[p].last
  /\ Unlock(p, "idle")
  /\ arg' = [arg EXCEPT ![p] = NoList]
  /\ UNCHANGED <<first, alive, top>>

\* push_list, the else branch up to the notification.
PushFirst(p) ==
  /\ pc[p] = "push"
  /\ first = Null
  /\ first' = arg[p].first
  /\ last' = arg[p].last
  /\ pc' = [pc EXCEPT ![p] = "notify"]
  /\ arg' = [arg EXCEPT ![p] = NoList]
  /\ UNCHANGED <<next, alive, mtx, top>>

\* Wrong: nobody is notified.
PushForgetsNotify(p) ==
  /\ pc[p] = "notify"
  /\ Unlock(p, "idle")
  /\ UNCHANGED <<first, last, next, alive, arg, top>>

\* not_empty.notify_one(), still under the lock, then unlock.
PushNotify(p) ==
  /\ pc[p] = "notify"
  /\ mtx' = NoThread
  /\ \/ /\ Waiting = {}
        /\ pc' = [pc EXCEPT ![p] = "idle"]
     \/ \E c \in Waiting :
          pc' = [pc EXCEPT ![p] = "idle", ![c] = "woken"]
  /\ UNCHANGED <<first, last, next, alive, arg, top>>
-----------------------------------------------------------------------------
\* pop_all_not_empty: take the lock ...
PopLock(c) ==
  /\ Lock(c, "idle", "check")
  /\ UNCHANGED <<first, last, next, alive, arg, top>>

\* ... while (!first): the queue is seen empty, still under the lock ...
PopSeesEmpty(c) ==
  /\ pc[c] = "check"
  /\ first = Null
  /\ pc' = [pc EXCEPT ![c] = "sleep"]
  /\ UNCHANGED <<first, last, next, alive, mtx, arg, top>>

\* ... not_empty.wait(l): release the mutex and sleep, in one step.
PopWait(c) ==
  /\ pc[c] = "sleep"
  /\ Unlock(c, "wait")
  /\ UNCHANGED <<first, last, next, alive, arg, top>>

\* wait() may return without any notification.
SpuriousWakeup(c) ==
  /\ pc[c] = "wait"
  /\ pc' = [pc EXCEPT ![c] = "woken"]
  /\ UNCHANGED <<first, last, next, alive, mtx, arg, top>>

\* wait() takes the mutex again before it returns to the loop condition.
PopRelock(c) ==
  /\ Lock(c, "woken", "check")
  /\ UNCHANGED <<first, last, next, alive, arg, top>>

\* Wrong: reads `first` instead of exchanging it.
PopAllCopies(t) ==
  /\ top' = [top EXCEPT ![t] = first]
  /\ Unlock(t, IF first = Null THEN "idle" ELSE "drain")
  /\ UNCHANGED <<first, last, next, alive, arg>>

\* pop_all_nolock: hand out the list and leave an empty queue; `last` is
\* left pointing to a node that now belongs to the taker.
PopAllNolock(t) ==
  /\ top' = [top EXCEPT ![t] = first]
  /\ first' = Null
  /\ Unlock(t, IF first = Null THEN "idle" ELSE "drain")
  /\ UNCHANGED <<last, next, alive, arg>>

PopTake(c) ==
  /\ pc[c] = "check"
  /\ first # Null
  /\ PopAllNolock(c)

\* pop_all: never waits, may return nullptr.
DrainLock(d) ==
  /\ Lock(d, "idle", "pop_all")
  /\ UNCHANGED <<first, last, next, alive, arg, top>>

DrainTake(d) ==
  /\ pc[d] = "pop_all"
  /\ PopAllNolock(d)

\* The loop over a batch (default_worker_job, cancel_tasks): step to the next
\* node before the current one is resumed, which ends its life.
ResumeTop(t) ==
  /\ pc[t] = "drain"
  /\ top' = [top EXCEPT ![t] = next[top[t]]]
  /\ alive' = alive \ {top[t]}
  /\ pc' = [pc EXCEPT ![t] = IF next[top[t]] = Null THEN "idle" ELSE "drain"]
  /\ UNCHANGED <<first, last, next, mtx, arg>>
-----------------------------------------------------------------------------
PushStep(p) == PushLock(p) \/ PushBehind(p) \/ PushFirst(p) \/ PushNotify(p)
PopStep(c)  == PopLock(c) \/ PopSeesEmpty(c) \/ PopWait(c) \/ PopRelock(c) \/ PopTake(c)

Next == \/ \E p \in Producers : CallPush(p) \/ PushStep(p)
        \/ \E c \in Consumers : PopStep(c) \/ SpuriousWakeup(c)
        \/ \E d \in Drainers : DrainLock(d) \/ DrainTake(d)
        \/ \E t \in Takers : ResumeTop(t)

Spec == Init /\ [][Next]_vars

(***************************************************************************)
(* A thread inside an operation goes on, a consumer keeps calling          *)
(* pop_all_not_empty as a worker does.  Nothing obliges anybody to push,   *)
(* to drain, or a wakeup to be spurious.  Weak fairness is enough: the     *)
(* mutex need not be fair.                                                 *)
(***************************************************************************)
Fairness == /\ \A p \in Producers : WF_vars(PushStep(p))
            /\ \A c \in Consumers : WF_vars(PopStep(c))
            /\ \A d \in Drainers : WF_vars(DrainTake(d))
            /\ \A t \in Takers : WF_vars(ResumeTop(t))

FairSpec == Spec /\ Fairness
-----------------------------------------------------------------------------
TypeOK ==
  /\ first \in Nodes \cup {Null}
  /\ last \in Nodes \cup {Null}
  /\ next \in [Nodes -> Nodes \cup {Null}]
  /\ alive \in SUBSET Nodes
  /\ mtx \in Threads \cup {NoThread}
  /\ pc \in [Threads -> {"idle", "push_lock", "push", "notify", "check",
                        "sleep", "wait", "woken", "pop_all", "drain"}]
  /\ arg \in [Producers -> [first : Nodes \cup {Null}, last : Nodes \cup {Null}]]
  /\ top \in [Takers -> Nodes \cup {Null}]
  /\ \A t \in Takers : pc[t] = "drain" => top[t] # Null

(***************************************************************************)
(* The hazard named in push_list's comment ("missed notify ... may block   *)
(* worker thread forever"): notify_one is called only when the queue was   *)
(* empty, for one waiter, so whenever the queue holds nodes while somebody *)
(* sleeps in pop_all_not_empty, another consumer is already on its way to  *)
(* take them or a producer is about to wake one.                           *)
(***************************************************************************)
NoLostWakeup ==
  first # Null /\ Waiting # {} =>
    \/ \E c \in Consumers : pc[c] \in {"woken", "check"}
    \/ \E p \in Producers : pc[p] = "notify"

(***************************************************************************)
(* `last` is never reset by pop_all_nolock ("if !first, 'last' value       *)
(* unspecified") and nodes are recycled, so a stale `last` could make      *)
(* push_list write into a node another thread owns.  The lists in the      *)
(* queue, in each taker's batch and in each producer's hands stay disjoint *)
(* and acyclic, consist of live nodes, hold every live node, and `last`    *)
(* ends the queue whenever there is one; with the types of the state.      *)
(***************************************************************************)
Heads == {first} \cup {top[t] : t \in Takers} \cup {arg[p].first : p \in Producers}

ListsPartitionLiveNodes ==
  /\ TypeOK
  /\ first # Null => LET q == ListOf(next, first) IN q[Len(q)] = last
  /\ \A h \in Heads : NoRepeats(ListOf(next, h))
  /\ \A h, g \in Heads : h # g => NodesOf(next, h) \cap NodesOf(next, g) = {}
  /\ UNION {NodesOf(next, h) : h \in Heads} = alive

(***************************************************************************)
(* The refinement: read through its pointers, the queue is the atomic FIFO *)
(* queue of AbstractQueue.  push_list takes effect when it links its list, *)
(* the two pops when they exchange `first`.                                *)
(***************************************************************************)
Abstract == INSTANCE AbstractQueue WITH
  pending <- [p \in Producers |-> ListOf(next, arg[p].first)],
  items   <- ListOf(next, first),
  taken   <- [t \in Takers |-> ListOf(next, top[t])]

ImplementsAbstractQueue == Abstract!Spec

(***************************************************************************)
(* A node linked into the queue is resumed in the end, although each       *)
(* notification wakes a single consumer, notifications are skipped when    *)
(* the queue is not empty, and the mutex need not be fair.                 *)
(***************************************************************************)
EveryQueuedNodeIsResumed ==
  \A n \in Nodes : n \in NodesOf(next, first) ~> n \notin alive
=============================================================================
