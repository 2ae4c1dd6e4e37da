------------------------------- MODULE Events -------------------------------
(***************************************************************************)
(* event<Input> (events.hpp) over nonowner_lockfree_stack, with its        *)
(* awaiters: plain coroutines that await one event again and again, and a  *)
(* coroutine that awaits when_all(e1, ..., eN) or when_any(e1, ..., eN),   *)
(* whose callbacks are jobs that subscribe to one event each.              *)
(*                                                                         *)
(* A thread walks the list it has popped in notify_all and resumes the     *)
(* subscribers itself (this_thread_executor); a resumed coroutine may      *)
(* subscribe again on that thread before the walk goes on.  The values of  *)
(* notify_all are numbered in the order in which the stacks were popped.   *)
(***************************************************************************)
EXTENDS Integers, FiniteSets, Sequences

CONSTANTS N,         \* number of events
          Subs,      \* plain subscribers, of the first event
          Rounds,    \* how often the main coroutine awaits all / any
          Threads,
          Starter,   \* the thread on which everything is first subscribed
          Modes,     \* what the main coroutine may await: "all", "any"
          MaxNotify, \* bound on calls of notify_all
          MaxAgain,  \* bound on re-subscriptions of each plain subscriber
          Null

Cb(r, i) == <<"cb", r, i>>  \* the job that set_callback starts for event i
Sub(s)   == <<"sub", s>>
Cbs      == {Cb(r, i) : r \in 1 .. Rounds, i \in 1 .. N}
Nodes    == Cbs \cup {Sub(s) : s \in Subs}

INSTANCE LinkedLists

ConstantsAreSane ==
  /\ N \in Nat \ {0} /\ Rounds \in Nat \ {0} /\ MaxNotify \in Nat /\ MaxAgain \in Nat
  /\ Starter \in Threads /\ Modes \subseteq {"all", "any"}

VARIABLES mode,     \* "all" or "any"
          top,      \* top of the stack of subscribers of each event
          next,     \* the `next` field of each node
          node,     \* of each node: none, pushing, subscribed, popped, run
          value,    \* subscribe::input
          since,    \* how many notifications there were when a callback was pushed
          again,    \* re-subscriptions of each plain subscriber
          awaiter,  \* the awaiter object of each round
          count,    \* its `count`, or *count_ptr
          input,    \* its inputs
          resumes,  \* how often main was resumed out of it
          pc, cur, rest, val, \* of each thread: place, node, list, input
          fired     \* calls of notify_all so far

vars == <<mode, top, next, node, value, since, again, awaiter, count, input, resumes,
          pc, cur, rest, val, fired>>
mainVars == <<mode, awaiter, count, input, resumes>>
walkVars == <<rest, val, fired>>

EventOf(n) == IF n[1] = "cb" THEN n[3] ELSE 1

Init ==
  /\ mode \in Modes
  /\ top = [e \in 1 .. N |-> Null]
  /\ next = [n \in Nodes |-> Null]
  /\ node = [n \in Nodes |-> "none"]
  /\ value = [n \in Nodes |-> 0]
  /\ since = [n \in Cbs |-> 0]
  /\ again = [s \in Subs |-> 0]
  /\ awaiter = [r \in 1 .. Rounds |-> IF r = 1 THEN "alive" ELSE "none"]
  /\ count = [r \in 1 .. Rounds |-> 0]
  /\ input = [r \in 1 .. Rounds |-> [i \in 1 .. N |-> 0]]
  /\ resumes = [r \in 1 .. Rounds |-> 0]
  /\ pc = [t \in Threads |-> IF t = Starter THEN "register" ELSE "walk"]
  /\ cur = [t \in Threads |-> IF t = Starter THEN Cb(1, 1) ELSE Null]
  /\ rest = [t \in Threads |-> Null]
  /\ val = [t \in Threads |-> 0]
  /\ fired = 0

\* A thread in the loop of notify_all with nothing left is outside of it.
Idle(t) == pc[t] = "walk" /\ rest[t] = Null
-----------------------------------------------------------------------------
\* A plain coroutine comes to its first co_await event.
Subscribe(t, s) ==
  /\ Idle(t) /\ node[Sub(s)] = "none"
  /\ cur' = [cur EXCEPT ![t] = Sub(s)]
  /\ pc' = [pc EXCEPT ![t] = "load"]
  /\ node' = [node EXCEPT ![Sub(s)] = "pushing"]
  /\ UNCHANGED <<top, next, value, since, again, mainVars, walkVars>>

\* await_suspend of when_all and when_any, one fold step: take the next
\* event out of the awaiter (events_), and start the job that subscribes.
Register(t) ==
  /\ pc[t] = "register"
  /\ pc' = [pc EXCEPT ![t] = "load"]
  /\ node' = [node EXCEPT ![cur[t]] = "pushing"]
  /\ UNCHANGED <<top, next, value, since, again, mainVars, cur, walkVars>>

\* The awaiter is gone: what is read there need not be an event any more, and
\* the thread may as well crash.
RegisterInDeadAwaiter(t) ==
  /\ pc[t] = "register" /\ awaiter[cur[t][2]] = "dead"
  /\ pc' = [pc EXCEPT ![t] = "crashed"]
  /\ UNCHANGED <<top, next, node, value, since, again, mainVars, cur, walkVars>>

\* push: value_ptr->next = top.load().
PushLoad(t) ==
  /\ pc[t] = "load"
  /\ next' = [next EXCEPT ![cur[t]] = top[EventOf(cur[t])]]
  /\ pc' = [pc EXCEPT ![t] = "cas"]
  /\ UNCHANGED <<top, node, value, since, again, mainVars, cur, walkVars>>

\* Where a thread goes on once cur[t] is subscribed: with the next event of
\* the same await, or back to the walk it came from.
PushedThen(t) ==
  LET n == cur[t]
  IN IF n[1] = "cb" /\ n[3] < N
     THEN /\ cur' = [cur EXCEPT ![t] = Cb(n[2], n[3] + 1)]
          /\ pc' = [pc EXCEPT ![t] = "register"]
     ELSE /\ cur' = [cur EXCEPT ![t] = Null]
          /\ pc' = [pc EXCEPT ![t] = "walk"]

\* Wrong: stores the new top without comparing it with what was loaded.
PushStore(t) ==
  /\ pc[t] = "cas"
  /\ LET n == cur[t]
     IN /\ top' = [top EXCEPT ![EventOf(n)] = n]
        /\ node' = [node EXCEPT ![n] = "subscribed"]
        /\ since' = [c \in Cbs |-> IF c = n THEN fired ELSE since[c]]
  /\ PushedThen(t)
  /\ UNCHANGED <<next, value, again, mainVars, walkVars>>

\* compare_exchange_weak succeeds: other threads find the coroutine.
PushCas(t) ==
  /\ pc[t] = "cas"
  /\ LET n == cur[t]
     IN /\ top[EventOf(n)] = next[n]
        /\ top' = [top EXCEPT ![EventOf(n)] = n]
        /\ node' = [node EXCEPT ![n] = "subscribed"]
        /\ since' = [c \in Cbs |-> IF c = n THEN fired ELSE since[c]]
  /\ PushedThen(t)
  /\ UNCHANGED <<next, value, again, mainVars, walkVars>>

\* It fails and reloads.
PushCasFails(t) ==
  /\ pc[t] = "cas"
  /\ next' = [next EXCEPT ![cur[t]] = top[EventOf(cur[t])]]
  /\ next' # next
  /\ UNCHANGED <<top, node, value, since, again, mainVars, pc, cur, walkVars>>
-----------------------------------------------------------------------------
\* notify_all: subscribers.try_pop_all(); nothing more if nobody is there.
NotifyAll(t, e) ==
  /\ Idle(t) /\ fired < MaxNotify
  /\ fired' = fired + 1
  /\ val' = [val EXCEPT ![t] = IF top[e] = Null THEN 0 ELSE fired']
  /\ rest' = [rest EXCEPT ![t] = top[e]]
  /\ top' = [top EXCEPT ![e] = Null]
  /\ node' = [n \in Nodes |-> IF n \in NodesOf(next, top[e]) THEN "popped" ELSE node[n]]
  /\ UNCHANGED <<next, value, since, again, mainVars, pc, cur>>

\* Wrong: only the first of the popped coroutines is resumed.
NotifyFirstOnly(t) ==
  /\ pc[t] = "walk" /\ rest[t] # Null
  /\ LET n == rest[t]
     IN /\ value' = [value EXCEPT ![n] = val[t]]
        /\ rest' = [rest EXCEPT ![t] = Null]
        /\ node' = [node EXCEPT ![n] = "run"]
        /\ cur' = [cur EXCEPT ![t] = n]
        /\ pc' = [pc EXCEPT ![t] = "resume"]
  /\ UNCHANGED <<top, next, since, again, mainVars, val, fired>>

\* One turn of its loop: copy the input, read `next`, attach the node, which
\* dies in the resumed coroutine: nobody reads its `next` again.
NotifyNode(t) ==
  /\ pc[t] = "walk" /\ rest[t] # Null
  /\ LET n == rest[t]
     IN /\ value' = [value EXCEPT ![n] = val[t]]
        /\ rest' = [rest EXCEPT ![t] = next[n]]
        /\ next' = [next EXCEPT ![n] = Null]
        /\ val' = [val EXCEPT ![t] = IF rest'[t] = Null THEN 0 ELSE @]
        /\ node' = [node EXCEPT ![n] = "run"]
        /\ cur' = [cur EXCEPT ![t] = n]
        /\ pc' = [pc EXCEPT ![t] = "resume"]
  /\ UNCHANGED <<top, since, again, mainVars, fired>>

\* A plain subscriber takes its input and ends ...
SubEnds(t) ==
  /\ pc[t] = "resume" /\ cur[t][1] = "sub"
  /\ pc' = [pc EXCEPT ![t] = "walk"]
  /\ value' = [value EXCEPT ![cur[t]] = 0]
  /\ cur' = [cur EXCEPT ![t] = Null]
  /\ UNCHANGED <<top, next, node, since, again, mainVars, walkVars>>

\* ... or awaits the event again, with a node at the same address.
SubAgain(t) ==
  /\ pc[t] = "resume" /\ cur[t][1] = "sub"
  /\ LET s == cur[t][2] IN again[s] < MaxAgain /\ again' = [again EXCEPT ![s] = @ + 1]
  /\ value' = [value EXCEPT ![cur[t]] = 0]
  /\ node' = [node EXCEPT ![cur[t]] = "pushing"]
  /\ pc' = [pc EXCEPT ![t] = "load"]
  /\ UNCHANGED <<top, next, since, mainVars, cur, walkVars>>

\* when_all's callback: the input goes into the awaiter ...
AllStore(t) ==
  /\ mode = "all"
  /\ pc[t] = "resume" /\ cur[t][1] = "cb"
  /\ LET n == cur[t] IN /\ input' = [input EXCEPT ![n[2]][n[3]] = value[n]]
                        /\ value' = [value EXCEPT ![n] = 0]
  /\ pc' = [pc EXCEPT ![t] = "count"]
  /\ UNCHANGED <<top, next, node, since, again, mode, awaiter, count, resumes, cur, walkVars>>

\* Wrong: resumes main one event too early.
AllCountOneOff(t) ==
  /\ mode = "all" /\ pc[t] = "count"
  /\ LET r == cur[t][2]
     IN /\ count' = [count EXCEPT ![r] = @ + 1]
        /\ pc' = [pc EXCEPT ![t] = IF count'[r] = N - 1 THEN "main" ELSE "walk"]
        /\ cur' = [cur EXCEPT ![t] = IF pc'[t] = "walk" THEN Null ELSE @]
  /\ UNCHANGED <<top, next, node, value, since, again, mode, awaiter, input, resumes, walkVars>>

\* ... and the last one resumes main.
AllCount(t) ==
  /\ mode = "all" /\ pc[t] = "count"
  /\ LET r == cur[t][2]
     IN /\ count' = [count EXCEPT ![r] = @ + 1]
        /\ pc' = [pc EXCEPT ![t] = IF count[r] = N - 1 THEN "main" ELSE "walk"]
        /\ cur' = [cur EXCEPT ![t] = IF pc'[t] = "walk" THEN Null ELSE @]
  /\ UNCHANGED <<top, next, node, value, since, again, mode, awaiter, input, resumes, walkVars>>

\* Wrong: the test and the increment of the counter are two steps.
AnyLoadThenAdd(t) ==
  /\ mode = "any" /\ cur[t] # Null
  /\ LET r == cur[t][2]
     IN \/ /\ pc[t] = "resume" /\ cur[t][1] = "cb"
           /\ pc' = [pc EXCEPT ![t] = IF count[r] = 0 THEN "add" ELSE "walk"]
           /\ UNCHANGED count
        \/ /\ pc[t] = "add"
           /\ count' = [count EXCEPT ![r] = @ + 1]
           /\ pc' = [pc EXCEPT ![t] = "store"]
  /\ UNCHANGED <<top, next, node, value, since, again, mode, awaiter, input, resumes, cur, walkVars>>

\* when_any's callback: only the first one goes on ...
AnyCount(t) ==
  /\ mode = "any"
  /\ pc[t] = "resume" /\ cur[t][1] = "cb"
  /\ LET r == cur[t][2]
     IN /\ count' = [count EXCEPT ![r] = @ + 1]
        /\ pc' = [pc EXCEPT ![t] = IF count[r] = 0 THEN "store" ELSE "walk"]
        /\ cur' = [cur EXCEPT ![t] = IF pc'[t] = "walk" THEN Null ELSE @]
        /\ value' = IF pc'[t] = "walk" THEN [value EXCEPT ![cur[t]] = 0] ELSE value
  /\ UNCHANGED <<top, next, node, since, again, mode, awaiter, input, resumes, walkVars>>

\* ... to write the input into the awaiter and to resume main.
AnyStore(t) ==
  /\ mode = "any" /\ pc[t] = "store"
  /\ LET n == cur[t] IN /\ input' = [input EXCEPT ![n[2]][n[3]] = value[n]]
                        /\ value' = [value EXCEPT ![n] = 0]
  /\ pc' = [pc EXCEPT ![t] = "main"]
  /\ UNCHANGED <<top, next, node, since, again, mode, awaiter, count, resumes, cur, walkVars>>

\* handle.resume(): main takes the input out of the awaiter, which dies, and
\* runs on this thread into the next round, if there is one.
MainResumed(t) ==
  /\ pc[t] = "main"
  /\ LET r == cur[t][2]
     IN /\ resumes' = [resumes EXCEPT ![r] = @ + 1]
        /\ awaiter' = [q \in 1 .. Rounds |-> IF q = r THEN "dead"
                                             ELSE IF q = r + 1 THEN "alive" ELSE awaiter[q]]
        /\ IF r < Rounds
           THEN cur' = [cur EXCEPT ![t] = Cb(r + 1, 1)] /\ pc' = [pc EXCEPT ![t] = "register"]
           ELSE cur' = [cur EXCEPT ![t] = Null] /\ pc' = [pc EXCEPT ![t] = "walk"]
  /\ UNCHANGED <<top, next, node, value, since, again, mode, count, input, walkVars>>

ThreadStep(t) ==
  \/ Register(t) \/ RegisterInDeadAwaiter(t)
  \/ PushLoad(t) \/ PushCas(t) \/ PushCasFails(t)
  \/ NotifyNode(t) \/ SubEnds(t) \/ SubAgain(t)
  \/ AllStore(t) \/ AllCount(t) \/ AnyCount(t) \/ AnyStore(t) \/ MainResumed(t)

Next == \E t \in Threads : \/ ThreadStep(t)
                           \/ \E e \in 1 .. N : NotifyAll(t, e)
                           \/ \E s \in Subs : Subscribe(t, s)

Spec == Init /\ [][Next]_vars

\* A thread inside an operation goes on.  Nobody has to notify anything.
FairSpec == Spec /\ \A t \in Threads : WF_vars(ThreadStep(t))
-----------------------------------------------------------------------------
TypeOK ==
  /\ ConstantsAreSane
  /\ mode \in Modes
  /\ top \in [1 .. N -> Nodes \cup {Null}]
  /\ next \in [Nodes -> Nodes \cup {Null}]
  /\ node \in [Nodes -> {"none", "pushing", "subscribed", "popped", "run"}]
  /\ value \in [Nodes -> 0 .. MaxNotify] /\ since \in [Cbs -> 0 .. MaxNotify]
  /\ again \in [Subs -> 0 .. MaxAgain]
  /\ awaiter \in [1 .. Rounds -> {"none", "alive", "dead"}]
  /\ count \in [1 .. Rounds -> 0 .. N] /\ resumes \in [1 .. Rounds -> Nat]
  /\ input \in [1 .. Rounds -> [1 .. N -> 0 .. MaxNotify]]
  /\ pc \in [Threads -> {"walk", "register", "crashed", "load", "cas", "resume",
                         "count", "store", "main"}]
  /\ cur \in [Threads -> Nodes \cup {Null}] /\ rest \in [Threads -> Nodes \cup {Null}]
  /\ val \in [Threads -> 0 .. MaxNotify] /\ fired \in 0 .. MaxNotify

(***************************************************************************)
(* Subscribers are neither lost nor woken twice: a suspended coroutine is  *)
(* in exactly one list, the stack of its event or the list of the one      *)
(* notify_all that popped it, also when its node is pushed again at the    *)
(* same address while other threads hold that address in a push.           *)
(***************************************************************************)
SubscriberIsInOneList ==
  LET Heads(S) == {p \in S : p # Null}
      stacks == Heads({top[e] : e \in 1 .. N})
      lists  == Heads({rest[t] : t \in Threads})
  IN /\ UNION {NodesOf(next, p) : p \in stacks} = {n \in Nodes : node[n] = "subscribed"}
     /\ UNION {NodesOf(next, p) : p \in lists} = {n \in Nodes : node[n] = "popped"}
     /\ \A t, u \in Threads : t # u /\ rest[t] # Null /\ rest[u] # Null
                                => NodesOf(next, rest[t]) \cap NodesOf(next, rest[u]) = {}

(***************************************************************************)
(* Main is resumed at most once per await, after all events of when_all    *)
(* or after one event of when_any, with inputs of notifications that were  *)
(* made after it had subscribed.                                           *)
(***************************************************************************)
MainGetsFreshInputs ==
  \A r \in 1 .. Rounds :
    /\ resumes[r] <= 1
    /\ resumes[r] = 1 =>
         LET got == {i \in 1 .. N : input[r][i] > since[Cb(r, i)]}
         IN IF mode = "all" THEN got = 1 .. N
                            ELSE Cardinality(got) = 1 /\ \A i \in (1 .. N) \ got : input[r][i] = 0

(***************************************************************************)
(* A callback does not touch an awaiter that has died: not the callbacks   *)
(* of when_any that are still subscribed when main is long gone, and not   *)
(* the callback of when_all that was not the last.                         *)
(***************************************************************************)
CallbacksTouchLiveAwaiter ==
  \A t \in Threads : pc[t] \in {"count", "store"} \cup (IF mode = "all" THEN {"resume"} ELSE {})
                     /\ cur[t][1] = "cb" => awaiter[cur[t][2]] = "alive"

(***************************************************************************)
(* The thread that subscribes main to its events reads them from the       *)
(* awaiter; the awaiter dies when main is resumed.  The comment in         *)
(* when_any's await_suspend says it must not be used after that: "after    *)
(* coro resuming awaiter will die(with flag in it)".                       *)
(***************************************************************************)
RegistrationReadsLiveAwaiter ==
  \A t \in Threads : pc[t] = "register" => awaiter[cur[t][2]] = "alive"

(***************************************************************************)
(* when_all is resumed by its last callback, so that its registration      *)
(* cannot be overtaken by the end of the awaiter.                          *)
(***************************************************************************)
AllRegistrationReadsLiveAwaiter == mode = "all" => RegistrationReadsLiveAwaiter

(***************************************************************************)
(* Who was popped by notify_all is resumed, unless the registration of     *)
(* when_any in a dead awaiter has crashed a thread.                        *)
(***************************************************************************)
NotifiedIsResumed ==
  \A n \in Nodes : node[n] = "popped" ~>
    (node[n] = "run" \/ \E t \in Threads : pc[t] = "crashed")

(***************************************************************************)
(* Neither callbacks nor, for when_all, the registration touch an awaiter  *)
(* that has died; with the types of the state.                             *)
(***************************************************************************)
LiveAwaiterOnly ==
  /\ TypeOK /\ CallbacksTouchLiveAwaiter /\ AllRegistrationReadsLiveAwaiter
=============================================================================
