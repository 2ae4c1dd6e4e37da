------------------------------ MODULE Channel -------------------------------
(***************************************************************************)
(* channel and channel_promise (channel.hpp) over LeafChain: a generator   *)
(* whose consumer is a coroutine.  The consumer is suspended in co_await   *)
(* begin(), next() or ++ and resumed through the handle in the channel.    *)
(* The bodies may wait for other things in between, so that the iterations *)
(* of several channels interleave.  An exception is kept in the channel.   *)
(***************************************************************************)
EXTENDS LeafChain

CONSTANTS Consumers,
          IteratorsSurviveSwap  \* whether ++ is used on an iterator after a swap

VARIABLES handle,     \* handle[o]: the consumer that o resumes
          exception,  \* exception[o]: whether o keeps an exception
          awaits,     \* awaits[c]: the channel in whose co_await c is, or None
          it,         \* it[c]: the channel of the iterator that c uses, or None
          terminated  \* std::terminate was called

own == <<handle, exception, awaits, it, terminated>>

vars == <<chain, own>>

Init == /\ ChainInit
        /\ handle = [o \in Objects |-> None]
        /\ exception = [o \in Objects |-> FALSE]
        /\ awaits = [c \in Consumers |-> None]
        /\ it = [c \in Consumers |-> None]
        /\ terminated = FALSE

\* The program goes on, and is not in a destructor.
Goes == ~terminated /\ clearing = None

\* Nobody iterates, moves or clears a channel that is iterated.
Resting(o) == Goes /\ o \in alive /\ \A c \in Consumers : awaits[c] # o

\* promise.consumer(): root->_consumer
ConsumerOf(f) == p[p[f].root].link

\* set_result() and the transfer to consumer_handle()
Report(o, v) == /\ current' = [current EXCEPT ![o] = v]
                /\ awaits' = [awaits EXCEPT ![handle[o]] = None]

\* Iterators of these channels are not used any more.
Invalidated(S) == [c \in Consumers |-> IF it[c] \in S THEN None ELSE it[c]]
-----------------------------------------------------------------------------
\* channel o = coro(...);  the union in the promise is not initialized.
Create(o, f) ==
  /\ Goes /\ o \notin alive /\ Free(f)
  /\ alive' = alive \cup {o}
  /\ top' = [top EXCEPT ![o] = f]
  /\ current' = [current EXCEPT ![o] = None]
  /\ handle' = [handle EXCEPT ![o] = None]
  /\ exception' = [exception EXCEPT ![o] = FALSE]
  /\ p' = Call(p, f, None)
  /\ UNCHANGED <<clearing, released, awaits, it, terminated>>

\* channel o;
ConstructEmpty(o) ==
  /\ Goes /\ Construct(o)
  /\ handle' = [handle EXCEPT ![o] = None]
  /\ exception' = [exception EXCEPT ![o] = FALSE]
  /\ UNCHANGED <<awaits, it, terminated>>

\* Wrong: the promise is told its consumer only once.
BeginTellsOnce(c, o) ==
  /\ Resting(o) /\ awaits[c] = None /\ ~Empty(o)
  /\ handle' = [handle EXCEPT ![o] = c]
  /\ awaits' = [awaits EXCEPT ![c] = o]
  /\ it' = [Invalidated({o}) EXCEPT ![c] = o]
  /\ p' = LET t == top[o]
          IN Resume([p EXCEPT ![t].link = IF @ = None THEN o ELSE @], p[t].worker)
  /\ UNCHANGED <<alive, top, current, clearing, released, exception, terminated>>

\* co_await begin() or next() of a channel that is not empty().  An iterator
\* that another coroutine had is not used after that.
Begin(c, o) ==
  /\ Resting(o) /\ awaits[c] = None /\ ~Empty(o)
  /\ handle' = [handle EXCEPT ![o] = c]
  /\ awaits' = [awaits EXCEPT ![c] = o]
  /\ it' = [Invalidated({o}) EXCEPT ![c] = o]
  /\ p' = Resume([p EXCEPT ![top[o]].link = o], p[top[o]].worker)
  /\ UNCHANGED <<alive, top, current, clearing, released, exception, terminated>>

\* co_await ++iterator, of an iterator that is not at the end
Increment(c) ==
  /\ it[c] # None /\ awaits[c] = None
  /\ LET o == it[c]
     IN /\ Resting(o) /\ ~Empty(o) /\ current[o] # None
        /\ awaits' = [awaits EXCEPT ![c] = o]
        /\ p' = Resume(p, p[top[o]].worker)
  /\ UNCHANGED <<alive, top, current, clearing, released, handle, exception, it, terminated>>

\* co_yield value
Yield(f) ==
  /\ Goes /\ Running(f)
  /\ Report(ConsumerOf(f), f)
  /\ p' = [p EXCEPT ![f].st = "suspended"]
  /\ UNCHANGED <<alive, top, clearing, released, handle, exception, it, terminated>>

\* co_yield elements_of(h)
YieldElementsOf(f, h) ==
  /\ Resting(h) /\ YieldElements(f, h)
  /\ handle' = [handle EXCEPT ![h] = None]
  /\ exception' = [exception EXCEPT ![h] = FALSE]
  /\ it' = Invalidated({h})
  /\ UNCHANGED <<awaits, terminated>>

\* co_return, see Generator; the root also resumes the consumer.
Return(f) ==
  /\ Goes /\ Running(f)
  /\ IF p[f].root # f
     THEN p' = Resume(SkipThisLeaf(p, f), p[f].link) /\ UNCHANGED <<current, awaits>>
     ELSE /\ Report(p[f].link, None)
          /\ p' = [p EXCEPT ![f].st = "done"]
  /\ UNCHANGED <<alive, top, clearing, released, handle, exception, it, terminated>>

\* unhandled_exception() and final_suspend behind it: the owner is the next
\* worker, but the leaf, now its own root, reports to the consumer.  A second
\* exception that the consumer has not taken yet ends the program.
Throw(f) ==
  /\ Goes /\ Running(f)
  /\ LET o == ConsumerOf(f)
         q == IF p[f].root # f THEN SkipThisLeaf(p, f) ELSE p
     IN IF exception[o]
        THEN terminated' = TRUE /\ UNCHANGED <<p, current, awaits, exception>>
        ELSE /\ exception' = [exception EXCEPT ![o] = TRUE]
             /\ p' = [q EXCEPT ![f].link = o, ![f].root = f, ![f].st = "done"]
             /\ Report(o, None)
             /\ UNCHANGED terminated
  /\ UNCHANGED <<alive, top, clearing, released, handle, it>>

\* take_exception(), by the user or by the channel_scope_guard of co_foreach
TakeException(o) ==
  /\ Resting(o) /\ exception[o]
  /\ exception' = [exception EXCEPT ![o] = FALSE]
  /\ UNCHANGED <<chain, handle, awaits, it, terminated>>

\* swap, move construction, move assignment: the promises are told nothing.
Swap(a, b) ==
  /\ Resting(a) /\ Resting(b)
  /\ top' = Exchanged(top, a, b)
  /\ current' = Exchanged(current, a, b)
  /\ handle' = Exchanged(handle, a, b)
  /\ exception' = Exchanged(exception, a, b)
  /\ it' = IF IteratorsSurviveSwap THEN it ELSE Invalidated({a, b})
  /\ UNCHANGED <<alive, p, clearing, released, awaits, terminated>>

Clear(o, then, h) ==
  /\ Resting(o) /\ ClearBegins(o, then, h)
  /\ it' = Invalidated({o})
  /\ UNCHANGED <<handle, exception, awaits, terminated>>

ClearRoundOf(b) ==
  /\ clearing # None
  /\ LET o == clearing.obj
     IN /\ \A c \in Consumers : awaits[c] # b
        /\ ClearRound(b, Destroy(p, top[o]))
        /\ handle' = Exchanged(handle, o, b)
        /\ exception' = Exchanged(exception, o, b)
        /\ it' = Invalidated({b})
  /\ UNCHANGED <<awaits, terminated>>

ReleaseFrom(o) ==
  /\ Resting(o) /\ Release(o)
  /\ it' = Invalidated({o})
  /\ UNCHANGED <<handle, exception, awaits, terminated>>

Terminated == terminated /\ UNCHANGED vars

Next ==
  \/ ClearDone /\ UNCHANGED own
  \/ \E o \in Objects :
       \/ ConstructEmpty(o) \/ ReleaseFrom(o) \/ TakeException(o) \/ ClearRoundOf(o)
       \/ Clear(o, "clear", None) \/ Clear(o, "destroy", None)
       \/ \E f \in Frames : Create(o, f) \/ YieldElementsOf(f, o) \/ Clear(o, "reset", f)
       \/ \E b \in Objects : Swap(o, b)
       \/ \E c \in Consumers : Begin(c, o)
  \/ \E c \in Consumers : Increment(c)
  \/ \E f \in Frames : \/ Yield(f) \/ Return(f) \/ Throw(f)
                       \/ DestroyReleased(f) /\ UNCHANGED own
  \/ Terminated

Spec == Init /\ [][Next]_vars
-----------------------------------------------------------------------------
(***************************************************************************)
(* The coroutine that works for a suspended consumer reports to the        *)
(* channel the consumer awaits and returns to this consumer, whoever had   *)
(* iterated the frames, the channel or a leaf before.                      *)
(***************************************************************************)
WorkerReportsToConsumer ==
  \A c \in Consumers : awaits[c] # None =>
    LET o == awaits[c]
        w == p[top[o]].worker
    IN Running(w) /\ ConsumerOf(w) = o /\ handle[o] = c
=============================================================================
