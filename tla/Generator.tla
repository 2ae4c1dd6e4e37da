------------------------------ MODULE Generator -----------------------------
(***************************************************************************)
(* generator and generator_promise (generator.hpp) over LeafChain.  The    *)
(* consumer calls begin() or ++ and is back when the innermost coroutine   *)
(* has yielded, the root has ended, or some coroutine has thrown.  Bodies  *)
(* yield values, yield the elements of other generators, return and throw. *)
(***************************************************************************)
EXTENDS LeafChain

VARIABLE iter  \* the generator in whose ++ the consumer is, or None

vars == <<chain, iter>>

Init == ChainInit /\ iter = None

\* The consumer executes its own code, not a coroutine or a destructor.
Idle == iter = None /\ clearing = None

\* promise.set_result(): the pointer goes where root->_consumer points to.
SetResult(f, v) == current' = [current EXCEPT ![p[p[f].root].link] = v]

\* prepare_to_start(): the promise of top learns its consumer.
PrepareToStart(q, t, g) == IF t[g] = None THEN q ELSE [q EXCEPT ![t[g]].link = g]
-----------------------------------------------------------------------------
\* generator g = coro(...);
Create(g, f) ==
  /\ Idle /\ g \notin alive /\ Free(f)
  /\ alive' = alive \cup {g}
  /\ top' = [top EXCEPT ![g] = f]
  /\ current' = [current EXCEPT ![g] = None]
  /\ p' = PrepareToStart(Call(p, f, None), top', g)
  /\ UNCHANGED <<clearing, released, iter>>

\* begin() and operator++ of a generator that is not empty()
Increment(g) ==
  /\ Idle /\ g \in alive /\ ~Empty(g)
  /\ iter' = g
  /\ p' = Resume(p, p[top[g]].worker)
  /\ UNCHANGED <<alive, top, current, clearing, released>>

\* co_yield value
Yield(f) ==
  /\ Running(f)
  /\ SetResult(f, f)
  /\ p' = [p EXCEPT ![f].st = "suspended"]
  /\ iter' = None
  /\ UNCHANGED <<alive, top, clearing, released>>

YieldElementsOf(f, h) == h # iter /\ YieldElements(f, h) /\ UNCHANGED iter

\* co_return: final_awaiter of a leaf gives way to the owner, whose awaiter
\* destroys the leaf; the one of the root reports the end.
Return(f) ==
  /\ Running(f)
  /\ IF p[f].root # f
     THEN p' = Resume(SkipThisLeaf(p, f), p[f].link) /\ UNCHANGED <<current, iter>>
     ELSE /\ SetResult(f, None)
          /\ p' = [p EXCEPT ![f].st = "done"]
          /\ iter' = None
  /\ UNCHANGED <<alive, top, clearing, released>>

\* unhandled_exception(): skips the leaf and throws out of ++ or begin().
Throw(f) ==
  /\ Running(f)
  /\ SetResult(f, None)
  /\ p' = LET q == IF p[f].root # f THEN SkipThisLeaf(p, f) ELSE p
          IN [q EXCEPT ![f].st = "done"]
  /\ iter' = None
  /\ UNCHANGED <<alive, top, clearing, released>>

\* Both frames learn their new consumer.
PrepareBoth(q, t, a, b) == PrepareToStart(PrepareToStart(q, t, a), t, b)

\* swap, move construction into a fresh object, move assignment
Swap(a, b) ==
  /\ Idle /\ a \in alive /\ b \in alive
  /\ top' = Exchanged(top, a, b)
  /\ current' = Exchanged(current, a, b)
  /\ p' = PrepareBoth(p, top', a, b)
  /\ UNCHANGED <<alive, clearing, released, iter>>

\* reset does not tell the promise its consumer: the handle has to come back
\* to the object that released it.
Clear(g, then, handle) ==
  /\ Idle
  /\ then = "reset" => p[handle].link = g
  /\ ClearBegins(g, then, handle) /\ UNCHANGED iter

ClearRoundOf(b) ==
  /\ clearing # None
  /\ LET g == clearing.obj
     IN ClearRound(b, PrepareBoth(Destroy(p, top[g]), top', g, b))
  /\ UNCHANGED iter

Next ==
  \/ ClearDone /\ UNCHANGED iter
  \/ \E g \in Objects :
       \/ Increment(g) \/ ClearRoundOf(g)
       \/ Idle /\ (Construct(g) \/ Release(g)) /\ UNCHANGED iter
       \/ Clear(g, "clear", None) \/ Clear(g, "destroy", None)
       \/ \E f \in Frames : Create(g, f) \/ YieldElementsOf(f, g) \/ Clear(g, "reset", f)
       \/ \E h \in Objects : Swap(g, h)
  \/ \E f \in Frames : \/ Yield(f) \/ Return(f) \/ Throw(f)
                       \/ Idle /\ DestroyReleased(f) /\ UNCHANGED iter

Spec == Init /\ [][Next]_vars
=============================================================================
