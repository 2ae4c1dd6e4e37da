----------------------------- MODULE LeafChain ------------------------------
(***************************************************************************)
(* What generator (generator.hpp) and channel (channel.hpp) have in        *)
(* common: a consumer object holds the frame `top`, a frame that executes  *)
(* co_yield elements_of(...) holds the consumer object of its leaf, and so *)
(* on.  Only the innermost frame works.  The promises find it, the object  *)
(* to report to and each other by three pointers: root, current_worker     *)
(* and a union of _consumer (in a root) and _owner (in a leaf).            *)
(*                                                                         *)
(* The operators take the promises and return them changed, so that a      *)
(* member function that calls others is a composition of operators.        *)
(***************************************************************************)
EXTENDS Integers, Sequences, SequencesExt, FiniteSets

CONSTANTS Frames,   \* coroutine frames of one promise type
          Objects,  \* generators or channels outside of the frames
          MaxReleased, \* bound on the handles that are released and not reset
          None      \* nullptr

ASSUME LeafChainAssumption ==
  IsFiniteSet(Frames) /\ None \notin Frames \cup Objects /\ MaxReleased \in Nat

VARIABLES alive,    \* the objects that have been constructed and not destroyed
          top,      \* top[o]: the frame that o holds
          current,  \* current_result[o]: the frame in which the value lies
          p,        \* p[f]: promise and state of frame f
          clearing, \* the clear() that is being executed, or None
          released  \* frames given away by release()

chain == <<alive, top, current, p, clearing, released>>

\* st: free, suspended, running, done (at its final suspension point);
\* leaf: the frame held by the attach_leaf awaiter in this frame.
NoFrame(f) == [st |-> "free", root |-> f, worker |-> f, link |-> None, leaf |-> None]

ChainInit == /\ alive = {}
             /\ top = [o \in Objects |-> None]
             /\ current = [o \in Objects |-> None]
             /\ p = [f \in Frames |-> NoFrame(f)]
             /\ clearing = None /\ released = {}

Free(f)    == p[f].st = "free"
Running(f) == p[f].st = "running"
Empty(o)   == top[o] = None \/ p[top[o]].st = "done"

Exchanged(fn, a, b) == [fn EXCEPT ![a] = fn[b], ![b] = fn[a]]

\* The frames from f on, each one the leaf of the one before.
Leaves == INSTANCE LinkedLists WITH Nodes <- Frames, Null <- None
Chain(q, f) == Leaves!ListOf([x \in Frames |-> q[x].leaf], f)

\* destroy() of a frame destroys the awaiter in it, which holds the next frame.
Destroy(q, f) ==
  [x \in Frames |-> IF x \in Range(Chain(q, f)) THEN NoFrame(x) ELSE q[x]]

\* A coroutine is called: its promise is its own root and its own worker.
Call(q, f, o) == [q EXCEPT ![f] = [NoFrame(f) EXCEPT !.st = "suspended", !.link = o]]

\* A frame goes on; behind co_yield elements_of(...) its awaiter dies first.
Resume(q, f) ==
  [Destroy(q, q[f].leaf) EXCEPT ![f].st = "running", ![f].leaf = None]

\* promise.skip_this_leaf()
SkipThisLeaf(q, f) ==
  LET owner == q[f].link
      r     == q[f].root
  IN [q EXCEPT ![owner].root = r, ![r].worker = owner]

\* Wrong: as if a leaf had never been iterated before.
AttachToTop(q, owner, t) ==
  LET r == q[owner].root
  IN Resume([q EXCEPT ![t].root = r, ![t].link = owner, ![r].worker = t,
                      ![owner].leaf = t, ![owner].st = "suspended"], t)

\* attach_leaf.await_suspend(owner) for a leaf with top frame t, which may have
\* been iterated before and have leaves of its own.
AttachLeaf(q, owner, t) ==
  LET w == q[t].worker
      r == q[owner].root
  IN Resume([q EXCEPT ![w].root = r, ![t].link = owner, ![r].worker = w,
                      ![owner].leaf = t, ![owner].st = "suspended"], w)
-----------------------------------------------------------------------------
(***************************************************************************)
(* The operations of the objects that do not differ.  They are completed   *)
(* by what generator and channel have besides.                             *)
(***************************************************************************)
\* The default constructor.
Construct(o) ==
  /\ clearing = None /\ o \notin alive
  /\ alive' = alive \cup {o}
  /\ current' = [current EXCEPT ![o] = None]
  /\ UNCHANGED <<top, p, clearing, released>>

\* co_yield elements_of(h): h is moved into the awaiter; an empty leaf is
\* skipped and dies with the awaiter.
YieldElements(f, h) ==
  /\ Running(f) /\ h \in alive /\ clearing = None
  /\ top' = [top EXCEPT ![h] = None]
  /\ current' = [current EXCEPT ![h] = None]
  /\ p' = IF Empty(h) THEN Destroy(p, top[h]) ELSE AttachLeaf(p, f, top[h])
  /\ UNCHANGED <<alive, clearing, released>>

\* clear(), the destructor and reset(handle) begin to clear o.
ClearBegins(o, then, handle) ==
  /\ clearing = None /\ o \in alive
  /\ then = "reset" => handle \in released
  /\ clearing' = [obj |-> o, then |-> then, handle |-> handle]
  /\ UNCHANGED <<alive, top, current, p, released>>

\* One round of the loop in clear(): the frame dies.  What dies with it may
\* assign another object, b, to the one that is being cleared (none if it is
\* the same); q are the promises after that.
ClearRound(b, q) ==
  /\ clearing # None /\ b \in alive
  /\ LET o == clearing.obj
     IN /\ top[o] # None
        /\ top' = Exchanged([top EXCEPT ![o] = None], o, b)
        /\ current' = Exchanged(current, o, b)
        /\ p' = q
  /\ UNCHANGED <<alive, clearing, released>>

\* Behind the loop: clear() returns, the object is gone, or has a new frame.
ClearEnds ==
  /\ LET o == clearing.obj
     IN \/ clearing.then = "clear" /\ UNCHANGED <<alive, top, current, released>>
        \/ /\ clearing.then = "destroy"
           /\ alive' = alive \ {o}
           /\ top' = [top EXCEPT ![o] = None]
           /\ current' = [current EXCEPT ![o] = None]
           /\ UNCHANGED released
        \/ /\ clearing.then = "reset"
           /\ top' = [top EXCEPT ![o] = clearing.handle]
           /\ released' = released \ {clearing.handle}
           /\ UNCHANGED <<alive, current>>
  /\ clearing' = None
  /\ UNCHANGED p

\* Wrong: one frame is destroyed, whatever the object holds then.
ClearOnce == clearing # None /\ ClearEnds

\* while (top)
ClearDone == clearing # None /\ top[clearing.obj] = None /\ ClearEnds

\* release(), and the caller who destroys what was released
Release(o) ==
  /\ clearing = None /\ o \in alive /\ top[o] # None
  /\ Cardinality(released) < MaxReleased
  /\ released' = released \cup {top[o]}
  /\ top' = [top EXCEPT ![o] = None]
  /\ UNCHANGED <<alive, current, p, clearing>>

DestroyReleased(f) ==
  /\ clearing = None /\ f \in released
  /\ released' = released \ {f}
  /\ p' = Destroy(p, f)
  /\ UNCHANGED <<alive, top, current, clearing>>
-----------------------------------------------------------------------------
\* The coroutines from f on that still have something to execute: only the
\* innermost one may have ended and not been destroyed.
StackOf(f) ==
  LET s == Chain(p, f) IN IF s # <<>> /\ p[Last(s)].st = "done" THEN Front(s) ELSE s

LinkTypes == Objects \cup Frames \cup {None}

ChainTypeOK ==
  /\ alive \subseteq Objects
  /\ top \in [Objects -> Frames \cup {None}]
  /\ current \in [Objects -> Frames \cup {None}]
  /\ p \in [Frames -> [st : {"free", "suspended", "running", "done"}, root : Frames,
                       worker : Frames, link : LinkTypes, leaf : Frames \cup {None}]]
  /\ released \subseteq Frames

(***************************************************************************)
(* No frame leaks, none has two holders, none is held by what is dead: the *)
(* live frames are exactly those on the chains of the objects that live    *)
(* and of the handles that were released, and no two chains meet.          *)
(***************************************************************************)
FramesHaveOneHolder ==
  /\ ChainTypeOK
  /\ LET heads == ({top[o] : o \in alive} \cup released) \ {None}
     IN {f \in Frames : ~Free(f)} = UNION {Range(Chain(p, h)) : h \in heads}
  /\ \A f \in Frames : Cardinality({o \in Objects : top[o] = f})
                       + Cardinality({r \in released : r = f})
                       + Cardinality({g \in Frames : p[g].leaf = f}) <= 1
=============================================================================
