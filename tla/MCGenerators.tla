---------------------------- MODULE MCGenerators -----------------------------
(***************************************************************************)
(* Model-checking instance of Generator and of Channel, which have their   *)
(* chain of frames in common, and of StackResource, the memory resource    *)
(* for such frames.  A behaviour is one of the component in `which`, and   *)
(* the others stay as they were.                                           *)
(***************************************************************************)
EXTENDS Generator

CONSTANTS Consumers, IteratorsSurviveSwap,  \* of Channel
          Align, Initial, Sizes, AlignOfR, SizeOfR, MaxLive, MaxChunks

VARIABLES which,
          handle, exception, awaits, it, terminated,
          cur, hdr, cap, freelist, heap, live, pc, arg, kept

C == INSTANCE Channel
S == INSTANCE StackResource

channelVars  == <<handle, exception, awaits, it, terminated>>
resourceVars == <<cur, hdr, cap, freelist, heap, live, pc, arg, kept>>

MCInit == /\ which \in {"generator", "channel", "stack_resource"}
          /\ Init /\ C!Init /\ S!Init

MCNext ==
  \/ which = "generator" /\ Next /\ UNCHANGED <<which, channelVars, resourceVars>>
  \/ which = "channel" /\ C!Next /\ UNCHANGED <<which, iter, resourceVars>>
  \/ which = "stack_resource" /\ S!Next /\ UNCHANGED <<which, chain, iter, channelVars>>

MCSpec == MCInit /\ [][MCNext]_<<which, chain, iter, channelVars, resourceVars>>

\* Frames, objects and consumers are interchangeable.
Symmetry == Permutations(Frames) \cup Permutations(Objects) \cup Permutations(Consumers)
-----------------------------------------------------------------------------
(***************************************************************************)
(* The chain of promises implements the stack of coroutines: whatever was  *)
(* attached, swapped, released or cleared before, current_worker is the    *)
(* innermost coroutine, its value reaches the generator or channel that is *)
(* iterated, the end of an iteration brings the consumer back that is in   *)
(* it, and a leaf that throws is skipped, neither more nor less.           *)
(***************************************************************************)
Abstract == INSTANCE RecursiveRange WITH
  stack <- [o \in Objects |-> StackOf(top[o])],
  value <- [o \in Objects |-> IF top[o] = None THEN None ELSE current[o]],
  busy  <- ({iter} \cup {awaits[c] : c \in Consumers}) \ {None},
  loose <- {StackOf(f) : f \in released} \ {<<>>}

LeavesFormAStack == Abstract!Spec

\* Who works for a consumer reports to its channel and to it, see Channel.
WorkerReportsToConsumer == C!WorkerReportsToConsumer

\* Frames and the resources behind them are intact, see StackResource.
LiveAllocationsAreIntact == S!LiveAllocationsAreIntact

\* Headers and freelist account for every chunk and its bytes, see StackResource.
ChunksAreConsistent == S!ChunksAreConsistent
=============================================================================
