--------------------------- MODULE RecursiveRange ---------------------------
(***************************************************************************)
(* What generator and channel promise, without a pointer: an object holds  *)
(* a stack of coroutines, the innermost one last.  The last one works; its *)
(* values appear at the object that is iterated, and nowhere else.  A leaf *)
(* that ends gives way to its owner, a leaf that throws is skipped and     *)
(* ends the iteration, which may start again with the owner.               *)
(***************************************************************************)
EXTENDS Sequences, SequencesExt

CONSTANTS Frames, Objects, None

VARIABLES stack,    \* stack[o]: the coroutines that o has to execute
          value,    \* value[o]: the coroutine whose value o shows, or None
          busy,     \* the objects that are being iterated
          loose     \* stacks that were released from their object

vars == <<stack, value, busy, loose>>

Init == /\ stack = [o \in Objects |-> <<>>]
        /\ value = [o \in Objects |-> None]
        /\ busy = {} /\ loose = {}

Create(o, f) ==
  /\ stack[o] = <<>>
  /\ stack' = [stack EXCEPT ![o] = <<f>>]
  /\ value' = [value EXCEPT ![o] = None]
  /\ UNCHANGED <<busy, loose>>

Advance(o) ==
  /\ o \notin busy /\ stack[o] # <<>>
  /\ busy' = busy \cup {o}
  /\ UNCHANGED <<stack, value, loose>>

Produce(o) ==
  /\ o \in busy
  /\ value' = [value EXCEPT ![o] = Last(stack[o])]
  /\ busy' = busy \ {o}
  /\ UNCHANGED <<stack, loose>>

Nest(o, from) ==
  /\ o \in busy /\ from \notin busy
  /\ stack' = [stack EXCEPT ![o] = @ \o stack[from], ![from] = <<>>]
  /\ value' = [value EXCEPT ![from] = None]
  /\ UNCHANGED <<busy, loose>>

\* The owner goes on, or the range ends.
Finish(o) ==
  /\ o \in busy
  /\ stack' = [stack EXCEPT ![o] = Front(@)]
  /\ IF Len(stack[o]) > 1
     THEN UNCHANGED <<value, busy>>
     ELSE value' = [value EXCEPT ![o] = None] /\ busy' = busy \ {o}
  /\ UNCHANGED loose

Fail(o) ==
  /\ o \in busy
  /\ stack' = [stack EXCEPT ![o] = Front(@)]
  /\ value' = [value EXCEPT ![o] = None]
  /\ busy' = busy \ {o}
  /\ UNCHANGED loose

Exchange(a, b) ==
  /\ a \notin busy /\ b \notin busy
  /\ stack' = [stack EXCEPT ![a] = stack[b], ![b] = stack[a]]
  /\ value' = [value EXCEPT ![a] = value[b], ![b] = value[a]]
  /\ UNCHANGED <<busy, loose>>

\* The frames go; while they go they may fill the object from another one.
Drop(o) ==
  /\ o \notin busy
  /\ \/ stack' = [stack EXCEPT ![o] = <<>>] /\ value' = [value EXCEPT ![o] = None]
     \/ \E from \in Objects \ busy :
          /\ stack' = [stack EXCEPT ![o] = stack[from], ![from] = <<>>]
          /\ value' = [value EXCEPT ![o] = value[from], ![from] = None]
  /\ UNCHANGED <<busy, loose>>

Release(o) ==
  /\ o \notin busy
  /\ loose' = loose \cup ({stack[o]} \ {<<>>})
  /\ stack' = [stack EXCEPT ![o] = <<>>]
  /\ value' = [value EXCEPT ![o] = None]
  /\ UNCHANGED busy

\* A released stack, or one that had ended, comes back.  What the object shows
\* is of no use before it is advanced.
Adopt(o, s) ==
  /\ o \notin busy /\ stack[o] = <<>>
  /\ loose' = loose \ {s}
  /\ stack' = [stack EXCEPT ![o] = s]
  /\ \E v \in Frames \cup {None} : value' = [value EXCEPT ![o] = v]
  /\ UNCHANGED busy

Discard(s) == loose' = loose \ {s} /\ UNCHANGED <<stack, value, busy>>

Next == \/ \E s \in loose : Discard(s)
        \/ \E o \in Objects : \/ Advance(o) \/ Produce(o) \/ Finish(o) \/ Fail(o)
                              \/ Drop(o) \/ Release(o)
                              \/ \E f \in Frames : Create(o, f)
                              \/ \E q \in Objects : Nest(o, q) \/ Exchange(o, q)
                              \/ \E s \in loose \cup {<<>>} : Adopt(o, s)

Spec == Init /\ [][Next]_vars
=============================================================================
