--------------------------- MODULE AbstractQueue ---------------------------
(***************************************************************************)
(* What task_queue promises to its users, whatever its pointers, its lock  *)
(* and its condition variable do: pushing a list appends it in one atomic  *)
(* step, popping hands the whole content to one thread in one atomic step, *)
(* in the order of the pushes, and no node is lost or handed out twice.    *)
(***************************************************************************)
EXTENDS Integers, Sequences

CONSTANTS Nodes,      \* the task nodes
          Producers,  \* threads that push lists
          Takers,     \* threads that pop
          MaxList     \* longest list pushed at once

VARIABLES pending,  \* pending[p]: the list producer p is about to push
          items,    \* the content of the queue, first node first
          taken     \* taken[t]: what taker t has popped and not yet resumed

vars == <<pending, items, taken>>

SeqRange(s) == {s[i] : i \in DOMAIN s}

Fresh(n) == /\ \A p \in Producers : n \notin SeqRange(pending[p])
            /\ n \notin SeqRange(items)
            /\ \A t \in Takers : n \notin SeqRange(taken[t])

Init == /\ pending = [p \in Producers |-> << >>]
        /\ items = << >>
        /\ taken = [t \in Takers |-> << >>]

\* Producer p has built a list of nodes nobody else knows of.
Prepare(p) ==
  /\ pending[p] = << >>
  /\ \E s \in UNION {[1 .. l -> Nodes] : l \in 1 .. MaxList} :
       /\ \A i \in DOMAIN s : Fresh(s[i])
       /\ \A i, j \in DOMAIN s : s[i] = s[j] => i = j
       /\ pending' = [pending EXCEPT ![p] = s]
  /\ UNCHANGED <<items, taken>>

\* The whole list is appended behind what is already queued.
Push(p) ==
  /\ pending[p] # << >>
  /\ items' = items \o pending[p]
  /\ pending' = [pending EXCEPT ![p] = << >>]
  /\ UNCHANGED taken

\* The whole content goes to one taker.
PopAll(t) ==
  /\ taken[t] = << >>
  /\ items # << >>
  /\ taken' = [taken EXCEPT ![t] = items]
  /\ items' = << >>
  /\ UNCHANGED pending

\* The taker resumes the first node of its batch; the node is gone.
Resume(t) ==
  /\ taken[t] # << >>
  /\ taken' = [taken EXCEPT ![t] = Tail(@)]
  /\ UNCHANGED <<pending, items>>

Next == \/ \E p \in Producers : Prepare(p) \/ Push(p)
        \/ \E t \in Takers : PopAll(t) \/ Resume(t)

Spec == Init /\ [][Next]_vars
=============================================================================
