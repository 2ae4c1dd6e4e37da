---------------------------- MODULE LinkedLists ----------------------------
(***************************************************************************)
(* The intrusive singly linked lists of task_node that every executor of   *)
(* kelcoro passes around (executor_interface.hpp).  Memory is a function   *)
(* `nxt` from nodes to their `next` field; a list is the pointer to its    *)
(* first node.                                                             *)
(***************************************************************************)
EXTENDS Integers, Sequences, FiniteSets

CONSTANTS Nodes,  \* the task_node objects
          Null    \* nullptr

ASSUME NullIsNoNode == Null \notin Nodes
ASSUME NodesAreFinite == IsFiniteSet(Nodes)

(***************************************************************************)
(* The sequence of nodes met when following `next` from p.  The walk stops *)
(* after Cardinality(Nodes) + 1 nodes, so a list with a cycle yields a     *)
(* sequence with a repeated node instead of not ending.                    *)
(***************************************************************************)
ListOf(nxt, p) ==
  LET step == [n \in Nodes \cup {Null} |-> IF n = Null THEN Null ELSE nxt[n]]
      at[k \in 0 .. Cardinality(Nodes)] == IF k = 0 THEN p ELSE step[at[k - 1]]
      len == Cardinality({k \in 0 .. Cardinality(Nodes) : at[k] # Null})
  IN  [i \in 1 .. len |-> at[i - 1]]

\* The nodes of the list that starts at p.
NodesOf(nxt, p) == LET s == ListOf(nxt, p) IN {s[i] : i \in 1 .. Len(s)}

\* The last node of a non-empty list.
LastOf(nxt, p) == LET s == ListOf(nxt, p) IN s[Len(s)]

\* Memory after the nodes of sequence s are chained in this order.
Chained(nxt, s) ==
  [n \in Nodes |->
     IF \E i \in 1 .. Len(s) : s[i] = n
     THEN LET i == CHOOSE j \in 1 .. Len(s) : s[j] = n
          IN  IF i = Len(s) THEN Null ELSE s[i + 1]
     ELSE nxt[n]]

\* A sequence that names no node twice.
NoRepeats(s) == \A i, j \in 1 .. Len(s) : s[i] = s[j] => i = j

\* The non-empty sequences of at most k distinct members of S.
DistinctSeqs(S, k) ==
  UNION { {s \in [1 .. l -> S] : NoRepeats(s)} : l \in 1 .. k }
=============================================================================
