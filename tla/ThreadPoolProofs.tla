-------------------------- MODULE ThreadPoolProofs --------------------------
(***************************************************************************)
(* Proofs about ThreadPool, for any number of workers, coroutines and      *)
(* calls of request_stop: no list of the pool is ever broken, and nothing  *)
(* that was attached to the pool is lost.                                  *)
(***************************************************************************)
EXTENDS ThreadPool, FiniteSetTheorems, TLAPS

\* Facts about linked lists, for the nodes of the pool.
LP == INSTANCE ListProofs

\* The places where lists are, and their pointers.
Main      == <<"main">>
ClientAt  == <<"client">>
Queue(q)  == <<"queue", q>>
Batch(w)  == <<"batch", w>>
Heads     == [l \in Places |-> HeadOf(l)]

\* The nodes of the list at place l.
Mem(l) == LP!NodesOf(next, Heads[l])

\* Each place holds a list, they share no node, and `last` ends its queue.
Lists ==
  /\ LP!Separate(Places, Heads, next)
  /\ \A q \in Workers : first[q] # Null => last[q] = LP!LastOf(next, first[q])

\* What is in a list exists, and the node of a suspended coroutine, or of a job
\* of push_deadpill, is in a list; `stopq` says which jobs there have been.
NodesOK ==
  /\ \A l \in Places : Mem(l) \subseteq alive
  /\ \A c \in Coros : CoroNode(c) \in alive => \E l \in Places : CoroNode(c) \in Mem(l)
  /\ \A c \in Coros : CoroNode(c) \in alive <=> coro[c] = "suspended"
  /\ \A s \in Stops, q \in Workers :
       /\ StopNode(s, q) \in alive => \E l \in Places : StopNode(s, q) \in Mem(l)
       /\ StopPill(s, q) \in alive <=> StopNode(s, q) \in alive
       /\ StopNode(s, q) \in alive => q < stopq[s]

\* A job of push_deadpill is behind its pill, unless somebody who cancels has
\* met the pill already.
PairsOK ==
  /\ \A n \in Mem(ClientAt) : n[1] = "coro"
  /\ \A s \in Stops, q \in Workers, l \in Places :
       /\ StopPill(s, q) \in Mem(l) => next[StopPill(s, q)] = StopNode(s, q)
       /\ StopNode(s, q) \in Mem(l) /\ l # Main /\ (\A w \in Workers : l = Batch(w) => wpc[w] # "cancel")
            => StopPill(s, q) \in Mem(l)

\* A worker has a batch only inside of its loops; a coroutine that runs does so
\* on one worker; who calls request_stop does nothing else.
Executing(w) == wpc[w] \in {"run", "stopping"}
WorkersOK ==
  /\ \A w \in Workers : top[w] # Null => wpc[w] \in {"batch", "run", "stopping", "cancel"}
  /\ \A w \in Workers : Executing(w) => cur[w] \in Coros /\ coro[cur[w]] = "running"
  /\ \A v, w \in Workers : Executing(v) /\ Executing(w) /\ cur[v] = cur[w] => v = w
  /\ \A c \in Coros : coro[c] = "running" => \E w \in Workers : Executing(w) /\ cur[w] = c
  /\ \A s \in Stops : caller[s] \in Workers => wpc[caller[s]] = "stopping"
  /\ \A s, r \in Stops : caller[s] \in Workers /\ caller[s] = caller[r] => s = r

\* Which threads the owner of the pool has joined.
Joined(k) == \A w \in Workers : w < k => ~joinable[w]
ThreadsOK ==
  /\ \A w \in Workers : ~joinable[w] => wpc[w] \in {"unborn", "exited"}
  /\ mpc = "ctor" => mi <= NumWorkers /\ \A w \in Workers : IF w < mi THEN wpc[w] = "pop" ELSE ~joinable[w]
  /\ mpc \in {"undo", "undo_join"} =>
       /\ mi <= NumWorkers /\ ~joinable[NumWorkers]
       /\ \A v, w \in Workers : mi <= v /\ v < w /\ joinable[w] => joinable[v]
       /\ \A w \in Workers : joinable[w] /\ (mpc = "undo_join" => w # mi) => wpc[w] = "pop"
  /\ mpc = "undo_join" => joinable[mi] /\ (first[mi] # Null => wpc[mi] = "pop")
  /\ mpc \in {"undo", "undo_join", "wait", "dtor", "dtor_join"} => Joined(mi)
  /\ mpc = "dtor_drain" => Joined(mi + 1)
  /\ mpc \in {"dtor_join", "dtor_drain"} => mi <= NumWorkers
  /\ mpc \in {"wait_cancel", "waited", "dtor_cancel", "dead"} => Joined(NumWorkers + 1)

\* Who may use the pool, and where the pill of its owner is.
Early == {"ctor", "undo", "undo_join"}
OwnerOK ==
  /\ mtop # Null => mpc \in {"wait_cancel", "dtor_drain", "dtor_cancel"}
  /\ mpc \in Early => /\ alive \subseteq {DtorPill}
                      /\ \A c \in Coros : coro[c] = "new"
                      /\ \A s \in Stops : caller[s] = Nobody
  /\ ~PoolUsable => ctop = Null /\ \A s \in Stops : caller[s] # Client
  /\ DtorPill \in alive => mpc \in {"undo", "undo_join", "dtor", "dtor_join", "dtor_drain", "dtor_cancel"}
  /\ \A l \in Places : DtorPill \in Mem(l) =>
       \/ mpc \in {"undo_join", "dtor_join"} /\ (l = Queue(mi) \/ l = Batch(mi))
       \/ mpc = "dtor_drain" /\ l = Main
  /\ mpc \in {"undo", "undo_join", "dtor", "dtor_join", "dtor_drain", "dtor_cancel"} => DtorPill \in alive
  /\ mpc = "dtor_cancel" => \A w \in Workers : w < mi => first[w] = Null
  /\ mpc = "dead" => alive = {} /\ \A w \in Workers : first[w] = Null

\* The inductive invariant.
Inv == TypeOK /\ Lists /\ NodesOK /\ PairsOK /\ WorkersOK /\ ThreadsOK /\ OwnerOK
-----------------------------------------------------------------------------
LEMMA SameOperators ==
  /\ \A nxt, p : ListOf(nxt, p) = LP!ListOf(nxt, p)
  /\ \A nxt, p : NodesOf(nxt, p) = LP!NodesOf(nxt, p)
  /\ \A nxt, p : LastOf(nxt, p) = LP!LastOf(nxt, p)
  /\ \A nxt, s : Chained(nxt, s) = LP!Chained(nxt, s)
  /\ \A s : NoRepeats(s) = LP!NoRepeats(s)
  <1>1. \A nxt, p : ListOf(nxt, p) = LP!ListOf(nxt, p)
    BY DEF ListOf, LP!ListOf, Cardinality, LP!Cardinality
  <1>2. \A nxt, p : NodesOf(nxt, p) = LP!NodesOf(nxt, p)
    BY <1>1 DEF NodesOf, LP!NodesOf
  <1>3. \A nxt, p : LastOf(nxt, p) = LP!LastOf(nxt, p)
    BY <1>1 DEF LastOf, LP!LastOf
  <1>4. \A nxt, s : Chained(nxt, s) = LP!Chained(nxt, s)
    BY DEF Chained, LP!Chained
  <1>5. \A s : NoRepeats(s) = LP!NoRepeats(s)
    BY DEF NoRepeats, LP!NoRepeats
  <1> QED
    BY <1>1, <1>2, <1>3, <1>4, <1>5

LEMMA NodeFacts ==
  /\ \A c \in Coros : CoroNode(c) \in Nodes /\ CoroNode(c)[1] = "coro" /\ CoroNode(c)[2] = c
  /\ \A s \in Stops, q \in Workers :
       /\ StopPill(s, q) \in Nodes /\ StopPill(s, q)[1] = "pill"
       /\ StopPill(s, q)[2] = s /\ StopPill(s, q)[3] = q
       /\ StopNode(s, q) \in Nodes /\ StopNode(s, q)[1] = "stop"
       /\ StopNode(s, q)[2] = s /\ StopNode(s, q)[3] = q
  /\ DtorPill \in Nodes /\ DtorPill[1] = "dtor"
  /\ \A n \in Nodes : \/ \E c \in Coros : n = CoroNode(c)
                      \/ \E s \in Stops, q \in Workers : n = StopPill(s, q) \/ n = StopNode(s, q)
                      \/ n = DtorPill
  BY DEF Nodes, CoroNode, StopPill, StopNode, DtorPill

LEMMA NodesFinite == IsFiniteSet(Nodes)
  <1> DEFINE coroNodes == {CoroNode(c) : c \in Coros}
             pairs     == Stops \X Workers
             pills     == {StopPill(s, q) : s \in Stops, q \in Workers}
             jobs      == {StopNode(s, q) : s \in Stops, q \in Workers}
             f == [c \in Coros |-> CoroNode(c)]
             g == [p \in pairs |-> StopPill(p[1], p[2])]
             h == [p \in pairs |-> StopNode(p[1], p[2])]
  <1>1. IsFiniteSet(Workers)
    BY PoolAssumption, FS_Interval DEF Workers
  <1>2. IsFiniteSet(pairs)
    BY <1>1, PoolAssumption, FS_Product
  <1>3. f \in Surjection(Coros, coroNodes)
    BY DEF Surjection
  <1>4. g \in Surjection(pairs, pills)
    <2>1. g \in [pairs -> pills]
      OBVIOUS
    <2>2. ASSUME NEW s \in Stops, NEW q \in Workers PROVE <<s, q>> \in pairs /\ g[<<s, q>>] = StopPill(s, q)
      OBVIOUS
    <2> HIDE DEF g, pairs
    <2>3. ASSUME NEW t \in pills PROVE \E p \in pairs : g[p] = t
      <3>1. PICK s \in Stops, q \in Workers : t = StopPill(s, q)
        OBVIOUS
      <3>2. <<s, q>> \in pairs /\ g[<<s, q>>] = t
        BY <2>2, <3>1
      <3> QED
        BY <3>2
    <2> HIDE DEF pills
    <2> QED
      BY <2>1, <2>3 DEF Surjection
  <1>5. h \in Surjection(pairs, jobs)
    <2>1. h \in [pairs -> jobs]
      OBVIOUS
    <2>2. ASSUME NEW s \in Stops, NEW q \in Workers PROVE <<s, q>> \in pairs /\ h[<<s, q>>] = StopNode(s, q)
      OBVIOUS
    <2> HIDE DEF h, pairs
    <2>3. ASSUME NEW t \in jobs PROVE \E p \in pairs : h[p] = t
      <3>1. PICK s \in Stops, q \in Workers : t = StopNode(s, q)
        OBVIOUS
      <3>2. <<s, q>> \in pairs /\ h[<<s, q>>] = t
        BY <2>2, <3>1
      <3> QED
        BY <3>2
    <2> HIDE DEF jobs
    <2> QED
      BY <2>1, <2>3 DEF Surjection
  <1>6. IsFiniteSet(coroNodes) /\ IsFiniteSet(pills) /\ IsFiniteSet(jobs)
    BY <1>2, <1>3, <1>4, <1>5, PoolAssumption, FS_Surjection
  <1>7. Nodes = ((coroNodes \cup {DtorPill}) \cup pills) \cup jobs
    BY DEF Nodes
  <1> QED
    <2> HIDE DEF coroNodes, pills, jobs
    <2>1. IsFiniteSet(coroNodes \cup {DtorPill})
      BY <1>6, FS_Singleton, FS_Union
    <2>2. IsFiniteSet((coroNodes \cup {DtorPill}) \cup pills)
      BY <1>6, <2>1, FS_Union
    <2> QED
      BY <1>6, <1>7, <2>2, FS_Union

\* ListProofs is about the nodes of the pool.
LEMMA ListsApply == LP!IsFiniteSet(Nodes) /\ Null \notin Nodes
  BY NodesFinite, NullIsNowhere DEF IsFiniteSet, LP!IsFiniteSet

LEMMA PlaceFacts ==
  /\ Main \in Places /\ ClientAt \in Places /\ Main # ClientAt
  /\ \A q \in Workers : /\ Queue(q) \in Places /\ Batch(q) \in Places
                        /\ Queue(q) # Main /\ Queue(q) # ClientAt /\ Batch(q) # Main /\ Batch(q) # ClientAt
  /\ \A q, w \in Workers : Queue(q) # Batch(w) /\ (Queue(q) = Queue(w) => q = w) /\ (Batch(q) = Batch(w) => q = w)
  /\ \A l \in Places : l = Main \/ l = ClientAt \/ \E q \in Workers : l = Queue(q) \/ l = Batch(q)
  BY DEF Main, ClientAt, Queue, Batch, Places

LEMMA HeadFacts ==
  /\ Heads = [l \in Places |-> Heads[l]] /\ Heads' = [l \in Places |-> Heads'[l]]
  /\ Heads[Main] = mtop /\ Heads[ClientAt] = ctop
  /\ Heads'[Main] = mtop' /\ Heads'[ClientAt] = ctop'
  /\ \A q \in Workers : Heads[Queue(q)] = first[q] /\ Heads[Batch(q)] = top[q]
  /\ \A q \in Workers : Heads'[Queue(q)] = first'[q] /\ Heads'[Batch(q)] = top'[q]
  <1>1. /\ HeadOf(Main) = mtop /\ HeadOf(ClientAt) = ctop
        /\ HeadOf(Main)' = mtop' /\ HeadOf(ClientAt)' = ctop'
        /\ \A q \in Workers : HeadOf(Queue(q)) = first[q] /\ HeadOf(Batch(q)) = top[q]
        /\ \A q \in Workers : HeadOf(Queue(q))' = first'[q] /\ HeadOf(Batch(q))' = top'[q]
    BY DEF Main, ClientAt, Queue, Batch, HeadOf
  <1>2. \A l \in Places : Heads[l] = HeadOf(l) /\ Heads'[l] = HeadOf(l)'
    BY DEF Heads, Places
  <1>3. Heads = [l \in Places |-> Heads[l]] /\ Heads' = [l \in Places |-> Heads'[l]]
    BY DEF Heads, Places
  <1> QED
    BY <1>1, <1>2, <1>3, PlaceFacts

LEMMA HeadsType ==
  /\ TypeOK => Heads \in [Places -> Nodes \cup {Null}]
  /\ TypeOK' => Heads' \in [Places -> Nodes \cup {Null}]
  <1>1. ASSUME TypeOK PROVE \A l \in Places : Heads[l] \in Nodes \cup {Null}
    <2>1. /\ mtop \in Nodes \cup {Null} /\ ctop \in Nodes \cup {Null}
          /\ \A q \in Workers : first[q] \in Nodes \cup {Null} /\ top[q] \in Nodes \cup {Null}
      BY <1>1 DEF TypeOK
    <2> QED
      BY <2>1, PlaceFacts, HeadFacts
  <1>2. ASSUME TypeOK' PROVE \A l \in Places : Heads'[l] \in Nodes \cup {Null}
    <2>1. /\ mtop' \in Nodes \cup {Null} /\ ctop' \in Nodes \cup {Null}
          /\ \A q \in Workers : first'[q] \in Nodes \cup {Null} /\ top'[q] \in Nodes \cup {Null}
      BY <1>2 DEF TypeOK
    <2> QED
      BY <2>1, PlaceFacts, HeadFacts
  <1>3. Heads = [l \in Places |-> Heads[l]] /\ Heads' = [l \in Places |-> Heads'[l]]
    BY HeadFacts
  <1> HIDE DEF Heads
  <1> QED
    BY <1>1, <1>2, <1>3, Zenon

\* What a pointer says of the list it points to.
LEMMA InPlace ==
  ASSUME Lists, NEW l \in Places
  PROVE  /\ Mem(l) \subseteq Nodes
         /\ Heads[l] = Null => Mem(l) = {}
         /\ Heads[l] # Null => Heads[l] \in Mem(l)
         /\ \A n \in Mem(l) : (next[n] = Null \/ next[n] \in Mem(l)) /\ next[n] # Heads[l]
         /\ \A m \in Places : l # m => Mem(l) \cap Mem(m) = {}
  <1>1. LP!Separate(Places, Heads, next)
    BY DEF Lists
  <1>2. \A m \in Places : l # m => Mem(l) \cap Mem(m) = {}
    BY <1>1 DEF LP!Separate, Mem
  <1> QED
    BY <1>1, <1>2, LP!InList, ListsApply DEF Mem

\* A step that moves no pointer.
LEMMA Unmoved ==
  ASSUME Lists, UNCHANGED <<first, last, next, top, mtop, ctop>>
  PROVE  /\ Lists'
         /\ \A l \in Places : Mem(l)' = Mem(l) /\ Heads'[l] = Heads[l]
  <1>1. Heads' = Heads
    BY DEF Heads, HeadOf
  <1> QED
    BY <1>1 DEF Lists, Mem

\* A step from the first node of a list, which is no queue, to the next node.
LEMMA StepHead ==
  ASSUME TypeOK', Lists, NEW l \in Places, Heads[l] # Null, UNCHANGED <<first, last, next>>,
         Heads'[l] = next[Heads[l]], \A m \in Places : m # l => Heads'[m] = Heads[m]
  PROVE  /\ Lists'
         /\ Mem(l)' = Mem(l) \ {Heads[l]}
         /\ \A m \in Places : m # l => Mem(m)' = Mem(m)
  <1>1. LP!Separate(Places, Heads, next) /\ Heads' \in [Places -> Nodes \cup {Null}]
    BY HeadsType DEF Lists
  <1>2. LP!Separate(Places, Heads', next) /\ LP!NodesOf(next, Heads'[l]) = LP!NodesOf(next, Heads[l]) \ {Heads[l]}
    BY <1>1, LP!SeparateStep, ListsApply
  <1>3. Lists'
    BY <1>2 DEF Lists
  <1> QED
    BY <1>2, <1>3 DEF Mem

\* A list that changes hands.
LEMMA MoveList ==
  ASSUME TypeOK', Lists, NEW g \in Workers, NEW h \in Places, h # Queue(g), UNCHANGED <<last, next>>,
         Heads[h] = Null, Heads'[h] = first[g], first' = [first EXCEPT ![g] = Null],
         TypeOK, \A m \in Places : m # h /\ m # Queue(g) => Heads'[m] = Heads[m]
  PROVE  /\ Lists'
         /\ Mem(h)' = Mem(Queue(g)) /\ Mem(Queue(g))' = {}
         /\ \A m \in Places : m # h /\ m # Queue(g) => Mem(m)' = Mem(m)
  <1>1. LP!Separate(Places, Heads, next) /\ Heads' \in [Places -> Nodes \cup {Null}]
    BY HeadsType DEF Lists
  <1>2. Queue(g) \in Places /\ Heads[Queue(g)] = first[g] /\ Heads'[Queue(g)] = Null
    BY PlaceFacts, HeadFacts DEF TypeOK
  <1>3. LP!Separate(Places, Heads', next)
    BY <1>1, <1>2, LP!SeparateMove, ListsApply
  <1>4. \A q \in Workers : first'[q] # Null => first'[q] = first[q]
    BY DEF TypeOK
  <1>5. Lists'
    BY <1>3, <1>4 DEF Lists
  <1>6. Mem(Queue(g))' = {}
    <2>1. LP!NodesOf(next, Heads'[Queue(g)]) = {}
      BY <1>2, <1>3, LP!InList, ListsApply
    <2> QED
      BY <2>1 DEF Mem
  <1> QED
    BY <1>2, <1>5, <1>6 DEF Mem

(***************************************************************************)
(* push_list of a list t of nodes that are in no list, chained in memory   *)
(* mem.  H is where the lists are when it happens: Heads, except in        *)
(* attach_list, which steps to the next node before it pushes the first.   *)
(***************************************************************************)
LEMMA AppendList ==
  ASSUME TypeOK, TypeOK', Lists, NEW q \in Workers, NEW H, LP!Separate(Places, H, next),
         \A p \in Workers : H[Queue(p)] = first[p],
         \A l \in Places : (\A p \in Workers : l # Queue(p)) => Heads'[l] = H[l],
         NEW t, t # <<>>, \A m \in Places : LP!Members(t) \cap LP!NodesOf(next, H[m]) = {},
         NEW mem \in [Nodes -> Nodes \cup {Null}], LP!IsChain(mem, t),
         \A n \in Nodes \ LP!Members(t) : mem[n] = next[n],
         PushList(q, t[1], t[Len(t)], mem)
  PROVE  /\ Lists'
         /\ Mem(Queue(q))' = LP!NodesOf(next, first[q]) \cup LP!Members(t)
         /\ \A m \in Places : m # Queue(q) => Mem(m)' = LP!NodesOf(next, H[m])
         /\ \A n \in Nodes \ LP!Members(t) : next[n] # Null => next'[n] = next[n]
         /\ \A n \in LP!Members(t) : next'[n] = mem[n]
  <1>1. Queue(q) \in Places /\ H[Queue(q)] = first[q] /\ Heads' \in [Places -> Nodes \cup {Null}]
    BY PlaceFacts, HeadsType
  <1>2. next \in [Nodes -> Nodes \cup {Null}] /\ LP!PointerTo(t) = t[1]
    BY DEF TypeOK, LP!PointerTo
  <1>3. /\ first[q] = Null => first'[q] = t[1] /\ next' = mem
        /\ first[q] # Null => /\ first'[q] = first[q]
                              /\ next' = [mem EXCEPT ![LP!LastOf(next, first[q])] = t[1]]
        /\ last'[q] = t[Len(t)]
        /\ \A p \in Workers : p # q => first'[p] = first[p] /\ last'[p] = last[p]
    BY DEF TypeOK, PushList, Lists
  <1>4. Heads'[Queue(q)] = IF H[Queue(q)] = Null THEN LP!PointerTo(t) ELSE H[Queue(q)]
    BY <1>1, <1>2, <1>3, HeadFacts
  <1>5. \A m \in Places : m # Queue(q) => Heads'[m] = H[m]
    BY <1>3, HeadFacts, PlaceFacts
  <1>6. /\ LP!Separate(Places, Heads', next')
        /\ LP!NodesOf(next', Heads'[Queue(q)]) = LP!NodesOf(next, H[Queue(q)]) \cup LP!Members(t)
        /\ LP!LastOf(next', Heads'[Queue(q)]) = t[Len(t)]
        /\ \A m \in Places : m # Queue(q) => /\ LP!NodesOf(next', Heads'[m]) = LP!NodesOf(next, H[m])
                                             /\ LP!LastOf(next', Heads'[m]) = LP!LastOf(next, H[m])
        /\ \A n \in Nodes \ LP!Members(t) : next[n] # Null => next'[n] = next[n]
        /\ \A n \in LP!Members(t) : next'[n] = mem[n]
    <2> DEFINE Q == Queue(q)  old == next  new == next'  G == Heads'
    <2>1. /\ Q \in Places /\ old \in [Nodes -> Nodes \cup {Null}] /\ LP!Separate(Places, H, old)
          /\ \A m \in Places : LP!Members(t) \cap LP!NodesOf(old, H[m]) = {}
          /\ \A n \in Nodes \ LP!Members(t) : mem[n] = old[n]
          /\ G \in [Places -> Nodes \cup {Null}]
          /\ G[Q] = IF H[Q] = Null THEN LP!PointerTo(t) ELSE H[Q]
          /\ \A m \in Places : m # Q => G[m] = H[m]
      BY <1>1, <1>2, <1>4, <1>5
    <2>2. /\ H[Q] = Null => new = mem
          /\ H[Q] # Null => new = [mem EXCEPT ![LP!LastOf(old, H[Q])] = LP!PointerTo(t)]
      BY <1>1, <1>2, <1>3
    <2> HIDE DEF Q, old, new, G
    <2>3. /\ LP!Separate(Places, G, new)
          /\ LP!NodesOf(new, G[Q]) = LP!NodesOf(old, H[Q]) \cup LP!Members(t)
          /\ LP!LastOf(new, G[Q]) = t[Len(t)]
          /\ \A m \in Places : m # Q => /\ LP!NodesOf(new, G[m]) = LP!NodesOf(old, H[m])
                                        /\ LP!LastOf(new, G[m]) = LP!LastOf(old, H[m])
          /\ \A n \in Nodes \ LP!Members(t) : old[n] # Null => new[n] = old[n]
          /\ \A n \in LP!Members(t) : new[n] = mem[n]
      BY <2>1, <2>2, LP!SeparateAppend, ListsApply
    <2> QED
      BY <2>3 DEF Q, old, new, G
  <1>7. ASSUME NEW p \in Workers, first'[p] # Null PROVE last'[p] = LP!LastOf(next', first'[p])
    <2>1. Heads'[Queue(p)] = first'[p] /\ Queue(p) \in Places
      BY HeadFacts, PlaceFacts
    <2>2. CASE p = q
      BY <1>3, <1>6, <2>1, <2>2
    <2>3. CASE p # q
      <3>1. Queue(p) # Queue(q) /\ first'[p] = first[p] /\ last'[p] = last[p] /\ H[Queue(p)] = first[p]
        BY <1>3, <2>3, PlaceFacts
      <3>2. last[p] = LP!LastOf(next, first[p])
        BY <1>7, <3>1 DEF Lists
      <3> QED
        BY <1>6, <2>1, <3>1, <3>2
    <2> QED
      BY <2>2, <2>3
  <1>8. Lists'
    BY <1>6, <1>7 DEF Lists
  <1> QED
    BY <1>1, <1>6, <1>8 DEF Mem

\* push of a node that is in no list.
LEMMA PushNode ==
  ASSUME TypeOK, TypeOK', Lists, NEW q \in Workers, NEW n \in Nodes, NEW H, LP!Separate(Places, H, next),
         \A p \in Workers : H[Queue(p)] = first[p],
         \A l \in Places : (\A p \in Workers : l # Queue(p)) => Heads'[l] = H[l],
         \A m \in Places : n \notin LP!NodesOf(next, H[m]),
         Push(q, n)
  PROVE  /\ Lists'
         /\ Mem(Queue(q))' = LP!NodesOf(next, first[q]) \cup {n}
         /\ \A m \in Places : m # Queue(q) => Mem(m)' = LP!NodesOf(next, H[m])
         /\ \A k \in Nodes \ {n} : next[k] # Null => next'[k] = next[k]
  <1> DEFINE t == <<n>>
             mem == [next EXCEPT ![n] = Null]
  <1>1. t # <<>> /\ Len(t) = 1 /\ t[1] = n /\ t \in Seq(Nodes) /\ LP!Members(t) = {n}
    BY DEF LP!Members
  <1>2. /\ mem \in [Nodes -> Nodes \cup {Null}] /\ mem[n] = Null
        /\ \A k \in Nodes \ {n} : mem[k] = next[k]
    BY DEF TypeOK
  <1>3. PushList(q, t[1], t[Len(t)], mem)
    BY <1>1 DEF Push
  <1> HIDE DEF t, mem
  <1>4. LP!IsChain(mem, t)
    BY <1>1, <1>2 DEF LP!IsChain, LP!NoRepeats
  <1>5. \A m \in Places : LP!Members(t) \cap LP!NodesOf(next, H[m]) = {}
    BY <1>1
  <1>6. \A k \in Nodes \ LP!Members(t) : mem[k] = next[k]
    BY <1>1, <1>2
  <1>7. /\ Lists'
        /\ Mem(Queue(q))' = LP!NodesOf(next, first[q]) \cup LP!Members(t)
        /\ \A m \in Places : m # Queue(q) => Mem(m)' = LP!NodesOf(next, H[m])
        /\ \A k \in Nodes \ LP!Members(t) : next[k] # Null => next'[k] = next[k]
    BY <1>1, <1>2, <1>3, <1>4, <1>5, <1>6, AppendList
  <1> QED
    BY <1>1, <1>7

\* The same when nothing else moves.
LEMMA PushNewNode ==
  ASSUME TypeOK, TypeOK', Lists, NEW q \in Workers, NEW n \in Nodes, UNCHANGED <<top, mtop, ctop>>,
         \A m \in Places : n \notin Mem(m), Push(q, n)
  PROVE  /\ Lists'
         /\ Mem(Queue(q))' = Mem(Queue(q)) \cup {n}
         /\ \A m \in Places : m # Queue(q) => Mem(m)' = Mem(m)
         /\ \A k \in Nodes \ {n} : next[k] # Null => next'[k] = next[k]
  <1>1. LP!Separate(Places, Heads, next) /\ \A p \in Workers : Heads[Queue(p)] = first[p]
    BY HeadFacts DEF Lists
  <1>2. \A l \in Places : (\A p \in Workers : l # Queue(p)) => Heads'[l] = Heads[l]
    BY HeadFacts, PlaceFacts
  <1>3. \A m \in Places : n \notin LP!NodesOf(next, Heads[m])
    BY DEF Mem
  <1>4. /\ Lists'
        /\ Mem(Queue(q))' = LP!NodesOf(next, first[q]) \cup {n}
        /\ \A m \in Places : m # Queue(q) => Mem(m)' = LP!NodesOf(next, Heads[m])
        /\ \A k \in Nodes \ {n} : next[k] # Null => next'[k] = next[k]
    BY <1>1, <1>2, <1>3, PushNode
  <1> QED
    BY <1>1, <1>4 DEF Mem

\* push_list of two new nodes, chained.
LEMMA PushPair ==
  ASSUME TypeOK, TypeOK', Lists, NEW q \in Workers, NEW n \in Nodes, NEW k \in Nodes, n # k,
         UNCHANGED <<top, mtop, ctop>>, \A m \in Places : n \notin Mem(m) /\ k \notin Mem(m),
         PushList(q, n, k, Chained(next, <<n, k>>))
  PROVE  /\ Lists'
         /\ Mem(Queue(q))' = Mem(Queue(q)) \cup {n, k}
         /\ \A m \in Places : m # Queue(q) => Mem(m)' = Mem(m)
         /\ \A i \in Nodes \ {n, k} : next[i] # Null => next'[i] = next[i]
         /\ next'[n] = k
  <1> DEFINE t == <<n, k>>
             mem == LP!Chained(next, t)
             H == Heads
  <1>1. /\ t # <<>> /\ Len(t) = 2 /\ t[1] = n /\ t[2] = k /\ t \in Seq(Nodes)
        /\ LP!Members(t) = {n, k} /\ 1 .. 2 = {1, 2}
    BY DEF LP!Members
  <1>2. PushList(q, t[1], t[Len(t)], mem)
    BY <1>1, SameOperators
  <1> HIDE DEF t
  <1>3. LP!NoRepeats(t)
    BY <1>1 DEF LP!NoRepeats
  <1>4. mem \in [Nodes -> Nodes \cup {Null}]
    BY <1>1, SameOperators DEF TypeOK, LP!Chained
  <1> HIDE DEF mem
  <1>5. LP!IsChain(mem, t) /\ \A i \in Nodes \ LP!Members(t) : mem[i] = next[i]
    BY <1>1, <1>3, LP!ChainedIsChain, ListsApply DEF mem
  <1>6. LP!Separate(Places, H, next) /\ \A p \in Workers : H[Queue(p)] = first[p]
    BY HeadFacts DEF Lists
  <1>7. \A l \in Places : (\A p \in Workers : l # Queue(p)) => Heads'[l] = H[l]
    BY HeadFacts, PlaceFacts
  <1>8. \A m \in Places : LP!Members(t) \cap LP!NodesOf(next, H[m]) = {}
    BY <1>1 DEF Mem
  <1> HIDE DEF H
  <1>0. t # <<>>
    BY <1>1
  <1>9. /\ Lists'
        /\ Mem(Queue(q))' = LP!NodesOf(next, first[q]) \cup LP!Members(t)
        /\ \A m \in Places : m # Queue(q) => Mem(m)' = LP!NodesOf(next, H[m])
        /\ \A i \in Nodes \ LP!Members(t) : next[i] # Null => next'[i] = next[i]
        /\ \A i \in LP!Members(t) : next'[i] = mem[i]
    BY <1>0, <1>2, <1>4, <1>5, <1>6, <1>7, <1>8, AppendList, SMTT(30)
  <1>10. mem[n] = k
    BY <1>1, <1>5 DEF LP!IsChain
  <1> QED
    BY <1>1, <1>6, <1>9, <1>10 DEF Mem, H

\* A client chains new nodes into a list of its own.
LEMMA NewList ==
  ASSUME TypeOK, TypeOK', Lists, ctop = Null, NEW t \in Seq(Nodes), t # <<>>, NoRepeats(t),
         \A m \in Places : LP!Members(t) \cap Mem(m) = {},
         next' = Chained(next, t), ctop' = t[1], UNCHANGED <<first, last, top, mtop>>
  PROVE  /\ Lists'
         /\ Mem(ClientAt)' = LP!Members(t)
         /\ \A m \in Places : m # ClientAt => Mem(m)' = Mem(m)
         /\ \A i \in Nodes \ LP!Members(t) : next[i] # Null => next'[i] = next[i]
  <1> DEFINE Q == ClientAt  old == next  new == next'  H == Heads  G == Heads'
  <1>1. new \in [Nodes -> Nodes \cup {Null}] /\ old \in [Nodes -> Nodes \cup {Null}]
    BY DEF TypeOK
  <1>2. LP!IsChain(new, t) /\ \A i \in Nodes \ LP!Members(t) : new[i] = old[i]
    BY SameOperators, LP!ChainedIsChain, ListsApply
  <1>3. LP!Separate(Places, H, old) /\ G \in [Places -> Nodes \cup {Null}] /\ Q \in Places
    BY HeadsType, PlaceFacts DEF Lists
  <1>4. H[Q] = Null /\ G[Q] = t[1] /\ LP!PointerTo(t) = t[1]
    BY HeadFacts DEF LP!PointerTo
  <1>5. \A m \in Places : m # Q => G[m] = H[m]
    <2>1. G[Main] = H[Main] /\ \A q \in Workers : G[Queue(q)] = H[Queue(q)] /\ G[Batch(q)] = H[Batch(q)]
      BY HeadFacts
    <2> QED
      BY <2>1, PlaceFacts
  <1>6. \A m \in Places : LP!Members(t) \cap LP!NodesOf(old, H[m]) = {}
    BY DEF Mem
  <1>7. \A p \in Workers : Queue(p) # Q /\ Queue(p) \in Places /\ H[Queue(p)] = first[p] /\ G[Queue(p)] = first[p]
    BY PlaceFacts, HeadFacts
  <1>8. /\ \A p \in Workers : first'[p] = first[p] /\ last'[p] = last[p]
        /\ \A p \in Workers : first[p] # Null => last[p] = LP!LastOf(old, first[p])
    BY DEF Lists
  <1>9. LP!NodesOf(old, H[Q]) = {}
    BY <1>3, <1>4, LP!InList, ListsApply
  <1>10. G[Q] = IF H[Q] = Null THEN LP!PointerTo(t) ELSE H[Q]
    BY <1>4
  <1> HIDE DEF Q, old, new, H, G
  <1>11. /\ LP!Separate(Places, G, new)
         /\ LP!NodesOf(new, G[Q]) = LP!NodesOf(old, H[Q]) \cup LP!Members(t)
         /\ \A m \in Places : m # Q => /\ LP!NodesOf(new, G[m]) = LP!NodesOf(old, H[m])
                                       /\ LP!LastOf(new, G[m]) = LP!LastOf(old, H[m])
         /\ \A n \in Nodes \ LP!Members(t) : old[n] # Null => new[n] = old[n]
    BY <1>1, <1>2, <1>3, <1>4, <1>5, <1>6, <1>10, LP!SeparateAppend, ListsApply
  <1>12. Lists'
    BY <1>7, <1>8, <1>11 DEF Lists, G, new
  <1> QED
    BY <1>9, <1>11, <1>12 DEF Mem, Q, old, new, H, G
-----------------------------------------------------------------------------
LEMMA InitInv == Init => Inv
  <1> SUFFICES ASSUME Init PROVE Inv
    OBVIOUS
  <1>1. NumWorkers \in Nat /\ NumWorkers >= 1 /\ MaxJumps \in Nat /\ Workers = 1 .. NumWorkers
    BY PoolAssumption DEF Workers
  <1>2. TypeOK
    BY <1>1, CallersAreDistinct DEF Init, TypeOK
  <1>3. \A l \in Places : Heads[l] = Null
    <2>1. mtop = Null /\ ctop = Null /\ \A q \in Workers : first[q] = Null /\ top[q] = Null
      BY DEF Init
    <2> QED
      BY <2>1, PlaceFacts, HeadFacts
  <1>4. Heads \in [Places -> Nodes \cup {Null}]
    BY <1>2, HeadsType
  <1>5. LP!Separate(Places, Heads, next) /\ \A l \in Places : Mem(l) = {}
    <2> DEFINE K == [l \in Places |-> <<>>]
    <2>1. K \in [Places -> Seq(Nodes)] /\ \A l \in Places : K[l] = <<>>
      OBVIOUS
    <2>2. LP!Members(<<>>) = {} /\ LP!IsChain(next, <<>>) /\ LP!PointerTo(<<>>) = Null
      BY DEF LP!Members, LP!IsChain, LP!NoRepeats, LP!PointerTo
    <2> HIDE DEF K
    <2>3. \A l \in Places : LP!IsChain(next, K[l]) /\ Heads[l] = LP!PointerTo(K[l])
      BY <1>3, <2>1, <2>2
    <2>4. \A l, m \in Places : l # m => LP!Members(K[l]) \cap LP!Members(K[m]) = {}
      BY <2>1, <2>2
    <2>5. /\ LP!Separate(Places, Heads, next)
          /\ \A l \in Places : LP!NodesOf(next, Heads[l]) = LP!Members(K[l])
      BY <1>4, <2>1, <2>3, <2>4, LP!SeparateChains, ListsApply
    <2> QED
      BY <2>1, <2>2, <2>5 DEF Mem
  <1>6. Lists
    BY <1>5 DEF Lists, Init
  <1> HIDE DEF Mem
  <1>7. NodesOK /\ PairsOK
    <2>1. ClientAt \in Places
      BY PlaceFacts
    <2> QED
      BY <1>5, <2>1, NodeFacts DEF NodesOK, PairsOK, Init
  <1>8. WorkersOK
    BY CallersAreDistinct DEF WorkersOK, Executing, Init
  <1>9. ThreadsOK
    BY <1>1 DEF ThreadsOK, Joined, Init
  <1>10. OwnerOK
    BY <1>5, CallersAreDistinct DEF OwnerOK, PoolUsable, Early, Init
  <1> QED
    BY <1>2, <1>6, <1>7, <1>8, <1>9, <1>10 DEF Inv

LEMMA HeadsAreMembers ==
  ASSUME Lists
  PROVE  /\ IF mtop = Null THEN Mem(Main) = {} ELSE mtop \in Mem(Main)
         /\ IF ctop = Null THEN Mem(ClientAt) = {} ELSE ctop \in Mem(ClientAt)
         /\ \A w \in Workers : /\ IF first[w] = Null THEN Mem(Queue(w)) = {} ELSE first[w] \in Mem(Queue(w))
                               /\ IF top[w] = Null THEN Mem(Batch(w)) = {} ELSE top[w] \in Mem(Batch(w))
  BY InPlace, HeadFacts, PlaceFacts

(***************************************************************************)
(* Steps that move no pointer.  What is said of the nodes is kept when     *)
(* only the pill of the owner is born or dies.                             *)
(***************************************************************************)
LEMMA QuietNodes ==
  ASSUME Inv, UNCHANGED <<first, last, next, top, mtop, ctop, stopq>>,
         \A n \in Nodes : n # DtorPill => (n \in alive' <=> n \in alive),
         DtorPill \in alive' \/ \A l \in Places : DtorPill \notin Mem(l),
         \A c \in Coros : coro'[c] = "suspended" <=> coro[c] = "suspended",
         \A w \in Workers : wpc[w] = "cancel" => wpc'[w] = "cancel" \/ top[w] = Null
  PROVE  Lists' /\ NodesOK' /\ PairsOK' /\ \A l \in Places : Mem(l)' = Mem(l)
  <1>1. Lists /\ NodesOK /\ PairsOK
    BY DEF Inv
  <1>2. Lists' /\ \A l \in Places : Mem(l)' = Mem(l)
    BY <1>1, Unmoved
  <1>3. \A l \in Places : Mem(l) \subseteq Nodes
    BY <1>1, InPlace
  <1>4. /\ \A c \in Coros : CoroNode(c) \in Nodes /\ CoroNode(c) # DtorPill
        /\ \A s \in Stops, q \in Workers : /\ StopPill(s, q) \in Nodes /\ StopPill(s, q) # DtorPill
                                           /\ StopNode(s, q) \in Nodes /\ StopNode(s, q) # DtorPill
    BY NodeFacts DEF CoroNode, StopPill, StopNode, DtorPill
  <1>5. NodesOK'
    <2>1. \A l \in Places : Mem(l)' \subseteq alive'
      BY <1>1, <1>2, <1>3 DEF NodesOK
    <2>2. \A c \in Coros : CoroNode(c) \in alive' => \E l \in Places : CoroNode(c) \in Mem(l)'
      BY <1>1, <1>2, <1>4 DEF NodesOK
    <2>3. \A c \in Coros : CoroNode(c) \in alive' <=> coro'[c] = "suspended"
      BY <1>1, <1>4 DEF NodesOK
    <2>4. \A s \in Stops, q \in Workers :
            /\ StopNode(s, q) \in alive' => \E l \in Places : StopNode(s, q) \in Mem(l)'
            /\ StopPill(s, q) \in alive' <=> StopNode(s, q) \in alive'
            /\ StopNode(s, q) \in alive' => q < stopq'[s]
      BY <1>1, <1>2, <1>4 DEF NodesOK
    <2> HIDE DEF Mem
    <2> QED
      BY <2>1, <2>2, <2>3, <2>4 DEF NodesOK
  <1>6. \A w \in Workers : top[w] = Null => Mem(Batch(w)) = {}
    BY <1>1, InPlace, PlaceFacts, HeadFacts
  <1>7. PairsOK'
    <2>1. \A n \in Mem(ClientAt)' : n[1] = "coro"
      BY <1>1, <1>2, PlaceFacts DEF PairsOK
    <2>2. ASSUME NEW s \in Stops, NEW q \in Workers, NEW l \in Places,
                 StopNode(s, q) \in Mem(l)', l # Main, \A w \in Workers : l = Batch(w) => wpc'[w] # "cancel"
          PROVE  StopPill(s, q) \in Mem(l)'
      <3>1. Mem(l)' = Mem(l)
        BY <1>2
      <3>2. \A w \in Workers : l = Batch(w) => wpc[w] # "cancel"
        BY <1>6, <2>2, <3>1
      <3> QED
        BY <1>1, <2>2, <3>1, <3>2 DEF PairsOK
    <2>3. \A s \in Stops, q \in Workers, l \in Places :
            StopPill(s, q) \in Mem(l)' => next'[StopPill(s, q)] = StopNode(s, q)
      BY <1>1, <1>2 DEF PairsOK
    <2> QED
      BY <2>1, <2>2, <2>3 DEF PairsOK
  <1> QED
    BY <1>2, <1>5, <1>7

LEMMA ClientRequestStopInv ==
  ASSUME Inv, NEW s \in Stops, ClientRequestStop(s)
  PROVE  Inv'
  <1> USE DEF ClientRequestStop, RequestStopBegin, PoolUsable, queueVars, coroVars, workerVars, stopVars, mainVars, clientVars
  <1>1. TypeOK'
    BY PoolAssumption, CallersAreDistinct DEF Inv, TypeOK, ThreadsOK, Workers
  <1>2. Lists' /\ NodesOK' /\ PairsOK' /\ \A l \in Places : Mem(l)' = Mem(l)
    BY QuietNodes DEF Inv, TypeOK, WorkersOK, Executing, OwnerOK
  <1>3. WorkersOK'
    BY CallersAreDistinct DEF Inv, TypeOK, WorkersOK, Executing
  <1>4. ThreadsOK'
    BY PoolAssumption DEF Inv, TypeOK, ThreadsOK, Joined, Workers
  <1>5. OwnerOK'
    BY <1>2, PoolAssumption, CallersAreDistinct DEF Inv, TypeOK, OwnerOK, PoolUsable, Early
  <1> QED
    BY <1>1, <1>2, <1>3, <1>4, <1>5 DEF Inv

LEMMA RequestStopEndInv ==
  ASSUME Inv, NEW s \in Stops, RequestStopEnd(s)
  PROVE  Inv'
  <1> USE DEF RequestStopEnd, queueVars, coroVars, workerVars, stopVars, mainVars, clientVars
  <1>1. TypeOK'
    BY PoolAssumption, CallersAreDistinct DEF Inv, TypeOK, ThreadsOK, Workers
  <1>2. Lists' /\ NodesOK' /\ PairsOK' /\ \A l \in Places : Mem(l)' = Mem(l)
    BY QuietNodes DEF Inv, TypeOK, WorkersOK, Executing, OwnerOK
  <1>3. WorkersOK'
    BY CallersAreDistinct DEF Inv, TypeOK, WorkersOK, Executing
  <1>4. ThreadsOK'
    <2>1. mpc \notin Early
      BY DEF Inv, OwnerOK, Early
    <2>2. caller[s] \in Workers => wpc[caller[s]] = "stopping" /\ joinable[caller[s]]
      BY DEF Inv, WorkersOK, ThreadsOK
    <2> QED
      BY <2>1, <2>2 DEF Inv, TypeOK, ThreadsOK, Joined, Early
  <1>5. OwnerOK'
    BY <1>2, PoolAssumption, CallersAreDistinct DEF Inv, TypeOK, OwnerOK, PoolUsable, Early
  <1> QED
    BY <1>1, <1>2, <1>3, <1>4, <1>5 DEF Inv

LEMMA WorkerExitInv ==
  ASSUME Inv, NEW w \in Workers, WorkerExit(w)
  PROVE  Inv'
  <1> USE DEF WorkerExit, queueVars, coroVars, workerVars, stopVars, mainVars, clientVars
  <1>1. TypeOK'
    BY PoolAssumption, CallersAreDistinct DEF Inv, TypeOK, ThreadsOK, Workers
  <1>2. Lists' /\ NodesOK' /\ PairsOK' /\ \A l \in Places : Mem(l)' = Mem(l)
    BY QuietNodes DEF Inv, TypeOK, WorkersOK, Executing, OwnerOK
  <1>3. WorkersOK'
    BY CallersAreDistinct DEF Inv, TypeOK, WorkersOK, Executing
  <1>4. ThreadsOK'
    BY PoolAssumption DEF Inv, TypeOK, ThreadsOK, Joined, Workers
  <1>5. OwnerOK'
    BY <1>2, PoolAssumption, CallersAreDistinct DEF Inv, TypeOK, OwnerOK, PoolUsable, Early
  <1> QED
    BY <1>1, <1>2, <1>3, <1>4, <1>5 DEF Inv

LEMMA CoroFinishInv ==
  ASSUME Inv, NEW w \in Workers, CoroFinish(w)
  PROVE  Inv'
  <1> USE DEF CoroFinish, BackToLoop, queueVars, coroVars, workerVars, stopVars, mainVars, clientVars
  <1>1. TypeOK'
    BY PoolAssumption, CallersAreDistinct DEF Inv, TypeOK, ThreadsOK, Workers
  <1>2. Lists' /\ NodesOK' /\ PairsOK' /\ \A l \in Places : Mem(l)' = Mem(l)
    BY QuietNodes DEF Inv, TypeOK, WorkersOK, Executing, OwnerOK
  <1>3. WorkersOK'
    BY CallersAreDistinct DEF Inv, TypeOK, WorkersOK, Executing
  <1>4. ThreadsOK'
    BY PoolAssumption DEF Inv, TypeOK, ThreadsOK, Joined, Workers
  <1>5. OwnerOK'
    <2>1. mpc \notin Early
      BY DEF Inv, WorkersOK, Executing, OwnerOK
    <2> QED
      BY <1>2, <2>1 DEF Inv, OwnerOK, PoolUsable
  <1> QED
    BY <1>1, <1>2, <1>3, <1>4, <1>5 DEF Inv

LEMMA CoroRequestStopInv ==
  ASSUME Inv, NEW w \in Workers, NEW s \in Stops, CoroRequestStop(w, s)
  PROVE  Inv'
  <1> USE DEF CoroRequestStop, RequestStopBegin, queueVars, coroVars, workerVars, stopVars, mainVars, clientVars
  <1>1. TypeOK'
    BY PoolAssumption, CallersAreDistinct DEF Inv, TypeOK, ThreadsOK, Workers
  <1>2. Lists' /\ NodesOK' /\ PairsOK' /\ \A l \in Places : Mem(l)' = Mem(l)
    BY QuietNodes DEF Inv, TypeOK, WorkersOK, Executing, OwnerOK
  <1>3. WorkersOK'
    BY CallersAreDistinct DEF Inv, TypeOK, WorkersOK, Executing
  <1>4. ThreadsOK'
    BY PoolAssumption DEF Inv, TypeOK, ThreadsOK, Joined, Workers
  <1>5. OwnerOK'
    <2>1. mpc \notin Early
      BY DEF Inv, WorkersOK, Executing, OwnerOK
    <2> QED
      BY <1>2, <2>1, CallersAreDistinct DEF Inv, TypeOK, OwnerOK, PoolUsable
  <1> QED
    BY <1>1, <1>2, <1>3, <1>4, <1>5 DEF Inv

LEMMA SpawnInv ==
  ASSUME Inv, Spawn
  PROVE  Inv'
  <1> USE DEF Spawn, queueVars, coroVars, workerVars, stopVars, mainVars, clientVars
  <1>1. TypeOK'
    BY PoolAssumption, CallersAreDistinct DEF Inv, TypeOK, ThreadsOK, Workers
  <1>2. Lists' /\ NodesOK' /\ PairsOK' /\ \A l \in Places : Mem(l)' = Mem(l)
    <2>1. wpc[mi] \in {"unborn", "exited"} /\ mi \in Workers
      BY PoolAssumption DEF Inv, TypeOK, ThreadsOK, Workers
    <2> QED
      BY <2>1, QuietNodes DEF Inv, TypeOK, OwnerOK
  <1>3. WorkersOK'
    <2>1. wpc[mi] \in {"unborn", "exited"} /\ mi \in Workers
      BY PoolAssumption DEF Inv, TypeOK, ThreadsOK, Workers
    <2>2. \A s \in Stops : caller[s] = Nobody
      BY DEF Inv, OwnerOK, Early
    <2>3. /\ wpc'[mi] = "pop" /\ \A w \in Workers : w # mi => wpc'[w] = wpc[w]
      BY <2>1 DEF Inv, TypeOK
    <2>4. \A w \in Workers : Executing(w)' <=> Executing(w)
      BY <2>1, <2>3 DEF Executing
    <2>5. top[mi] = Null
      BY <2>1 DEF Inv, WorkersOK
    <2> QED
      BY <2>2, <2>3, <2>4, <2>5, CallersAreDistinct DEF Inv, WorkersOK
  <1>4. ThreadsOK'
    BY PoolAssumption DEF Inv, TypeOK, ThreadsOK, Joined, Workers
  <1>5. OwnerOK'
    BY <1>2, PoolAssumption, CallersAreDistinct DEF Inv, TypeOK, OwnerOK, PoolUsable, Early
  <1> QED
    BY <1>1, <1>2, <1>3, <1>4, <1>5 DEF Inv

LEMMA SpawnFailsInv ==
  ASSUME Inv, SpawnFails
  PROVE  Inv'
  <1> USE DEF SpawnFails, queueVars, coroVars, workerVars, stopVars, mainVars, clientVars
  <1>1. TypeOK'
    <2>1. DtorPill \in Nodes /\ 1 \in 1 .. NumWorkers + 1
      BY NodeFacts, PoolAssumption
    <2> QED
      BY <2>1 DEF Inv, TypeOK
  <1>2. Lists' /\ NodesOK' /\ PairsOK' /\ \A l \in Places : Mem(l)' = Mem(l)
    BY QuietNodes DEF Inv, TypeOK, WorkersOK, Executing, OwnerOK
  <1>3. WorkersOK'
    BY CallersAreDistinct DEF Inv, TypeOK, WorkersOK, Executing
  <1>4. ThreadsOK'
    <2>1. mi <= NumWorkers /\ mi \in Nat /\ NumWorkers \in Nat /\ NumWorkers >= 1 /\ Workers = 1 .. NumWorkers
      BY PoolAssumption DEF Inv, TypeOK, ThreadsOK, Workers
    <2>2. \A w \in Workers : (joinable[w] => w < mi) /\ (w < mi => wpc[w] = "pop" /\ joinable[w])
      BY <2>1 DEF Inv, ThreadsOK
    <2>3. ~ joinable[NumWorkers] /\ \A v, w \in Workers : v < w /\ joinable[w] => joinable[v]
      BY <2>1, <2>2
    <2> QED
      BY <2>1, <2>2, <2>3 DEF Inv, TypeOK, ThreadsOK, Joined
  <1>5. OwnerOK'
    BY <1>2, PoolAssumption, CallersAreDistinct DEF Inv, TypeOK, OwnerOK, PoolUsable, Early
  <1> QED
    BY <1>1, <1>2, <1>3, <1>4, <1>5 DEF Inv

LEMMA UndoJoinInv ==
  ASSUME Inv, UndoJoin
  PROVE  Inv'
  <1> USE DEF UndoJoin, queueVars, coroVars, workerVars, stopVars, mainVars, clientVars
  <1>1. TypeOK'
    BY PoolAssumption, CallersAreDistinct DEF Inv, TypeOK, ThreadsOK, Workers
  <1>2. Lists' /\ NodesOK' /\ PairsOK' /\ \A l \in Places : Mem(l)' = Mem(l)
    BY QuietNodes DEF Inv, TypeOK, WorkersOK, Executing, OwnerOK
  <1>3. WorkersOK'
    BY CallersAreDistinct DEF Inv, TypeOK, WorkersOK, Executing
  <1>4. ThreadsOK'
    BY PoolAssumption DEF Inv, TypeOK, ThreadsOK, Joined, Workers
  <1>5. OwnerOK'
    <2>0. mi \in Workers
      BY PoolAssumption DEF Inv, TypeOK, ThreadsOK, Workers
    <2>1. first[mi] = Null /\ top[mi] = Null
      BY <2>0 DEF Inv, ThreadsOK, WorkersOK
    <2>2. Mem(Queue(mi)) = {} /\ Mem(Batch(mi)) = {}
      BY <2>0, <2>1, HeadsAreMembers DEF Inv
    <2>3. \A l \in Places : DtorPill \notin Mem(l)
      BY <2>2 DEF Inv, OwnerOK
    <2> QED
      BY <1>2, <2>3 DEF Inv, OwnerOK, PoolUsable, Early
  <1> QED
    BY <1>1, <1>2, <1>3, <1>4, <1>5 DEF Inv

LEMMA UndoEndInv ==
  ASSUME Inv, UndoEnd
  PROVE  Inv'
  <1> USE DEF UndoEnd, queueVars, coroVars, workerVars, stopVars, mainVars, clientVars
  <1>1. TypeOK'
    BY PoolAssumption, CallersAreDistinct DEF Inv, TypeOK, ThreadsOK, Workers
  <1>2. Lists' /\ NodesOK' /\ PairsOK' /\ \A l \in Places : Mem(l)' = Mem(l)
    BY QuietNodes DEF Inv, TypeOK, WorkersOK, Executing, OwnerOK
  <1>3. WorkersOK'
    BY CallersAreDistinct DEF Inv, TypeOK, WorkersOK, Executing
  <1>4. ThreadsOK'
    BY PoolAssumption DEF Inv, TypeOK, ThreadsOK, Joined, Workers
  <1>5. OwnerOK'
    <2>1. alive \subseteq {DtorPill} /\ alive' = {}
      BY DEF Inv, OwnerOK, Early
    <2>2. \A l \in Places : Mem(l) = {}
      BY <2>1 DEF Inv, NodesOK, OwnerOK
    <2>3. \A w \in Workers : first[w] = Null
      BY <2>2, HeadsAreMembers, PlaceFacts DEF Inv
    <2> QED
      BY <1>2, <2>1, <2>2, <2>3 DEF Inv, OwnerOK, PoolUsable, Early
  <1> QED
    BY <1>1, <1>2, <1>3, <1>4, <1>5 DEF Inv

LEMMA WaitStopBeginInv ==
  ASSUME Inv, WaitStopBegin
  PROVE  Inv'
  <1> USE DEF WaitStopBegin, queueVars, coroVars, workerVars, stopVars, mainVars, clientVars
  <1>1. TypeOK'
    BY PoolAssumption, CallersAreDistinct DEF Inv, TypeOK, ThreadsOK, Workers
  <1>2. Lists' /\ NodesOK' /\ PairsOK' /\ \A l \in Places : Mem(l)' = Mem(l)
    BY QuietNodes DEF Inv, TypeOK, WorkersOK, Executing, OwnerOK
  <1>3. WorkersOK'
    BY CallersAreDistinct DEF Inv, TypeOK, WorkersOK, Executing
  <1>4. ThreadsOK'
    BY PoolAssumption DEF Inv, TypeOK, ThreadsOK, Joined, Workers
  <1>5. OwnerOK'
    BY <1>2, PoolAssumption, CallersAreDistinct DEF Inv, TypeOK, OwnerOK, PoolUsable, Early
  <1> QED
    BY <1>1, <1>2, <1>3, <1>4, <1>5 DEF Inv

LEMMA WaitStopJoinInv ==
  ASSUME Inv, WaitStopJoin
  PROVE  Inv'
  <1> USE DEF WaitStopJoin, queueVars, coroVars, workerVars, stopVars, mainVars, clientVars
  <1>1. TypeOK'
    BY PoolAssumption, CallersAreDistinct DEF Inv, TypeOK, ThreadsOK, Workers
  <1>2. Lists' /\ NodesOK' /\ PairsOK' /\ \A l \in Places : Mem(l)' = Mem(l)
    BY QuietNodes DEF Inv, TypeOK, WorkersOK, Executing, OwnerOK
  <1>3. WorkersOK'
    BY CallersAreDistinct DEF Inv, TypeOK, WorkersOK, Executing
  <1>4. ThreadsOK'
    BY PoolAssumption DEF Inv, TypeOK, ThreadsOK, Joined, Workers
  <1>5. OwnerOK'
    BY <1>2, PoolAssumption, CallersAreDistinct DEF Inv, TypeOK, OwnerOK, PoolUsable, Early
  <1> QED
    BY <1>1, <1>2, <1>3, <1>4, <1>5 DEF Inv

LEMMA WaitStopJoinedInv ==
  ASSUME Inv, WaitStopJoined
  PROVE  Inv'
  <1> USE DEF WaitStopJoined, queueVars, coroVars, workerVars, stopVars, mainVars, clientVars
  <1>1. TypeOK'
    BY PoolAssumption, CallersAreDistinct DEF Inv, TypeOK, ThreadsOK, Workers
  <1>2. Lists' /\ NodesOK' /\ PairsOK' /\ \A l \in Places : Mem(l)' = Mem(l)
    BY QuietNodes DEF Inv, TypeOK, WorkersOK, Executing, OwnerOK
  <1>3. WorkersOK'
    BY CallersAreDistinct DEF Inv, TypeOK, WorkersOK, Executing
  <1>4. ThreadsOK'
    BY PoolAssumption DEF Inv, TypeOK, ThreadsOK, Joined, Workers
  <1>5. OwnerOK'
    BY <1>2, PoolAssumption, CallersAreDistinct DEF Inv, TypeOK, OwnerOK, PoolUsable, Early
  <1> QED
    BY <1>1, <1>2, <1>3, <1>4, <1>5 DEF Inv

LEMMA CancelQueuesDoneInv ==
  ASSUME Inv, CancelQueuesDone
  PROVE  Inv'
  <1> USE DEF CancelQueuesDone, queueVars, coroVars, workerVars, stopVars, mainVars, clientVars
  <1>1. TypeOK'
    BY PoolAssumption, CallersAreDistinct DEF Inv, TypeOK, ThreadsOK, Workers
  <1>2. Lists' /\ NodesOK' /\ PairsOK' /\ \A l \in Places : Mem(l)' = Mem(l)
    BY QuietNodes DEF Inv, TypeOK, WorkersOK, Executing, OwnerOK
  <1>3. WorkersOK'
    BY CallersAreDistinct DEF Inv, TypeOK, WorkersOK, Executing
  <1>4. ThreadsOK'
    BY PoolAssumption DEF Inv, TypeOK, ThreadsOK, Joined, Workers
  <1>5. OwnerOK'
    <2>1. CASE mpc = "wait_cancel"
      BY <1>2, <2>1 DEF Inv, OwnerOK, PoolUsable, Early
    <2>2. CASE mpc = "dtor_cancel"
      <3>1. \A w \in Workers : first[w] = Null /\ top[w] = Null
        <4>1. \A w \in Workers : w < mi /\ w < NumWorkers + 1
          BY PoolAssumption DEF Inv, TypeOK, Workers
        <4>2. \A w \in Workers : wpc[w] \in {"unborn", "exited"}
          BY <2>2, <4>1 DEF Inv, ThreadsOK, Joined
        <4> QED
          BY <2>2, <4>1, <4>2 DEF Inv, OwnerOK, WorkersOK
      <3>2. ctop = Null /\ mtop = Null
        BY <2>2 DEF Inv, OwnerOK, PoolUsable
      <3>3. \A l \in Places : Mem(l) = {}
        BY <3>1, <3>2, HeadsAreMembers, PlaceFacts DEF Inv
      <3>4. alive \subseteq {DtorPill}
        <4>1. \A c \in Coros : CoroNode(c) \notin alive
          BY <3>3 DEF Inv, NodesOK
        <4>2. \A s \in Stops, q \in Workers : StopNode(s, q) \notin alive /\ StopPill(s, q) \notin alive
          BY <3>3 DEF Inv, NodesOK
        <4>3. alive \subseteq Nodes
          BY DEF Inv, TypeOK
        <4> QED
          BY <4>1, <4>2, <4>3, NodeFacts
      <3>5. alive' = {} /\ mpc' = "dead"
        BY <2>2, <3>4
      <3> QED
        BY <1>2, <2>2, <3>1, <3>3, <3>5 DEF Inv, OwnerOK, PoolUsable, Early
    <2> QED
      BY <2>1, <2>2
  <1> QED
    BY <1>1, <1>2, <1>3, <1>4, <1>5 DEF Inv

LEMMA DtorBeginInv ==
  ASSUME Inv, DtorBegin
  PROVE  Inv'
  <1> USE DEF DtorBegin, queueVars, coroVars, workerVars, stopVars, mainVars, clientVars
  <1>1. TypeOK'
    <2>1. DtorPill \in Nodes /\ 1 \in 1 .. NumWorkers + 1
      BY NodeFacts, PoolAssumption
    <2> QED
      BY <2>1 DEF Inv, TypeOK
  <1>2. Lists' /\ NodesOK' /\ PairsOK' /\ \A l \in Places : Mem(l)' = Mem(l)
    BY QuietNodes DEF Inv, TypeOK, WorkersOK, Executing, OwnerOK
  <1>3. WorkersOK'
    BY CallersAreDistinct DEF Inv, TypeOK, WorkersOK, Executing
  <1>4. ThreadsOK'
    BY PoolAssumption DEF Inv, TypeOK, ThreadsOK, Joined, Workers
  <1>5. OwnerOK'
    BY <1>2, PoolAssumption, CallersAreDistinct DEF Inv, TypeOK, OwnerOK, PoolUsable, Early
  <1> QED
    BY <1>1, <1>2, <1>3, <1>4, <1>5 DEF Inv

LEMMA DtorSkipInv ==
  ASSUME Inv, DtorSkip
  PROVE  Inv'
  <1> USE DEF DtorSkip, queueVars, coroVars, workerVars, stopVars, mainVars, clientVars
  <1>1. TypeOK'
    BY PoolAssumption, CallersAreDistinct DEF Inv, TypeOK, ThreadsOK, Workers
  <1>2. Lists' /\ NodesOK' /\ PairsOK' /\ \A l \in Places : Mem(l)' = Mem(l)
    BY QuietNodes DEF Inv, TypeOK, WorkersOK, Executing, OwnerOK
  <1>3. WorkersOK'
    BY CallersAreDistinct DEF Inv, TypeOK, WorkersOK, Executing
  <1>4. ThreadsOK'
    BY PoolAssumption DEF Inv, TypeOK, ThreadsOK, Joined, Workers
  <1>5. OwnerOK'
    BY <1>2, PoolAssumption, CallersAreDistinct DEF Inv, TypeOK, OwnerOK, PoolUsable, Early
  <1> QED
    BY <1>1, <1>2, <1>3, <1>4, <1>5 DEF Inv

LEMMA DtorDrainedInv ==
  ASSUME Inv, DtorDrained
  PROVE  Inv'
  <1> USE DEF DtorDrained, queueVars, coroVars, workerVars, stopVars, mainVars, clientVars
  <1>1. TypeOK'
    BY PoolAssumption, CallersAreDistinct DEF Inv, TypeOK, ThreadsOK, Workers
  <1>2. Lists' /\ NodesOK' /\ PairsOK' /\ \A l \in Places : Mem(l)' = Mem(l)
    BY QuietNodes DEF Inv, TypeOK, WorkersOK, Executing, OwnerOK
  <1>3. WorkersOK'
    BY CallersAreDistinct DEF Inv, TypeOK, WorkersOK, Executing
  <1>4. ThreadsOK'
    BY PoolAssumption DEF Inv, TypeOK, ThreadsOK, Joined, Workers
  <1>5. OwnerOK'
    <2>1. Mem(Main) = {}
      BY HeadsAreMembers DEF Inv
    <2>2. \A l \in Places : DtorPill \notin Mem(l)
      BY <2>1 DEF Inv, OwnerOK
    <2> QED
      BY <1>2, <2>2 DEF Inv, OwnerOK, PoolUsable, Early
  <1> QED
    BY <1>1, <1>2, <1>3, <1>4, <1>5 DEF Inv

LEMMA DtorCancelAllInv ==
  ASSUME Inv, DtorCancelAll
  PROVE  Inv'
  <1> USE DEF DtorCancelAll, queueVars, coroVars, workerVars, stopVars, mainVars, clientVars
  <1>1. TypeOK'
    BY PoolAssumption, CallersAreDistinct DEF Inv, TypeOK, ThreadsOK, Workers
  <1>2. Lists' /\ NodesOK' /\ PairsOK' /\ \A l \in Places : Mem(l)' = Mem(l)
    BY QuietNodes DEF Inv, TypeOK, WorkersOK, Executing, OwnerOK
  <1>3. WorkersOK'
    BY CallersAreDistinct DEF Inv, TypeOK, WorkersOK, Executing
  <1>4. ThreadsOK'
    BY PoolAssumption DEF Inv, TypeOK, ThreadsOK, Joined, Workers
  <1>5. OwnerOK'
    <2>1. \A w \in Workers : ~ (w < 1)
      BY PoolAssumption DEF Workers
    <2> QED
      BY <1>2, <2>1 DEF Inv, OwnerOK, PoolUsable, Early
  <1> QED
    BY <1>1, <1>2, <1>3, <1>4, <1>5 DEF Inv
-----------------------------------------------------------------------------
(***************************************************************************)
(* Steps along a list.                                                     *)
(***************************************************************************)
LEMMA NodesDiffer ==
  /\ \A c \in Coros : /\ CoroNode(c) # DtorPill
                      /\ \A s \in Stops, q \in Workers : CoroNode(c) # StopPill(s, q) /\ CoroNode(c) # StopNode(s, q)
  /\ \A s \in Stops, q \in Workers : StopPill(s, q) # DtorPill /\ StopNode(s, q) # DtorPill
  /\ \A c, d \in Coros : CoroNode(c) = CoroNode(d) => c = d
  /\ \A s, r \in Stops, q, p \in Workers :
       /\ StopPill(s, q) = StopPill(r, p) => s = r /\ q = p
       /\ StopNode(s, q) = StopNode(r, p) => s = r /\ q = p
       /\ StopPill(s, q) # StopNode(r, p)
  BY DEF CoroNode, StopPill, StopNode, DtorPill

\* The first node of a batch that a worker has not cancelled yet.
LEMMA BatchHead ==
  ASSUME Inv, NEW w \in Workers, wpc[w] = "batch"
  PROVE  /\ top[w] \in Nodes /\ top[w] \in Mem(Batch(w)) /\ top[w] \in alive
         /\ top[w][1] # "stop"
         /\ ~IsPill(top[w]) => \E c \in Coros : top[w] = CoroNode(c)
  <1>1. top[w] # Null
    BY DEF Inv, TypeOK
  <1>2. Batch(w) \in Places /\ Heads[Batch(w)] = top[w] /\ Batch(w) # Main
        /\ \A v \in Workers : Batch(w) = Batch(v) => wpc[v] # "cancel"
    BY PlaceFacts, HeadFacts
  <1>3. top[w] \in Mem(Batch(w)) /\ Mem(Batch(w)) \subseteq Nodes /\ Mem(Batch(w)) \subseteq alive
    BY <1>1, <1>2, InPlace DEF Inv, NodesOK
  <1>4. ASSUME NEW s \in Stops, NEW q \in Workers, top[w] = StopNode(s, q) PROVE FALSE
    <2>1. StopPill(s, q) \in Mem(Batch(w)) /\ next[StopPill(s, q)] = top[w]
      BY <1>2, <1>3, <1>4 DEF Inv, PairsOK
    <2> QED
      BY <1>2, <2>1, InPlace DEF Inv
  <1>5. top[w][1] # "stop"
    BY <1>3, <1>4, NodeFacts
  <1>6. ~IsPill(top[w]) => \E c \in Coros : top[w] = CoroNode(c)
    BY <1>3, <1>4, NodeFacts DEF IsPill
  <1> QED
    BY <1>3, <1>5, <1>6

\* Where the owner can be when a worker has a batch.
LEMMA BatchThreads ==
  ASSUME Inv, NEW w \in Workers, wpc[w] \in {"batch", "cancel"}
  PROVE  /\ joinable[w] /\ mpc # "ctor" /\ mpc # "undo"
         /\ mpc = "undo_join" => w = mi /\ first[mi] = Null
  BY DEF Inv, ThreadsOK

\* A worker steps to the next node of its batch.
LEMMA BatchStep ==
  ASSUME Inv, TypeOK', NEW w \in Workers, top[w] # Null, top' = [top EXCEPT ![w] = next[top[w]]],
         UNCHANGED <<first, last, next, mtop, ctop>>
  PROVE  /\ Lists' /\ Mem(Batch(w))' = Mem(Batch(w)) \ {top[w]}
         /\ \A m \in Places : m # Batch(w) => Mem(m)' = Mem(m)
  <1>1. top'[w] = next[top[w]] /\ \A v \in Workers : v # w => top'[v] = top[v]
    BY DEF Inv, TypeOK
  <1>2. Heads'[Main] = Heads[Main] /\ Heads'[ClientAt] = Heads[ClientAt]
    BY HeadFacts
  <1>3. \A q \in Workers : Heads'[Queue(q)] = Heads[Queue(q)] /\ (q # w => Heads'[Batch(q)] = Heads[Batch(q)])
    BY <1>1, HeadFacts
  <1>4. Batch(w) \in Places /\ Heads[Batch(w)] = top[w] /\ Heads'[Batch(w)] = next[top[w]]
        /\ \A m \in Places : m # Batch(w) => Heads'[m] = Heads[m]
    BY <1>1, <1>2, <1>3, HeadFacts, PlaceFacts
  <1> QED
    BY <1>4, StepHead DEF Inv

LEMMA WorkerSwallowPillInv ==
  ASSUME Inv, NEW w \in Workers, WorkerSwallowPill(w)
  PROVE  Inv'
  <1> DEFINE n == top[w]
  <1>1. /\ wpc[w] = "batch" /\ IsPill(n) /\ top' = [top EXCEPT ![w] = next[n]]
        /\ wpc' = [wpc EXCEPT ![w] = "cancel"]
        /\ UNCHANGED <<first, last, next, alive, cur, coro, cancelled, jumps, caller, stopq,
                       mpc, mi, mtop, joinable, ctop, chash>>
    BY DEF WorkerSwallowPill, queueVars, coroVars, stopVars, mainVars, clientVars
  <1>2. n \in Nodes /\ n \in Mem(Batch(w)) /\ n # Null
    BY <1>1, BatchHead DEF Inv, TypeOK
  <1>3. TypeOK'
    BY <1>1, <1>2 DEF Inv, TypeOK
  <1>4. /\ top'[w] = next[n] /\ \A v \in Workers : v # w => top'[v] = top[v]
        /\ wpc'[w] = "cancel" /\ \A v \in Workers : v # w => wpc'[v] = wpc[v]
    BY <1>1 DEF Inv, TypeOK
  <1>6. /\ Lists' /\ Mem(Batch(w))' = Mem(Batch(w)) \ {n}
        /\ \A m \in Places : m # Batch(w) => Mem(m)' = Mem(m)
    BY <1>1, <1>2, <1>3, BatchStep
  <1> HIDE DEF n
  <1>7. \A l \in Places : Mem(l)' \subseteq Mem(l) /\ \A k \in Mem(l) : k # n => k \in Mem(l)'
    BY <1>6
  <1>8. \A c \in Coros : CoroNode(c) # n
    BY <1>1, NodeFacts DEF IsPill
  <1>9. \A s \in Stops, q \in Workers : StopNode(s, q) # n
    BY <1>1, NodeFacts DEF IsPill
  <1>10. NodesOK'
    <2>1. \A l \in Places : Mem(l)' \subseteq alive'
      BY <1>1, <1>7 DEF Inv, NodesOK
    <2>2. \A c \in Coros : CoroNode(c) \in alive' => \E l \in Places : CoroNode(c) \in Mem(l)'
      BY <1>1, <1>7, <1>8 DEF Inv, NodesOK
    <2>3. \A s \in Stops, q \in Workers : StopNode(s, q) \in alive' => \E l \in Places : StopNode(s, q) \in Mem(l)'
      BY <1>1, <1>7, <1>9 DEF Inv, NodesOK
    <2> QED
      BY <1>1, <2>1, <2>2, <2>3 DEF Inv, NodesOK
  <1>11. PairsOK'
    <2>1. \A k \in Mem(ClientAt)' : k[1] = "coro"
      BY <1>7, PlaceFacts DEF Inv, PairsOK
    <2>2. \A s \in Stops, q \in Workers, l \in Places :
            StopPill(s, q) \in Mem(l)' => next'[StopPill(s, q)] = StopNode(s, q)
      BY <1>1, <1>7 DEF Inv, PairsOK
    <2>3. ASSUME NEW s \in Stops, NEW q \in Workers, NEW l \in Places,
                 StopNode(s, q) \in Mem(l)', l # Main, \A v \in Workers : l = Batch(v) => wpc'[v] # "cancel"
          PROVE  StopPill(s, q) \in Mem(l)'
      <3>1. l # Batch(w) /\ \A v \in Workers : l = Batch(v) => wpc[v] # "cancel"
        BY <1>4, <2>3
      <3> QED
        BY <1>6, <2>3, <3>1 DEF Inv, PairsOK
    <2> QED
      BY <2>1, <2>2, <2>3 DEF PairsOK
  <1>12. WorkersOK'
    <2>1. \A v \in Workers : Executing(v)' <=> Executing(v)
      BY <1>1, <1>4 DEF Executing
    <2> QED
      BY <1>1, <1>4, <2>1 DEF Inv, WorkersOK
  <1>13. ThreadsOK'
    BY <1>1, <1>4, BatchThreads DEF Inv, ThreadsOK, Joined
  <1>14. OwnerOK'
    BY <1>1, <1>7 DEF Inv, OwnerOK, PoolUsable, Early
  <1> QED
    BY <1>3, <1>6, <1>10, <1>11, <1>12, <1>13, <1>14 DEF Inv

LEMMA WorkerResumeInv ==
  ASSUME Inv, NEW w \in Workers, WorkerResume(w)
  PROVE  Inv'
  <1>1. wpc[w] = "batch" /\ ~IsPill(top[w])
    BY DEF WorkerResume
  <1>2. PICK c \in Coros : top[w] = CoroNode(c)
    BY <1>1, BatchHead
  <1> DEFINE n == CoroNode(c)
  <1>3. n \in Nodes /\ n # Null /\ n \in Mem(Batch(w)) /\ n \in alive /\ n[1] = "coro" /\ n[2] = c /\ Batch(w) \in Places
    BY <1>1, <1>2, BatchHead, NodeFacts, PlaceFacts, NullIsNowhere
  <1> HIDE DEF n
  <1>4. /\ top' = [top EXCEPT ![w] = next[top[w]]] /\ coro' = [coro EXCEPT ![c] = "running"]
        /\ cur' = [cur EXCEPT ![w] = c] /\ wpc' = [wpc EXCEPT ![w] = "run"] /\ alive' = alive \ {n}
        /\ UNCHANGED <<first, last, next, cancelled, jumps, caller, stopq,
                       mpc, mi, mtop, joinable, ctop, chash>>
    BY <1>2, <1>3 DEF WorkerResume, stopVars, mainVars, clientVars, n
  <1>5. TypeOK'
    BY <1>2, <1>3, <1>4 DEF Inv, TypeOK, n
  <1>6. /\ Lists' /\ Mem(Batch(w))' = Mem(Batch(w)) \ {n}
        /\ \A m \in Places : m # Batch(w) => Mem(m)' = Mem(m)
    BY <1>2, <1>3, <1>4, <1>5, BatchStep DEF n
  <1>7. /\ wpc'[w] = "run" /\ \A v \in Workers : v # w => wpc'[v] = wpc[v]
        /\ cur'[w] = c /\ \A v \in Workers : v # w => cur'[v] = cur[v]
        /\ coro'[c] = "running" /\ \A d \in Coros : d # c => coro'[d] = coro[d]
        /\ \A v \in Workers : v # w => top'[v] = top[v]
    BY <1>4 DEF Inv, TypeOK
  <1>8. coro[c] = "suspended" /\ mpc \notin Early
    BY <1>3, NodesDiffer DEF Inv, NodesOK, OwnerOK, n
  <1>9. \A l \in Places : n \notin Mem(l)' /\ Mem(l)' \subseteq Mem(l) /\ \A k \in Mem(l) : k # n => k \in Mem(l)'
    <2>1. \A l \in Places : l # Batch(w) => n \notin Mem(l)
      BY <1>3, InPlace DEF Inv
    <2> QED
      BY <1>6, <2>1
  <1>10. \A d \in Coros : d # c => CoroNode(d) # n
    BY NodesDiffer DEF n
  <1>11. \A s \in Stops, q \in Workers : StopPill(s, q) # n /\ StopNode(s, q) # n
    BY NodesDiffer DEF n
  <1>12. NodesOK'
    <2>1. \A l \in Places : Mem(l)' \subseteq alive'
      BY <1>4, <1>9 DEF Inv, NodesOK
    <2>2. \A d \in Coros : CoroNode(d) \in alive' => \E l \in Places : CoroNode(d) \in Mem(l)'
      BY <1>4, <1>9 DEF Inv, NodesOK
    <2>3. \A d \in Coros : CoroNode(d) \in alive' <=> coro'[d] = "suspended"
      BY <1>4, <1>7, <1>10 DEF Inv, NodesOK, n
    <2>4. \A s \in Stops, q \in Workers :
            /\ StopNode(s, q) \in alive' => \E l \in Places : StopNode(s, q) \in Mem(l)'
            /\ StopPill(s, q) \in alive' <=> StopNode(s, q) \in alive'
            /\ StopNode(s, q) \in alive' => q < stopq'[s]
      BY <1>4, <1>9, <1>11 DEF Inv, NodesOK
    <2> QED
      BY <2>1, <2>2, <2>3, <2>4 DEF NodesOK
  <1>13. PairsOK'
    <2>1. \A k \in Mem(ClientAt)' : k[1] = "coro"
      BY <1>9, PlaceFacts DEF Inv, PairsOK
    <2>2. \A s \in Stops, q \in Workers, l \in Places :
            StopPill(s, q) \in Mem(l)' => next'[StopPill(s, q)] = StopNode(s, q)
      BY <1>4, <1>9 DEF Inv, PairsOK
    <2>3. ASSUME NEW s \in Stops, NEW q \in Workers, NEW l \in Places,
                 StopNode(s, q) \in Mem(l)', l # Main, \A v \in Workers : l = Batch(v) => wpc'[v] # "cancel"
          PROVE  StopPill(s, q) \in Mem(l)'
      <3>1. \A v \in Workers : l = Batch(v) => wpc[v] # "cancel"
        BY <1>1, <1>7, <2>3
      <3> QED
        BY <1>9, <1>11, <2>3, <3>1 DEF Inv, PairsOK
    <2> QED
      BY <2>1, <2>2, <2>3 DEF PairsOK
  <1>14. WorkersOK'
    <2>1. Executing(w)' /\ ~Executing(w) /\ \A v \in Workers : v # w => (Executing(v)' <=> Executing(v))
      BY <1>1, <1>7 DEF Executing
    <2>2. \A v \in Workers : Executing(v) => cur[v] # c
      BY <1>8 DEF Inv, WorkersOK
    <2> QED
      BY <1>1, <1>4, <1>7, <1>8, <2>1, <2>2 DEF Inv, WorkersOK
  <1>15. ThreadsOK'
    BY <1>1, <1>4, <1>7, <1>8, BatchThreads DEF Inv, ThreadsOK, Joined, Early
  <1>16. OwnerOK'
    <2>1. DtorPill \in alive' <=> DtorPill \in alive
      BY <1>4, NodesDiffer DEF n
    <2>2. mpc # "dead"
      BY <1>3 DEF Inv, OwnerOK
    <2> QED
      BY <1>4, <1>8, <1>9, <2>1, <2>2 DEF Inv, OwnerOK, PoolUsable
  <1> QED
    BY <1>5, <1>6, <1>12, <1>13, <1>14, <1>15, <1>16 DEF Inv

(***************************************************************************)
(* One round of cancel_tasks on the list at place l, by a worker that      *)
(* leaves or by the owner.                                                 *)
(***************************************************************************)
LEMMA CancelRound ==
  ASSUME Inv, TypeOK', NEW l \in Places, Heads[l] # Null, CancelNode(Heads[l]), Lists',
         l = Main \/ \E w \in Workers : l = Batch(w) /\ wpc[w] = "cancel",
         Mem(l)' = Mem(l) \ {Heads[l]}, \A m \in Places : m # l => Mem(m)' = Mem(m),
         UNCHANGED <<next, wpc, cur, caller, stopq>>,
         \A w \in Workers : top'[w] # Null => top[w] # Null
  PROVE  /\ NodesOK' /\ PairsOK' /\ WorkersOK'
         /\ \A m \in Places : Mem(m)' \subseteq Mem(m)
         /\ alive' \subseteq alive /\ (DtorPill \in alive' <=> DtorPill \in alive)
         /\ mpc \in Early => UNCHANGED <<alive, coro>>
  <1> DEFINE n == Heads[l]
  <1>1. n \in Mem(l) /\ n \in Nodes /\ n \in alive
    BY InPlace DEF Inv, NodesOK
  <1>2. /\ n[1] = "coro" => alive' = alive \ {n} /\ coro' = [coro EXCEPT ![n[2]] = "done"]
        /\ n[1] = "stop" => alive' = alive \ {n, StopPill(n[2], n[3])} /\ coro' = coro
        /\ n[1] \in {"pill", "dtor"} => alive' = alive /\ coro' = coro
    BY DEF CancelNode
  <1>3. \A m \in Places : n \notin Mem(m)' /\ Mem(m)' \subseteq Mem(m) /\ \A k \in Mem(m) : k # n => k \in Mem(m)'
    <2>1. \A m \in Places : m # l => n \notin Mem(m)
      BY <1>1, InPlace DEF Inv
    <2> QED
      BY <2>1
  <1>4. ASSUME NEW s \in Stops, NEW q \in Workers, n = StopNode(s, q), NEW m \in Places
        PROVE  StopPill(s, q) \notin Mem(m)
    <2> SUFFICES ASSUME StopPill(s, q) \in Mem(m) PROVE FALSE
      OBVIOUS
    <2>1. next[StopPill(s, q)] = n
      BY <1>4 DEF Inv, PairsOK
    <2>2. n \in Mem(m) /\ next[StopPill(s, q)] # Heads[m]
      BY <1>1, <2>1, InPlace, NullIsNowhere DEF Inv
    <2>3. m = l
      BY <1>1, <2>2, InPlace DEF Inv
    <2> QED
      BY <2>1, <2>2, <2>3
  <1> HIDE DEF n
  <1>5. /\ \A d \in Coros : CoroNode(d) \in alive' <=> CoroNode(d) \in alive /\ CoroNode(d) # n
        /\ \A s \in Stops, q \in Workers :
             /\ StopNode(s, q) \in alive' <=> StopNode(s, q) \in alive /\ StopNode(s, q) # n
             /\ StopPill(s, q) \in alive' <=> StopPill(s, q) \in alive /\ StopNode(s, q) # n
        /\ DtorPill \in alive' <=> DtorPill \in alive
        /\ \A d \in Coros : coro'[d] = IF CoroNode(d) = n THEN "done" ELSE coro[d]
        /\ alive' \subseteq alive
    <2>1. CASE \E c \in Coros : n = CoroNode(c)
      <3>1. PICK c \in Coros : n = CoroNode(c)
        BY <2>1
      <3>2. n[1] = "coro" /\ n[2] = c
        BY <3>1, NodeFacts
      <3>3. alive' = alive \ {CoroNode(c)} /\ \A d \in Coros : coro'[d] = IF d = c THEN "done" ELSE coro[d]
        BY <1>2, <3>1, <3>2 DEF Inv, TypeOK
      <3> QED
        BY <3>1, <3>3, NodesDiffer
    <2>2. CASE \E s \in Stops, q \in Workers : n = StopNode(s, q)
      <3>1. PICK s \in Stops, q \in Workers : n = StopNode(s, q)
        BY <2>2
      <3>2. n[1] = "stop" /\ n[2] = s /\ n[3] = q
        BY <3>1, NodeFacts
      <3>3. alive' = alive \ {StopNode(s, q), StopPill(s, q)} /\ coro' = coro
        BY <1>2, <3>1, <3>2
      <3> QED
        BY <3>1, <3>3, NodesDiffer
    <2>3. CASE n[1] \in {"pill", "dtor"}
      <3>1. alive' = alive /\ coro' = coro
        BY <1>2, <2>3
      <3>2. /\ \A d \in Coros : CoroNode(d) # n
            /\ \A s \in Stops, q \in Workers : StopNode(s, q) # n
        BY <2>3, NodeFacts
      <3> QED
        BY <3>1, <3>2
    <2> QED
      BY <1>1, <2>1, <2>2, <2>3, NodeFacts
  <1>6. \A m \in Places : Mem(m)' \subseteq alive'
    <2> SUFFICES ASSUME NEW m \in Places, NEW k \in Mem(m)' PROVE k \in alive'
      OBVIOUS
    <2>1. k \in Mem(m) /\ k # n /\ k \in alive /\ k \in Nodes
      BY <1>3, InPlace DEF Inv, NodesOK
    <2>2. \A s \in Stops, q \in Workers : k = StopPill(s, q) => StopNode(s, q) # n
      BY <1>4, <2>1
    <2> QED
      BY <1>5, <2>1, <2>2, NodeFacts
  <1>7. NodesOK'
    <2>1. \A d \in Coros : CoroNode(d) \in alive' => \E m \in Places : CoroNode(d) \in Mem(m)'
      BY <1>3, <1>5 DEF Inv, NodesOK
    <2>2. \A d \in Coros : CoroNode(d) \in alive' <=> coro'[d] = "suspended"
      BY <1>5 DEF Inv, NodesOK
    <2>3. \A s \in Stops, q \in Workers :
            /\ StopNode(s, q) \in alive' => \E m \in Places : StopNode(s, q) \in Mem(m)'
            /\ StopPill(s, q) \in alive' <=> StopNode(s, q) \in alive'
            /\ StopNode(s, q) \in alive' => q < stopq'[s]
      BY <1>3, <1>5 DEF Inv, NodesOK
    <2> QED
      BY <1>6, <2>1, <2>2, <2>3 DEF NodesOK
  <1>8. PairsOK'
    <2>1. \A k \in Mem(ClientAt)' : k[1] = "coro"
      BY <1>3, PlaceFacts DEF Inv, PairsOK
    <2>2. \A s \in Stops, q \in Workers, m \in Places :
            StopPill(s, q) \in Mem(m)' => next'[StopPill(s, q)] = StopNode(s, q)
      BY <1>3 DEF Inv, PairsOK
    <2>3. ASSUME NEW s \in Stops, NEW q \in Workers, NEW m \in Places,
                 StopNode(s, q) \in Mem(m)', m # Main, \A v \in Workers : m = Batch(v) => wpc'[v] # "cancel"
          PROVE  StopPill(s, q) \in Mem(m)'
      <3>1. m # l
        BY <2>3
      <3> QED
        BY <2>3, <3>1 DEF Inv, PairsOK
    <2> QED
      BY <2>1, <2>2, <2>3 DEF PairsOK
  <1>9. WorkersOK'
    <2>1. \A v \in Workers : Executing(v)' <=> Executing(v)
      BY DEF Executing
    <2>2. \A d \in Coros : coro'[d] = "running" <=> coro[d] = "running"
      BY <1>1, <1>5 DEF Inv, NodesOK
    <2> QED
      BY <2>1, <2>2 DEF Inv, WorkersOK
  <1>10. mpc \in Early => UNCHANGED <<alive, coro>>
    <2> SUFFICES ASSUME mpc \in Early PROVE UNCHANGED <<alive, coro>>
      OBVIOUS
    <2>1. n = DtorPill
      BY <1>1 DEF Inv, OwnerOK
    <2> QED
      BY <1>2, <2>1, NodeFacts
  <1> QED
    BY <1>3, <1>5, <1>7, <1>8, <1>9, <1>10

LEMMA CancelType ==
  ASSUME TypeOK, NEW n \in Nodes, CancelNode(n)
  PROVE  /\ alive' \in SUBSET Nodes /\ cancelled' \in SUBSET Coros
         /\ coro' \in [Coros -> {"new", "suspended", "running", "done"}]
  <1>1. n[1] = "coro" => n[2] \in Coros
    BY NodeFacts
  <1> QED
    BY <1>1 DEF TypeOK, CancelNode

LEMMA WorkerCancelInv ==
  ASSUME Inv, NEW w \in Workers, WorkerCancel(w)
  PROVE  Inv'
  <1>1. /\ wpc[w] = "cancel" /\ top[w] # Null /\ top' = [top EXCEPT ![w] = next[top[w]]] /\ CancelNode(top[w])
        /\ UNCHANGED <<first, last, next, jumps, wpc, cur, caller, stopq, mpc, mi, mtop, joinable, ctop, chash>>
    BY DEF WorkerCancel, stopVars, mainVars, clientVars
  <1>2. Batch(w) \in Places /\ Heads[Batch(w)] = top[w] /\ top[w] \in Nodes
    <2>1. top[w] \in Nodes
      BY <1>1 DEF Inv, TypeOK
    <2> QED
      BY <2>1, PlaceFacts, HeadFacts
  <1>3. TypeOK'
    BY <1>1, <1>2, CancelType DEF Inv, TypeOK
  <1>4. /\ Lists' /\ Mem(Batch(w))' = Mem(Batch(w)) \ {top[w]}
        /\ \A m \in Places : m # Batch(w) => Mem(m)' = Mem(m)
    BY <1>1, <1>3, BatchStep
  <1>5. \A v \in Workers : top'[v] # Null => top[v] # Null
    BY <1>1 DEF Inv, TypeOK
  <1>6. /\ NodesOK' /\ PairsOK' /\ WorkersOK'
        /\ \A m \in Places : Mem(m)' \subseteq Mem(m)
        /\ alive' \subseteq alive /\ (DtorPill \in alive' <=> DtorPill \in alive)
        /\ mpc \in Early => UNCHANGED <<alive, coro>>
    <2> DEFINE l == Batch(w)
    <2>1. l \in Places /\ Heads[l] # Null /\ CancelNode(Heads[l]) /\ Mem(l)' = Mem(l) \ {Heads[l]}
          /\ \A m \in Places : m # l => Mem(m)' = Mem(m)
      BY <1>1, <1>2, <1>4
    <2>2. \E v \in Workers : l = Batch(v) /\ wpc[v] = "cancel"
      BY <1>1
    <2> HIDE DEF l
    <2> QED
      BY <1>1, <1>3, <1>4, <1>5, <2>1, <2>2, CancelRound
  <1>7. ThreadsOK'
    BY <1>1 DEF Inv, ThreadsOK, Joined
  <1>8. OwnerOK'
    BY <1>1, <1>6 DEF Inv, OwnerOK, PoolUsable
  <1> QED
    BY <1>3, <1>4, <1>6, <1>7, <1>8 DEF Inv

LEMMA MainCancelInv ==
  ASSUME Inv, MainCancel
  PROVE  Inv'
  <1>1. /\ mtop # Null /\ mtop' = next[mtop] /\ CancelNode(mtop)
        /\ UNCHANGED <<first, last, next, jumps, wpc, top, cur, caller, stopq, mpc, mi, joinable, ctop, chash>>
    BY DEF MainCancel, workerVars, stopVars, clientVars
  <1>2. Main \in Places /\ Heads[Main] = mtop /\ Heads'[Main] = next[mtop] /\ mtop \in Nodes
    BY <1>1, PlaceFacts, HeadFacts DEF Inv, TypeOK
  <1>3. TypeOK'
    BY <1>1, <1>2, CancelType DEF Inv, TypeOK
  <1>4. \A m \in Places : m # Main => Heads'[m] = Heads[m]
    <2>1. /\ Heads'[ClientAt] = Heads[ClientAt]
          /\ \A q \in Workers : Heads'[Queue(q)] = Heads[Queue(q)] /\ Heads'[Batch(q)] = Heads[Batch(q)]
      BY <1>1, HeadFacts
    <2> QED
      BY <2>1, PlaceFacts
  <1>5. /\ Lists' /\ Mem(Main)' = Mem(Main) \ {mtop}
        /\ \A m \in Places : m # Main => Mem(m)' = Mem(m)
    BY <1>1, <1>2, <1>3, <1>4, StepHead DEF Inv
  <1>6. /\ NodesOK' /\ PairsOK' /\ WorkersOK'
        /\ \A m \in Places : Mem(m)' \subseteq Mem(m)
        /\ alive' \subseteq alive /\ (DtorPill \in alive' <=> DtorPill \in alive)
        /\ mpc \in Early => UNCHANGED <<alive, coro>>
    <2> DEFINE l == Main
    <2>1. l \in Places /\ Heads[l] # Null /\ CancelNode(Heads[l]) /\ Mem(l)' = Mem(l) \ {Heads[l]}
          /\ \A m \in Places : m # l => Mem(m)' = Mem(m)
      BY <1>1, <1>2, <1>5
    <2>2. l = Main
      OBVIOUS
    <2>3. \A v \in Workers : top'[v] # Null => top[v] # Null
      BY <1>1
    <2> HIDE DEF l
    <2> QED
      BY <1>1, <1>3, <1>5, <2>1, <2>2, <2>3, CancelRound
  <1>7. ThreadsOK'
    BY <1>1 DEF Inv, ThreadsOK, Joined
  <1>8. OwnerOK'
    BY <1>1, <1>6 DEF Inv, OwnerOK, PoolUsable
  <1> QED
    BY <1>3, <1>5, <1>6, <1>7, <1>8 DEF Inv
-----------------------------------------------------------------------------
(***************************************************************************)
(* Steps that take the whole list of queue g to place h.                   *)
(***************************************************************************)
LEMMA PopQueue ==
  ASSUME Inv, TypeOK', NEW g \in Workers, NEW h \in Places, h # Queue(g), UNCHANGED <<last, next, alive, coro, stopq>>,
         Heads[h] = Null, Heads'[h] = first[g], first' = [first EXCEPT ![g] = Null],
         \A m \in Places : m # h /\ m # Queue(g) => Heads'[m] = Heads[m],
         h # ClientAt, \A w \in Workers : h = Batch(w) \/ wpc'[w] = wpc[w],
         \A w \in Workers : h = Batch(w) => wpc'[w] # "cancel"
  PROVE  /\ Lists' /\ NodesOK' /\ PairsOK'
         /\ Mem(h)' = Mem(Queue(g)) /\ Mem(Queue(g))' = {}
         /\ \A m \in Places : m # h /\ m # Queue(g) => Mem(m)' = Mem(m)
         /\ first'[g] = Null /\ \A q \in Workers : q # g => first'[q] = first[q]
  <1>1. Queue(g) \in Places /\ Queue(g) # Main /\ Queue(g) # ClientAt /\ \A w \in Workers : Queue(g) # Batch(w)
    BY PlaceFacts
  <1>2. /\ Lists'
        /\ Mem(h)' = Mem(Queue(g)) /\ Mem(Queue(g))' = {}
        /\ \A m \in Places : m # h /\ m # Queue(g) => Mem(m)' = Mem(m)
    BY MoveList DEF Inv
  <1>3. Mem(h) = {}
    BY InPlace DEF Inv
  <1>4. first'[g] = Null /\ \A q \in Workers : q # g => first'[q] = first[q]
    BY DEF Inv, TypeOK
  <1>5. \A m \in Places : \E k \in Places : Mem(m) = Mem(k)' /\ (k = m \/ (k = h /\ m = Queue(g)) \/ Mem(m) = {})
    BY <1>1, <1>2, <1>3
  <1>6. \A m \in Places : \/ Mem(m)' = {}
                          \/ Mem(m)' = Mem(m) /\ m # h
                          \/ m = h /\ Mem(m)' = Mem(Queue(g))
    BY <1>2
  <1>7. NodesOK'
    <2>1. \A m \in Places : Mem(m)' \subseteq alive'
      BY <1>1, <1>6 DEF Inv, NodesOK
    <2>2. \A d \in Coros : CoroNode(d) \in alive' => \E m \in Places : CoroNode(d) \in Mem(m)'
      BY <1>5 DEF Inv, NodesOK
    <2>3. \A s \in Stops, q \in Workers : StopNode(s, q) \in alive' => \E m \in Places : StopNode(s, q) \in Mem(m)'
      BY <1>5 DEF Inv, NodesOK
    <2> QED
      BY <2>1, <2>2, <2>3 DEF Inv, NodesOK
  <1>8. PairsOK'
    <2>1. \A k \in Mem(ClientAt)' : k[1] = "coro"
      BY <1>1, <1>2, PlaceFacts DEF Inv, PairsOK
    <2>2. \A s \in Stops, q \in Workers, m \in Places :
            StopPill(s, q) \in Mem(m)' => next'[StopPill(s, q)] = StopNode(s, q)
      BY <1>1, <1>6 DEF Inv, PairsOK
    <2>3. ASSUME NEW s \in Stops, NEW q \in Workers, NEW m \in Places,
                 StopNode(s, q) \in Mem(m)', m # Main, \A v \in Workers : m = Batch(v) => wpc'[v] # "cancel"
          PROVE  StopPill(s, q) \in Mem(m)'
      <3>1. CASE m = h
        BY <1>1, <1>2, <2>3, <3>1 DEF Inv, PairsOK
      <3>2. CASE m # h
        <4>1. Mem(m)' = Mem(m) /\ \A v \in Workers : m = Batch(v) => wpc[v] # "cancel"
          BY <1>6, <2>3, <3>2
        <4> QED
          BY <2>3, <4>1 DEF Inv, PairsOK
      <3> QED
        BY <3>1, <3>2
    <2> QED
      BY <2>1, <2>2, <2>3 DEF PairsOK
  <1> QED
    BY <1>2, <1>4, <1>7, <1>8

LEMMA WorkerPopInv ==
  ASSUME Inv, NEW w \in Workers, WorkerPop(w)
  PROVE  Inv'
  <1>1. /\ wpc[w] = "pop" /\ first[w] # Null /\ top' = [top EXCEPT ![w] = first[w]]
        /\ first' = [first EXCEPT ![w] = Null] /\ wpc' = [wpc EXCEPT ![w] = "batch"]
        /\ UNCHANGED <<last, next, alive, cur, coro, cancelled, jumps, caller, stopq,
                       mpc, mi, mtop, joinable, ctop, chash>>
    BY DEF WorkerPop, coroVars, stopVars, mainVars, clientVars
  <1>2. TypeOK'
    BY <1>1 DEF Inv, TypeOK
  <1>3. /\ wpc'[w] = "batch" /\ \A v \in Workers : v # w => wpc'[v] = wpc[v]
        /\ top'[w] = first[w] /\ \A v \in Workers : v # w => top'[v] = top[v]
        /\ \A v \in Workers : v # w => first'[v] = first[v]
    BY <1>1 DEF Inv, TypeOK
  <1>4. top[w] = Null
    BY <1>1 DEF Inv, WorkersOK
  <1>5. /\ Batch(w) \in Places /\ Batch(w) # Queue(w) /\ Batch(w) # ClientAt
        /\ \A v \in Workers : Batch(w) = Batch(v) => v = w
        /\ Heads[Batch(w)] = Null /\ Heads'[Batch(w)] = first[w]
    BY <1>3, <1>4, PlaceFacts, HeadFacts
  <1>6. \A m \in Places : m # Batch(w) /\ m # Queue(w) => Heads'[m] = Heads[m]
    <2>1. Heads'[Main] = Heads[Main] /\ Heads'[ClientAt] = Heads[ClientAt]
      BY <1>1, HeadFacts
    <2>2. \A q \in Workers : q # w => Heads'[Queue(q)] = Heads[Queue(q)] /\ Heads'[Batch(q)] = Heads[Batch(q)]
      BY <1>3, HeadFacts
    <2> QED
      BY <2>1, <2>2, PlaceFacts
  <1>7. /\ Lists' /\ NodesOK' /\ PairsOK'
        /\ Mem(Batch(w))' = Mem(Queue(w)) /\ Mem(Queue(w))' = {}
        /\ \A m \in Places : m # Batch(w) /\ m # Queue(w) => Mem(m)' = Mem(m)
        /\ first'[w] = Null
    <2> DEFINE h == Batch(w)
    <2>1. /\ h \in Places /\ h # Queue(w) /\ h # ClientAt /\ Heads[h] = Null /\ Heads'[h] = first[w]
          /\ \A v \in Workers : h = Batch(v) \/ wpc'[v] = wpc[v]
          /\ \A v \in Workers : h = Batch(v) => wpc'[v] # "cancel"
          /\ \A m \in Places : m # h /\ m # Queue(w) => Heads'[m] = Heads[m]
      BY <1>3, <1>5, <1>6
    <2> HIDE DEF h
    <2>2. /\ Lists' /\ NodesOK' /\ PairsOK'
          /\ Mem(h)' = Mem(Queue(w)) /\ Mem(Queue(w))' = {}
          /\ \A m \in Places : m # h /\ m # Queue(w) => Mem(m)' = Mem(m)
          /\ first'[w] = Null
      BY <1>1, <1>2, <2>1, PopQueue
    <2> QED
      BY <2>2 DEF h
  <1>8. /\ mpc \in Early => mpc = "undo_join" /\ w = mi
    <2> SUFFICES ASSUME mpc \in Early PROVE mpc = "undo_join" /\ w = mi
      OBVIOUS
    <2>1. first[w] \in Mem(Queue(w)) /\ Queue(w) \in Places
      BY <1>1, HeadsAreMembers, PlaceFacts DEF Inv
    <2>2. first[w] = DtorPill
      BY <2>1 DEF Inv, NodesOK, OwnerOK
    <2>3. mpc = "undo_join" /\ (Queue(w) = Queue(mi) \/ Queue(w) = Batch(mi)) /\ mi \in Workers
      BY <2>1, <2>2, PoolAssumption DEF Inv, OwnerOK, Early, TypeOK, ThreadsOK, Workers
    <2> QED
      BY <2>3, PlaceFacts
  <1>9. WorkersOK'
    <2>1. \A v \in Workers : Executing(v)' <=> Executing(v)
      BY <1>1, <1>3 DEF Executing
    <2> QED
      BY <1>1, <1>3, <2>1 DEF Inv, WorkersOK
  <1>10. ThreadsOK'
    BY <1>1, <1>3, <1>7, <1>8 DEF Inv, ThreadsOK, Joined, Early
  <1>11. OwnerOK'
    <2>1. ASSUME NEW l \in Places, DtorPill \in Mem(l)'
          PROVE  \/ mpc' \in {"undo_join", "dtor_join"} /\ (l = Queue(mi') \/ l = Batch(mi'))
                 \/ mpc' = "dtor_drain" /\ l = Main
      <3>1. l # Queue(w)
        BY <1>7, <2>1
      <3>2. CASE l = Batch(w)
        <4>1. DtorPill \in Mem(Queue(w)) /\ Queue(w) \in Places /\ Queue(w) # Main
          BY <1>7, <2>1, <3>2, PlaceFacts
        <4>2. mpc \in {"undo_join", "dtor_join"} /\ (Queue(w) = Queue(mi) \/ Queue(w) = Batch(mi)) /\ mi \in Workers
          BY <4>1, PoolAssumption DEF Inv, OwnerOK, TypeOK, ThreadsOK, Workers
        <4> QED
          BY <1>1, <3>2, <4>2, PlaceFacts
      <3>3. CASE l # Batch(w)
        BY <1>1, <1>7, <2>1, <3>1, <3>3 DEF Inv, OwnerOK
      <3> QED
        BY <3>2, <3>3
    <2>2. \A v \in Workers : first[v] = Null => first'[v] = Null
      BY <1>3, <1>7
    <2> QED
      BY <1>1, <2>1, <2>2 DEF Inv, OwnerOK, PoolUsable
  <1> QED
    BY <1>2, <1>7, <1>9, <1>10, <1>11 DEF Inv

\* pop_all of the owner: queue mi becomes the list it cancels.
LEMMA OwnerPops ==
  ASSUME Inv, TypeOK', mi \in Workers, mtop = Null, PopAll(mi), UNCHANGED <<last, next, alive, coro, stopq, wpc, top, ctop>>
  PROVE  /\ Lists' /\ NodesOK' /\ PairsOK'
         /\ Mem(Main)' = Mem(Queue(mi))
         /\ \A q \in Workers : Mem(Queue(q))' = IF q = mi THEN {} ELSE Mem(Queue(q))
         /\ \A m \in Places : m # Main /\ m # Queue(mi) => Mem(m)' = Mem(m)
         /\ \A q \in Workers : first'[q] = IF q = mi THEN Null ELSE first[q]
  <1> DEFINE g == mi
             h == Main
  <1>1. /\ g \in Workers /\ h \in Places /\ h # Queue(g) /\ h # ClientAt /\ Heads[h] = Null /\ Heads'[h] = first[g]
        /\ first' = [first EXCEPT ![g] = Null] /\ \A v \in Workers : h # Batch(v)
        /\ \A v \in Workers : (h = Batch(v) \/ wpc'[v] = wpc[v]) /\ (h = Batch(v) => wpc'[v] # "cancel")
    BY PlaceFacts, HeadFacts DEF PopAll
  <1>2. \A q \in Workers : first'[q] = IF q = mi THEN Null ELSE first[q]
    BY DEF PopAll, Inv, TypeOK
  <1>3. \A m \in Places : m # h /\ m # Queue(g) => Heads'[m] = Heads[m]
    <2>1. Heads'[ClientAt] = Heads[ClientAt] /\ \A q \in Workers : Heads'[Batch(q)] = Heads[Batch(q)]
      BY HeadFacts
    <2>2. \A q \in Workers : q # g => Heads'[Queue(q)] = Heads[Queue(q)]
      BY <1>2, HeadFacts
    <2> QED
      BY <2>1, <2>2, PlaceFacts
  <1> HIDE DEF g, h
  <1>4. /\ Lists' /\ NodesOK' /\ PairsOK'
        /\ LP!NodesOf(next', Heads'[h]) = Mem(Queue(g)) /\ LP!NodesOf(next', Heads'[Queue(g)]) = {}
        /\ \A m \in Places : m # h /\ m # Queue(g) => Mem(m)' = Mem(m)
    <2> SUFFICES ASSUME NEW x \in Workers, NEW y \in Places, x = g, y = h
                 PROVE  /\ Lists' /\ NodesOK' /\ PairsOK'
                        /\ LP!NodesOf(next', Heads'[y]) = Mem(Queue(x)) /\ LP!NodesOf(next', Heads'[Queue(x)]) = {}
                        /\ \A m \in Places : m # y /\ m # Queue(x) => Mem(m)' = Mem(m)
      BY <1>1
    <2>1. /\ x \in Workers /\ y \in Places /\ y # Queue(x) /\ y # ClientAt /\ Heads[y] = Null /\ Heads'[y] = first[x]
          /\ first' = [first EXCEPT ![x] = Null]
          /\ \A v \in Workers : (y = Batch(v) \/ wpc'[v] = wpc[v]) /\ (y = Batch(v) => wpc'[v] # "cancel")
          /\ \A m \in Places : m # y /\ m # Queue(x) => Heads'[m] = Heads[m]
      BY <1>1, <1>3
    <2>2. /\ Lists' /\ NodesOK' /\ PairsOK'
          /\ Mem(y)' = Mem(Queue(x)) /\ Mem(Queue(x))' = {}
          /\ \A m \in Places : m # y /\ m # Queue(x) => Mem(m)' = Mem(m)
      BY <2>1, PopQueue
    <2> QED
      BY <2>2 DEF Mem
  <1>5. Mem(Main)' = Mem(Queue(mi))
    BY <1>4 DEF Mem, h, g
  <1>6. \A m \in Places : m = Queue(mi) => Mem(m)' = {}
    BY <1>4 DEF Mem, g
  <1>7. \A m \in Places : m # Main /\ m # Queue(mi) => Mem(m)' = Mem(m)
    BY <1>4 DEF h, g
  <1>8. \A q \in Workers : Mem(Queue(q))' = IF q = mi THEN {} ELSE Mem(Queue(q))
    BY <1>6, <1>7, PlaceFacts
  <1> QED
    BY <1>2, <1>4, <1>5, <1>7, <1>8

LEMMA CancelQueuesPopInv ==
  ASSUME Inv, CancelQueuesPop
  PROVE  Inv'
  <1>1. /\ mpc \in {"wait_cancel", "dtor_cancel"} /\ mi <= NumWorkers /\ mtop = Null /\ PopAll(mi) /\ mi' = mi + 1
        /\ UNCHANGED <<last, next, alive, coro, cancelled, jumps, wpc, top, cur, caller, stopq, mpc, joinable, ctop, chash>>
    BY DEF CancelQueuesPop, coroVars, workerVars, stopVars, clientVars
  <1>2. mi \in Workers /\ mi \in Nat /\ mi' \in 1 .. NumWorkers + 1
    BY <1>1, PoolAssumption DEF Inv, TypeOK, Workers
  <1>3. TypeOK'
    BY <1>1, <1>2 DEF Inv, TypeOK, PopAll
  <1>4. /\ Lists' /\ NodesOK' /\ PairsOK'
        /\ Mem(Main)' = Mem(Queue(mi)) /\ \A q \in Workers : Mem(Queue(q))' = IF q = mi THEN {} ELSE Mem(Queue(q))
        /\ \A m \in Places : m # Main /\ m # Queue(mi) => Mem(m)' = Mem(m)
        /\ \A q \in Workers : first'[q] = IF q = mi THEN Null ELSE first[q]
    BY <1>1, <1>2, <1>3, OwnerPops
  <1>5. WorkersOK'
    BY <1>1 DEF Inv, WorkersOK, Executing
  <1>6. ThreadsOK'
    BY <1>1 DEF Inv, ThreadsOK, Joined
  <1>7. \A l \in Places : DtorPill \notin Mem(l)'
    <2>1. \A l \in Places : DtorPill \notin Mem(l)
      BY <1>1 DEF Inv, OwnerOK
    <2> QED
      BY <1>2, <1>4, <2>1, PlaceFacts
  <1>8. \A w \in Workers : w < mi' => w < mi \/ w = mi
    BY <1>1, <1>2 DEF Workers
  <1>9. OwnerOK'
    BY <1>1, <1>4, <1>7, <1>8 DEF Inv, OwnerOK, PoolUsable, Early
  <1> QED
    BY <1>3, <1>4, <1>5, <1>6, <1>9 DEF Inv

LEMMA DtorJoinInv ==
  ASSUME Inv, DtorJoin
  PROVE  Inv'
  <1>1. /\ mpc = "dtor_join" /\ wpc[mi] = "exited" /\ joinable' = [joinable EXCEPT ![mi] = FALSE] /\ PopAll(mi)
        /\ mpc' = "dtor_drain"
        /\ UNCHANGED <<last, next, alive, coro, cancelled, jumps, wpc, top, cur, caller, stopq, mi, ctop, chash>>
    BY DEF DtorJoin, coroVars, workerVars, stopVars, clientVars
  <1>2. mi \in Workers /\ mi \in Nat
    BY <1>1, PoolAssumption DEF Inv, TypeOK, ThreadsOK, Workers
  <1>3. TypeOK'
    BY <1>1, <1>2 DEF Inv, TypeOK, PopAll
  <1>4. mtop = Null
    BY <1>1 DEF Inv, OwnerOK
  <1>5. /\ Lists' /\ NodesOK' /\ PairsOK'
        /\ Mem(Main)' = Mem(Queue(mi)) /\ \A q \in Workers : Mem(Queue(q))' = IF q = mi THEN {} ELSE Mem(Queue(q))
        /\ \A m \in Places : m # Main /\ m # Queue(mi) => Mem(m)' = Mem(m)
        /\ \A q \in Workers : first'[q] = IF q = mi THEN Null ELSE first[q]
    BY <1>1, <1>2, <1>3, <1>4, OwnerPops
  <1>6. WorkersOK'
    BY <1>1 DEF Inv, WorkersOK, Executing
  <1>7. ~joinable'[mi] /\ \A w \in Workers : w # mi => joinable'[w] = joinable[w]
    BY <1>1, <1>2 DEF Inv, TypeOK
  <1>8. ThreadsOK'
    <2>1. \A w \in Workers : w < mi + 1 => w < mi \/ w = mi
      BY <1>2 DEF Workers
    <2>2. Joined(mi + 1)'
      BY <1>1, <1>7, <2>1 DEF Inv, ThreadsOK, Joined
    <2> QED
      BY <1>1, <1>7, <2>2 DEF Inv, ThreadsOK
  <1>9. ASSUME NEW l \in Places, DtorPill \in Mem(l)' PROVE l = Main
    <2> SUFFICES ASSUME l # Main PROVE FALSE
      OBVIOUS
    <2>1. l # Queue(mi) /\ DtorPill \in Mem(l)
      BY <1>2, <1>5, <1>9
    <2>2. l = Batch(mi)
      BY <1>1, <2>1 DEF Inv, OwnerOK
    <2>3. top[mi] = Null
      BY <1>1, <1>2 DEF Inv, WorkersOK
    <2> QED
      BY <1>2, <2>1, <2>2, <2>3, HeadsAreMembers DEF Inv
  <1>10. OwnerOK'
    BY <1>1, <1>5, <1>9 DEF Inv, OwnerOK, PoolUsable, Early
  <1> QED
    BY <1>3, <1>5, <1>6, <1>8, <1>10 DEF Inv
-----------------------------------------------------------------------------
(***************************************************************************)
(* Steps that push one node.                                               *)
(***************************************************************************)
LEMMA PushedQueues ==
  ASSUME TypeOK, NEW q \in Workers, NEW n, NEW k, NEW mem, PushList(q, n, k, mem)
  PROVE  \A p \in Workers : p # q => first'[p] = first[p]
  BY DEF TypeOK, PushList

LEMMA PushedPairs ==
  ASSUME Inv, NEW q \in Workers, NEW n \in Nodes, \A s \in Stops, p \in Workers : n # StopPill(s, p) /\ n # StopNode(s, p),
         Mem(Queue(q))' = Mem(Queue(q)) \cup {n},
         \A m \in Places : m # Queue(q) => Mem(m)' = Mem(m),
         \A i \in Nodes \ {n} : next[i] # Null => next'[i] = next[i],
         \A w \in Workers : wpc[w] = "cancel" => wpc'[w] = "cancel"
  PROVE  PairsOK'
  <1>1. Queue(q) # ClientAt /\ ClientAt \in Places /\ Queue(q) \in Places
    BY PlaceFacts
  <1>2. \A m \in Places : Mem(m) \subseteq Mem(m)' /\ Mem(m)' \subseteq Mem(m) \cup {n}
    <2>1. \A m \in Places : m = Queue(q) => Mem(m)' = Mem(m) \cup {n}
      OBVIOUS
    <2> QED
      BY <2>1
  <1>3. \A k \in Mem(ClientAt)' : k[1] = "coro"
    BY <1>1 DEF Inv, PairsOK
  <1>4. ASSUME NEW s \in Stops, NEW p \in Workers, NEW m \in Places
        PROVE  /\ StopPill(s, p) \in Mem(m)' => next'[StopPill(s, p)] = StopNode(s, p)
               /\ StopNode(s, p) \in Mem(m)' /\ m # Main /\ (\A w \in Workers : m = Batch(w) => wpc'[w] # "cancel")
                    => StopPill(s, p) \in Mem(m)'
    <2>1. /\ StopPill(s, p) \in Mem(m)' <=> StopPill(s, p) \in Mem(m)
          /\ StopNode(s, p) \in Mem(m)' <=> StopNode(s, p) \in Mem(m)
      BY <1>2
    <2>2. StopPill(s, p) \in Nodes /\ StopPill(s, p) # n /\ StopNode(s, p) # Null
      BY NodeFacts, NullIsNowhere
    <2>3. StopPill(s, p) \in Mem(m) => next[StopPill(s, p)] = StopNode(s, p)
      BY DEF Inv, PairsOK
    <2>4. StopPill(s, p) \in Mem(m)' => next'[StopPill(s, p)] = StopNode(s, p)
      BY <2>1, <2>2, <2>3
    <2>5. StopNode(s, p) \in Mem(m) /\ m # Main /\ (\A w \in Workers : m = Batch(w) => wpc[w] # "cancel")
            => StopPill(s, p) \in Mem(m)
      BY DEF Inv, PairsOK
    <2> QED
      BY <2>1, <2>4, <2>5
  <1> QED
    BY <1>3, <1>4 DEF PairsOK

\* The owner pushes its pill into queue mi.
LEMMA OwnerPushes ==
  ASSUME Inv, TypeOK', mi \in Workers, Push(mi, DtorPill), \A l \in Places : DtorPill \notin Mem(l), DtorPill \in alive,
         UNCHANGED <<top, mtop, ctop, alive, coro, stopq, wpc>>
  PROVE  /\ Lists' /\ NodesOK' /\ PairsOK'
         /\ \A m \in Places : DtorPill \in Mem(m)' <=> m = Queue(mi)
         /\ \A q \in Workers : q # mi => first'[q] = first[q]
  <1> SUFFICES ASSUME NEW q \in Workers, q = mi
               PROVE  /\ Lists' /\ NodesOK' /\ PairsOK'
                      /\ \A m \in Places : DtorPill \in Mem(m)' <=> m = Queue(q)
                      /\ \A p \in Workers : p # q => first'[p] = first[p]
    OBVIOUS
  <1>1. DtorPill \in Nodes /\ Queue(q) \in Places
    BY NodeFacts, PlaceFacts
  <1>2. /\ Lists'
        /\ Mem(Queue(q))' = Mem(Queue(q)) \cup {DtorPill}
        /\ \A m \in Places : m # Queue(q) => Mem(m)' = Mem(m)
        /\ \A k \in Nodes \ {DtorPill} : next[k] # Null => next'[k] = next[k]
    BY <1>1, PushNewNode DEF Inv
  <1>3. \A m \in Places : Mem(m) \subseteq Mem(m)' /\ Mem(m)' \subseteq Mem(m) \cup {DtorPill}
    BY <1>2
  <1>4. NodesOK'
    <2>1. \A m \in Places : Mem(m)' \subseteq alive'
      BY <1>3 DEF Inv, NodesOK
    <2>2. \A c \in Coros : CoroNode(c) \in alive' => \E m \in Places : CoroNode(c) \in Mem(m)'
      BY <1>3 DEF Inv, NodesOK
    <2>3. \A s \in Stops, p \in Workers : StopNode(s, p) \in alive' => \E m \in Places : StopNode(s, p) \in Mem(m)'
      BY <1>3 DEF Inv, NodesOK
    <2> QED
      BY <2>1, <2>2, <2>3 DEF Inv, NodesOK
  <1>5. \A s \in Stops, p \in Workers : DtorPill # StopPill(s, p) /\ DtorPill # StopNode(s, p)
    BY NodesDiffer
  <1>6. PairsOK'
    BY <1>1, <1>2, <1>5, PushedPairs
  <1>7. \A p \in Workers : p # q => first'[p] = first[p]
    BY PushedQueues DEF Push, Inv
  <1> QED
    BY <1>2, <1>4, <1>6, <1>7

LEMMA PushType ==
  ASSUME TypeOK, NEW q \in Workers, NEW n \in Nodes, Push(q, n)
  PROVE  /\ first' \in [Workers -> Nodes \cup {Null}]
         /\ last' \in [Workers -> Nodes \cup {Null}]
         /\ next' \in [Nodes -> Nodes \cup {Null}]
  BY DEF TypeOK, Push, PushList

LEMMA UndoPushInv ==
  ASSUME Inv, UndoPush
  PROVE  Inv'
  <1>1. /\ mpc = "undo" /\ joinable[mi] /\ Push(mi, DtorPill) /\ mpc' = "undo_join"
        /\ UNCHANGED <<alive, coro, cancelled, jumps, wpc, top, cur, caller, stopq, mi, mtop, joinable, ctop, chash>>
    BY DEF UndoPush, coroVars, workerVars, stopVars, clientVars
  <1>2. mi \in Workers /\ DtorPill \in Nodes
    BY <1>1, PoolAssumption, NodeFacts DEF Inv, TypeOK, ThreadsOK, Workers
  <1>3. TypeOK'
    BY <1>1, <1>2, PushType DEF Inv, TypeOK
  <1>4. DtorPill \in alive /\ \A l \in Places : DtorPill \notin Mem(l)
    BY <1>1 DEF Inv, OwnerOK
  <1>5. /\ Lists' /\ NodesOK' /\ PairsOK'
        /\ \A m \in Places : DtorPill \in Mem(m)' <=> m = Queue(mi)
    BY <1>1, <1>2, <1>3, <1>4, OwnerPushes
  <1>6. WorkersOK'
    BY <1>1 DEF Inv, WorkersOK, Executing
  <1>7. ThreadsOK'
    BY <1>1, <1>2 DEF Inv, ThreadsOK, Joined
  <1>8. OwnerOK'
    BY <1>1, <1>5 DEF Inv, OwnerOK, PoolUsable, Early
  <1> QED
    BY <1>3, <1>5, <1>6, <1>7, <1>8 DEF Inv

LEMMA DtorPushInv ==
  ASSUME Inv, DtorPush
  PROVE  Inv'
  <1>1. /\ mpc = "dtor" /\ mi <= NumWorkers /\ joinable[mi] /\ Push(mi, DtorPill) /\ mpc' = "dtor_join"
        /\ UNCHANGED <<alive, coro, cancelled, jumps, wpc, top, cur, caller, stopq, mi, mtop, joinable, ctop, chash>>
    BY DEF DtorPush, coroVars, workerVars, stopVars, clientVars
  <1>2. mi \in Workers /\ DtorPill \in Nodes
    BY <1>1, PoolAssumption, NodeFacts DEF Inv, TypeOK, Workers
  <1>3. TypeOK'
    BY <1>1, <1>2, PushType DEF Inv, TypeOK
  <1>4. DtorPill \in alive /\ \A l \in Places : DtorPill \notin Mem(l)
    BY <1>1 DEF Inv, OwnerOK
  <1>5. /\ Lists' /\ NodesOK' /\ PairsOK'
        /\ \A m \in Places : DtorPill \in Mem(m)' <=> m = Queue(mi)
    BY <1>1, <1>2, <1>3, <1>4, OwnerPushes
  <1>6. WorkersOK'
    BY <1>1 DEF Inv, WorkersOK, Executing
  <1>7. ThreadsOK'
    BY <1>1, <1>2 DEF Inv, ThreadsOK, Joined
  <1>8. OwnerOK'
    BY <1>1, <1>5 DEF Inv, OwnerOK, PoolUsable, Early
  <1> QED
    BY <1>3, <1>5, <1>6, <1>7, <1>8 DEF Inv

LEMMA CoroJumpInv ==
  ASSUME Inv, NEW w \in Workers, CoroJump(w)
  PROVE  Inv'
  <1>1. /\ wpc[w] = "run" /\ jumps < MaxJumps /\ jumps' = jumps + 1 /\ coro' = [coro EXCEPT ![cur[w]] = "suspended"]
        /\ alive' = alive \cup {CoroNode(cur[w])}
        /\ wpc' = [wpc EXCEPT ![w] = IF top[w] = Null THEN "pop" ELSE "batch"]
        /\ cur' = [cur EXCEPT ![w] = Nobody]
        /\ UNCHANGED <<top, cancelled, caller, stopq, mpc, mi, mtop, joinable, ctop, chash>>
    BY DEF CoroJump, BackToLoop, stopVars, mainVars, clientVars
  <1>2. PICK q \in Workers : Push(q, CoroNode(cur[w]))
    BY DEF CoroJump
  <1>3. Executing(w) /\ cur[w] \in Coros /\ coro[cur[w]] = "running"
    BY <1>1 DEF Inv, WorkersOK, Executing
  <1>4. PICK c \in Coros : c = cur[w]
    BY <1>3
  <1> DEFINE n == CoroNode(c)
  <1>5. n \in Nodes /\ n \notin alive /\ Queue(q) \in Places
    BY <1>3, <1>4, NodeFacts, PlaceFacts DEF Inv, NodesOK
  <1>6. /\ coro' = [coro EXCEPT ![c] = "suspended"] /\ alive' = alive \cup {n} /\ Push(q, n)
    BY <1>1, <1>2, <1>4
  <1> HIDE DEF n
  <1>7. TypeOK'
    <2>1. jumps' \in 0 .. MaxJumps
      BY <1>1, PoolAssumption DEF Inv, TypeOK
    <2> QED
      BY <1>1, <1>5, <1>6, <2>1, PushType DEF Inv, TypeOK
  <1>8. /\ wpc'[w] \in {"pop", "batch"} /\ (top[w] # Null => wpc'[w] = "batch")
        /\ \A v \in Workers : v # w => wpc'[v] = wpc[v] /\ cur'[v] = cur[v]
        /\ coro'[c] = "suspended" /\ \A d \in Coros : d # c => coro'[d] = coro[d]
    BY <1>1, <1>6 DEF Inv, TypeOK
  <1>9. \A m \in Places : n \notin Mem(m)
    BY <1>5 DEF Inv, NodesOK
  <1>10. /\ Lists'
         /\ Mem(Queue(q))' = Mem(Queue(q)) \cup {n}
         /\ \A m \in Places : m # Queue(q) => Mem(m)' = Mem(m)
         /\ \A k \in Nodes \ {n} : next[k] # Null => next'[k] = next[k]
    BY <1>1, <1>5, <1>6, <1>7, <1>9, PushNewNode DEF Inv
  <1>11. \A m \in Places : Mem(m) \subseteq Mem(m)' /\ Mem(m)' \subseteq Mem(m) \cup {n}
    BY <1>10
  <1>12. /\ \A d \in Coros : d # c => CoroNode(d) # n
         /\ \A s \in Stops, p \in Workers : StopPill(s, p) # n /\ StopNode(s, p) # n
         /\ DtorPill # n
    BY NodesDiffer DEF n
  <1>13. NodesOK'
    <2>1. \A m \in Places : Mem(m)' \subseteq alive'
      BY <1>6, <1>11 DEF Inv, NodesOK
    <2>2. ASSUME NEW d \in Coros, CoroNode(d) \in alive' PROVE \E m \in Places : CoroNode(d) \in Mem(m)'
      <3>1. CASE CoroNode(d) = n
        BY <1>5, <1>10, <3>1
      <3>2. CASE CoroNode(d) # n
        BY <1>6, <1>11, <2>2, <3>2 DEF Inv, NodesOK
      <3> QED
        BY <3>1, <3>2
    <2>3. \A d \in Coros : CoroNode(d) \in alive' <=> coro'[d] = "suspended"
      BY <1>6, <1>8, <1>12 DEF Inv, NodesOK, n
    <2>4. \A s \in Stops, p \in Workers :
            /\ StopNode(s, p) \in alive' => \E m \in Places : StopNode(s, p) \in Mem(m)'
            /\ StopPill(s, p) \in alive' <=> StopNode(s, p) \in alive'
            /\ StopNode(s, p) \in alive' => p < stopq'[s]
      BY <1>1, <1>6, <1>11, <1>12 DEF Inv, NodesOK
    <2> QED
      BY <2>1, <2>2, <2>3, <2>4 DEF NodesOK
  <1>14. PairsOK'
    <2>1. \A v \in Workers : wpc[v] = "cancel" => wpc'[v] = "cancel"
      BY <1>1, <1>8
    <2> QED
      BY <1>5, <1>10, <1>12, <2>1, PushedPairs
  <1>15. WorkersOK'
    <2>1. ~Executing(w)' /\ \A v \in Workers : v # w => (Executing(v)' <=> Executing(v))
      BY <1>8 DEF Executing
    <2>2. \A v \in Workers : Executing(v) /\ v # w => cur[v] # c
      BY <1>3, <1>4 DEF Inv, WorkersOK
    <2>3. \A s \in Stops : caller[s] # w
      BY <1>1 DEF Inv, WorkersOK
    <2> QED
      BY <1>1, <1>3, <1>4, <1>8, <2>1, <2>2, <2>3 DEF Inv, WorkersOK
  <1>16. mpc \notin Early
    BY <1>3 DEF Inv, OwnerOK
  <1>17. joinable[w]
    BY <1>1 DEF Inv, ThreadsOK
  <1>18. ThreadsOK'
    BY <1>1, <1>8, <1>16, <1>17 DEF Inv, ThreadsOK, Joined, Early
  <1>19. mpc # "dead" /\ (mpc = "dtor_cancel" => FALSE)
    <2>1. \A v \in Workers : v < NumWorkers + 1
      BY PoolAssumption DEF Workers
    <2> QED
      BY <1>17, <2>1 DEF Inv, ThreadsOK, Joined
  <1>20. OwnerOK'
    BY <1>1, <1>6, <1>11, <1>12, <1>16, <1>19 DEF Inv, OwnerOK, PoolUsable
  <1> QED
    BY <1>7, <1>10, <1>13, <1>14, <1>15, <1>18, <1>20 DEF Inv

LEMMA PushDeadpillInv ==
  ASSUME Inv, NEW s \in Stops, PushDeadpill(s)
  PROVE  Inv'
  <1>1. /\ caller[s] # Nobody /\ stopq[s] <= NumWorkers
        /\ alive' = alive \cup {StopPill(s, stopq[s]), StopNode(s, stopq[s])}
        /\ PushList(stopq[s], StopPill(s, stopq[s]), StopNode(s, stopq[s]),
                    Chained(next, <<StopPill(s, stopq[s]), StopNode(s, stopq[s])>>))
        /\ stopq' = [stopq EXCEPT ![s] = stopq[s] + 1]
        /\ UNCHANGED <<caller, coro, cancelled, jumps, wpc, top, cur, mpc, mi, mtop, joinable, ctop, chash>>
    BY DEF PushDeadpill, coroVars, workerVars, mainVars, clientVars
  <1>2. stopq[s] \in Workers /\ stopq[s] + 1 \in 1 .. NumWorkers + 1
    BY <1>1, PoolAssumption DEF Inv, TypeOK, Workers
  <1>3. PICK q \in Workers : q = stopq[s]
    BY <1>2
  <1> DEFINE n == StopPill(s, q)
             k == StopNode(s, q)
  <1>4. /\ alive' = alive \cup {n, k} /\ PushList(q, n, k, Chained(next, <<n, k>>))
        /\ stopq' = [stopq EXCEPT ![s] = q + 1] /\ q + 1 \in 1 .. NumWorkers + 1
    BY <1>1, <1>2, <1>3
  <1>5. n \in Nodes /\ k \in Nodes /\ n # k /\ Queue(q) \in Places
    BY NodeFacts, NodesDiffer, PlaceFacts
  <1>6. k \notin alive /\ n \notin alive
    <2>1. ~ (q < stopq[s])
      BY <1>3 DEF Workers
    <2> QED
      BY <2>1 DEF Inv, NodesOK
  <1> HIDE DEF n, k
  <1>7. Chained(next, <<n, k>>) \in [Nodes -> Nodes \cup {Null}]
    <2> DEFINE t == <<n, k>>
    <2>1. Len(t) = 2 /\ t[1] \in Nodes /\ t[2] \in Nodes /\ 1 .. 2 = {1, 2}
      BY <1>5
    <2> HIDE DEF t
    <2>2. Chained(next, t) \in [Nodes -> Nodes \cup {Null}]
      BY <2>1 DEF Chained, Inv, TypeOK
    <2> QED
      BY <2>2 DEF t
  <1>8. TypeOK'
    <2> DEFINE mem == Chained(next, <<n, k>>)
    <2>1. mem \in [Nodes -> Nodes \cup {Null}] /\ PushList(q, n, k, mem)
      BY <1>4, <1>7
    <2> HIDE DEF mem
    <2>2. /\ first' \in [Workers -> Nodes \cup {Null}]
          /\ last' \in [Workers -> Nodes \cup {Null}]
          /\ next' \in [Nodes -> Nodes \cup {Null}]
      BY <1>5, <2>1 DEF Inv, TypeOK, PushList
    <2> QED
      BY <1>1, <1>4, <1>5, <2>2 DEF Inv, TypeOK
  <1>9. stopq'[s] = q + 1 /\ \A r \in Stops : r # s => stopq'[r] = stopq[r]
    BY <1>4 DEF Inv, TypeOK
  <1>10. \A m \in Places : n \notin Mem(m) /\ k \notin Mem(m)
    BY <1>6 DEF Inv, NodesOK
  <1>11. /\ Lists'
         /\ Mem(Queue(q))' = Mem(Queue(q)) \cup {n, k}
         /\ \A m \in Places : m # Queue(q) => Mem(m)' = Mem(m)
         /\ \A i \in Nodes \ {n, k} : next[i] # Null => next'[i] = next[i]
         /\ next'[n] = k
    BY <1>1, <1>4, <1>5, <1>8, <1>10, PushPair DEF Inv
  <1>12. \A m \in Places : Mem(m) \subseteq Mem(m)' /\ Mem(m)' \subseteq Mem(m) \cup {n, k}
    BY <1>11
  <1>13. /\ \A d \in Coros : CoroNode(d) # n /\ CoroNode(d) # k
         /\ DtorPill # n /\ DtorPill # k
         /\ \A r \in Stops, p \in Workers : StopPill(r, p) # k /\ StopNode(r, p) # n
         /\ \A r \in Stops, p \in Workers : (StopPill(r, p) = n <=> r = s /\ p = q) /\ (StopNode(r, p) = k <=> r = s /\ p = q)
    BY NodesDiffer DEF n, k
  <1>14. NodesOK'
    <2>1. \A m \in Places : Mem(m)' \subseteq alive'
      BY <1>4, <1>12 DEF Inv, NodesOK
    <2>2. \A d \in Coros : CoroNode(d) \in alive' => \E m \in Places : CoroNode(d) \in Mem(m)'
      BY <1>4, <1>12, <1>13 DEF Inv, NodesOK
    <2>3. \A d \in Coros : CoroNode(d) \in alive' <=> coro'[d] = "suspended"
      BY <1>1, <1>4, <1>13 DEF Inv, NodesOK
    <2>4. ASSUME NEW r \in Stops, NEW p \in Workers, StopNode(r, p) \in alive'
          PROVE  \E m \in Places : StopNode(r, p) \in Mem(m)'
      <3>1. CASE StopNode(r, p) = k
        BY <1>5, <1>11, <3>1
      <3>2. CASE StopNode(r, p) # k
        BY <1>4, <1>12, <1>13, <2>4, <3>2 DEF Inv, NodesOK
      <3> QED
        BY <3>1, <3>2
    <2>5. \A r \in Stops, p \in Workers : StopPill(r, p) \in alive' <=> StopNode(r, p) \in alive'
      BY <1>4, <1>13 DEF Inv, NodesOK
    <2>6. ASSUME NEW r \in Stops, NEW p \in Workers, StopNode(r, p) \in alive' PROVE p < stopq'[r]
      <3>1. CASE r = s
        <4>1. p < stopq[s] \/ p = q
          BY <1>4, <1>13, <2>6, <3>1 DEF Inv, NodesOK
        <4> QED
          BY <1>3, <1>9, <3>1, <4>1 DEF Workers
      <3>2. CASE r # s
        BY <1>4, <1>9, <1>13, <2>6, <3>2 DEF Inv, NodesOK
      <3> QED
        BY <3>1, <3>2
    <2> QED
      BY <2>1, <2>2, <2>3, <2>4, <2>5, <2>6 DEF NodesOK
  <1>15. PairsOK'
    <2>1. Queue(q) # ClientAt /\ ClientAt \in Places
      BY PlaceFacts
    <2>2. \A i \in Mem(ClientAt)' : i[1] = "coro"
      BY <1>11, <2>1 DEF Inv, PairsOK
    <2>3. ASSUME NEW r \in Stops, NEW p \in Workers, NEW m \in Places
          PROVE  /\ StopPill(r, p) \in Mem(m)' => next'[StopPill(r, p)] = StopNode(r, p)
                 /\ StopNode(r, p) \in Mem(m)' /\ m # Main /\ (\A w \in Workers : m = Batch(w) => wpc'[w] # "cancel")
                      => StopPill(r, p) \in Mem(m)'
      <3>1. CASE r = s /\ p = q
        <4>1. StopPill(r, p) = n /\ StopNode(r, p) = k
          BY <3>1 DEF n, k
        <4>2. n \in Mem(m)' \/ k \in Mem(m)' => m = Queue(q)
          BY <1>10, <1>11
        <4> QED
          BY <1>11, <4>1, <4>2
      <3>2. CASE ~ (r = s /\ p = q)
        <4>1. /\ StopPill(r, p) \in Mem(m)' <=> StopPill(r, p) \in Mem(m)
              /\ StopNode(r, p) \in Mem(m)' <=> StopNode(r, p) \in Mem(m)
          BY <1>12, <1>13, <3>2
        <4>2. StopPill(r, p) \in Nodes \ {n, k} /\ StopNode(r, p) # Null
          BY <1>13, <3>2, NodeFacts, NullIsNowhere
        <4>3. /\ StopPill(r, p) \in Mem(m) => next[StopPill(r, p)] = StopNode(r, p)
              /\ StopNode(r, p) \in Mem(m) /\ m # Main /\ (\A w \in Workers : m = Batch(w) => wpc[w] # "cancel")
                   => StopPill(r, p) \in Mem(m)
          BY DEF Inv, PairsOK
        <4>4. StopPill(r, p) \in Mem(m)' => next'[StopPill(r, p)] = StopNode(r, p)
          BY <1>11, <4>1, <4>2, <4>3
        <4> QED
          BY <1>1, <4>1, <4>3, <4>4
      <3> QED
        BY <3>1, <3>2
    <2> QED
      BY <2>2, <2>3 DEF PairsOK
  <1>16. WorkersOK'
    BY <1>1 DEF Inv, WorkersOK, Executing
  <1>17. mpc \notin Early /\ mpc \notin {"dead", "dtor_cancel"}
    <2>1. mpc \notin Early
      BY <1>1 DEF Inv, OwnerOK
    <2>2. CASE caller[s] = Client
      BY <2>1, <2>2 DEF Inv, OwnerOK, PoolUsable
    <2>3. CASE caller[s] \in Workers
      <3>1. joinable[caller[s]] /\ caller[s] < NumWorkers + 1
        BY <2>3, PoolAssumption DEF Inv, WorkersOK, ThreadsOK, Workers
      <3> QED
        BY <2>1, <2>3, <3>1 DEF Inv, ThreadsOK, Joined
    <2> QED
      BY <1>1, <2>2, <2>3 DEF Inv, TypeOK
  <1>18. ThreadsOK'
    BY <1>1, <1>17 DEF Inv, ThreadsOK, Joined, Early
  <1>19. OwnerOK'
    BY <1>1, <1>4, <1>12, <1>13, <1>17 DEF Inv, OwnerOK, PoolUsable
  <1> QED
    BY <1>8, <1>11, <1>14, <1>15, <1>16, <1>18, <1>19 DEF Inv

LEMMA ClientAttachInv ==
  ASSUME Inv, ClientAttach
  PROVE  Inv'
  <1>1. /\ ctop # Null /\ ctop' = next[ctop] /\ Push(chash, ctop) /\ chash' = (chash % NumWorkers) + 1
        /\ UNCHANGED <<alive, coro, cancelled, jumps, wpc, top, cur, caller, stopq, mpc, mi, mtop, joinable>>
    BY DEF ClientAttach, coroVars, workerVars, stopVars, mainVars
  <1>2. PICK q \in Workers : q = chash
    BY DEF Inv, TypeOK
  <1>3. PICK n \in Nodes : n = ctop
    BY <1>1 DEF Inv, TypeOK
  <1>4. Push(q, n) /\ ctop' = next[n] /\ n # Null
    BY <1>1, <1>2, <1>3
  <1>5. TypeOK'
    <2>1. chash' \in Workers
      BY <1>1, PoolAssumption DEF Inv, TypeOK, Workers
    <2> QED
      BY <1>1, <1>4, <2>1, PushType DEF Inv, TypeOK
  <1> DEFINE H == [Heads EXCEPT ![ClientAt] = next[n]]
  <1>6. /\ ClientAt \in Places /\ Heads[ClientAt] = n /\ \A p \in Workers : Queue(p) # ClientAt /\ Queue(p) \in Places
        /\ Heads \in [Places -> Nodes \cup {Null}] /\ next[n] \in Nodes \cup {Null}
    <2>1. next[n] \in Nodes \cup {Null}
      BY DEF Inv, TypeOK
    <2> QED
      BY <1>3, <2>1, PlaceFacts, HeadFacts, HeadsType DEF Inv
  <1>7. /\ H \in [Places -> Nodes \cup {Null}] /\ H[ClientAt] = next[n]
        /\ \A m \in Places : m # ClientAt => H[m] = Heads[m]
    BY <1>6
  <1> HIDE DEF H
  <1>8. LP!Separate(Places, H, next) /\ LP!NodesOf(next, H[ClientAt]) = Mem(ClientAt) \ {n}
    <2>1. LP!Separate(Places, Heads, next) /\ Heads[ClientAt] # Null /\ H[ClientAt] = next[Heads[ClientAt]]
      BY <1>4, <1>6, <1>7 DEF Inv, Lists
    <2>2. /\ LP!Separate(Places, H, next)
          /\ LP!NodesOf(next, H[ClientAt]) = LP!NodesOf(next, Heads[ClientAt]) \ {Heads[ClientAt]}
      BY <1>6, <1>7, <2>1, LP!SeparateStep, ListsApply
    <2> QED
      BY <1>6, <2>2 DEF Mem
  <1>9. \A m \in Places : m # ClientAt => LP!NodesOf(next, H[m]) = Mem(m)
    BY <1>7 DEF Mem
  <1>10. n \in Mem(ClientAt) /\ \A m \in Places : m # ClientAt => n \notin Mem(m)
    BY <1>4, <1>6, InPlace DEF Inv
  <1>11. \A m \in Places : n \notin LP!NodesOf(next, H[m])
    BY <1>8, <1>9, <1>10
  <1>12. /\ \A p \in Workers : H[Queue(p)] = first[p]
         /\ \A l \in Places : (\A p \in Workers : l # Queue(p)) => Heads'[l] = H[l]
    <2>1. Heads'[Main] = Heads[Main] /\ Heads'[ClientAt] = next[n] /\ \A v \in Workers : Heads'[Batch(v)] = Heads[Batch(v)]
      BY <1>1, <1>4, HeadFacts
    <2>2. \A p \in Workers : H[Queue(p)] = first[p]
      BY <1>6, <1>7, HeadFacts
    <2> QED
      BY <1>7, <2>1, <2>2, PlaceFacts
  <1>13. /\ Lists'
         /\ Mem(Queue(q))' = LP!NodesOf(next, first[q]) \cup {n}
         /\ \A m \in Places : m # Queue(q) => Mem(m)' = LP!NodesOf(next, H[m])
         /\ \A i \in Nodes \ {n} : next[i] # Null => next'[i] = next[i]
    BY <1>4, <1>5, <1>8, <1>11, <1>12, PushNode DEF Inv
  <1>14. /\ Mem(Queue(q))' = Mem(Queue(q)) \cup {n} /\ Mem(ClientAt)' = Mem(ClientAt) \ {n}
         /\ \A m \in Places : m # Queue(q) /\ m # ClientAt => Mem(m)' = Mem(m)
    <2>1. LP!NodesOf(next, first[q]) = Mem(Queue(q))
      BY <1>6, <1>9, <1>12
    <2> QED
      BY <1>6, <1>8, <1>9, <1>13, <2>1
  <1>15. PICK c \in Coros : n = CoroNode(c)
    BY <1>10, NodeFacts DEF Inv, PairsOK
  <1>16. /\ \A s \in Stops, p \in Workers : StopPill(s, p) # n /\ StopNode(s, p) # n
         /\ DtorPill # n
    BY <1>15, NodesDiffer
  <1>17. n \in alive /\ Queue(q) \in Places /\ Queue(q) # ClientAt
    BY <1>6, <1>10 DEF Inv, NodesOK
  <1>18. /\ \A m \in Places : \A i \in Mem(m)' : i \in Mem(m) \/ i = n
         /\ \A m \in Places : \A i \in Mem(m) : i \in Mem(m)' \/ i = n
         /\ \A i : i # n => \A m \in Places : i \in Mem(m)' <=> i \in Mem(m)
    BY <1>14
  <1>19. NodesOK'
    <2>1. \A m \in Places : Mem(m)' \subseteq alive'
      BY <1>1, <1>17, <1>18 DEF Inv, NodesOK
    <2>2. ASSUME NEW d \in Coros, CoroNode(d) \in alive' PROVE \E m \in Places : CoroNode(d) \in Mem(m)'
      <3>1. CASE CoroNode(d) = n
        BY <1>14, <1>17, <3>1
      <3>2. CASE CoroNode(d) # n
        BY <1>1, <1>18, <2>2, <3>2 DEF Inv, NodesOK
      <3> QED
        BY <3>1, <3>2
    <2>3. \A s \in Stops, p \in Workers : StopNode(s, p) \in alive' => \E m \in Places : StopNode(s, p) \in Mem(m)'
      BY <1>1, <1>16, <1>18 DEF Inv, NodesOK
    <2> QED
      BY <1>1, <2>1, <2>2, <2>3 DEF Inv, NodesOK
  <1>20. PairsOK'
    <2>1. \A i \in Mem(ClientAt)' : i[1] = "coro"
      BY <1>14 DEF Inv, PairsOK
    <2>2. ASSUME NEW s \in Stops, NEW p \in Workers, NEW m \in Places
          PROVE  /\ StopPill(s, p) \in Mem(m)' => next'[StopPill(s, p)] = StopNode(s, p)
                 /\ StopNode(s, p) \in Mem(m)' /\ m # Main /\ (\A w \in Workers : m = Batch(w) => wpc'[w] # "cancel")
                      => StopPill(s, p) \in Mem(m)'
      <3>1. /\ StopPill(s, p) \in Mem(m)' <=> StopPill(s, p) \in Mem(m)
            /\ StopNode(s, p) \in Mem(m)' <=> StopNode(s, p) \in Mem(m)
        BY <1>16, <1>18
      <3>2. StopPill(s, p) \in Nodes \ {n} /\ StopNode(s, p) # Null
        BY <1>16, NodeFacts, NullIsNowhere
      <3>3. /\ StopPill(s, p) \in Mem(m) => next[StopPill(s, p)] = StopNode(s, p)
            /\ StopNode(s, p) \in Mem(m) /\ m # Main /\ (\A w \in Workers : m = Batch(w) => wpc[w] # "cancel")
                 => StopPill(s, p) \in Mem(m)
        BY DEF Inv, PairsOK
      <3>4. StopPill(s, p) \in Mem(m)' => next'[StopPill(s, p)] = StopNode(s, p)
        BY <1>13, <3>1, <3>2, <3>3
      <3> QED
        BY <1>1, <3>1, <3>3, <3>4
    <2> QED
      BY <2>1, <2>2 DEF PairsOK
  <1>21. WorkersOK'
    BY <1>1 DEF Inv, WorkersOK, Executing
  <1>22. PoolUsable
    BY <1>1 DEF Inv, OwnerOK
  <1>23. ThreadsOK'
    BY <1>1, <1>22 DEF Inv, ThreadsOK, Joined, PoolUsable
  <1>24. OwnerOK'
    BY <1>1, <1>16, <1>18, <1>22 DEF Inv, OwnerOK, PoolUsable, Early
  <1> QED
    BY <1>5, <1>13, <1>19, <1>20, <1>21, <1>23, <1>24 DEF Inv

LEMMA ClientBeginInv ==
  ASSUME Inv, ClientBegin
  PROVE  Inv'
  <1>1. /\ PoolUsable /\ ctop = Null /\ chash' \in Workers
        /\ UNCHANGED <<first, last, cancelled, jumps, wpc, top, cur, caller, stopq, mpc, mi, mtop, joinable>>
    BY DEF ClientBegin, workerVars, stopVars, mainVars
  <1> DEFINE new == {c \in Coros : coro[c] = "new"}
             Listed(s) == [i \in DOMAIN s |-> CoroNode(s[i])]
  <1>2. PICK s \in DistinctSeqs(new, MaxList) :
          /\ next' = Chained(next, Listed(s))
          /\ alive' = alive \cup {Listed(s)[i] : i \in DOMAIN s}
          /\ ctop' = Listed(s)[1]
          /\ coro' = [c \in Coros |-> IF \E i \in DOMAIN s : s[i] = c THEN "suspended" ELSE coro[c]]
    BY DEF ClientBegin
  <1>3. PICK len \in 1 .. MaxList : s \in [1 .. len -> new] /\ NoRepeats(s)
    BY DEF DistinctSeqs
  <1>4. /\ len \in Nat /\ len >= 1 /\ DOMAIN s = 1 .. len /\ 1 \in 1 .. len
        /\ \A i \in 1 .. len : s[i] \in Coros /\ coro[s[i]] = "new"
    BY <1>3, PoolAssumption
  <1> DEFINE t == Listed(s)
  <1>5. /\ t \in [1 .. len -> Nodes] /\ \A i \in 1 .. len : t[i] = CoroNode(s[i])
    BY <1>4, NodeFacts
  <1>6. /\ next' = Chained(next, t) /\ alive' = alive \cup {t[i] : i \in 1 .. len} /\ ctop' = t[1]
        /\ coro' = [c \in Coros |-> IF \E i \in 1 .. len : s[i] = c THEN "suspended" ELSE coro[c]]
    BY <1>2, <1>4
  <1> HIDE DEF t, new, Listed
  <1>7. t \in Seq(Nodes) /\ Len(t) = len /\ t # <<>> /\ t[1] \in Nodes
    BY <1>4, <1>5
  <1>8. NoRepeats(t)
    <2>1. \A i, j \in 1 .. len : s[i] = s[j] => i = j
      BY <1>3, <1>4 DEF NoRepeats
    <2>2. ASSUME NEW i \in 1 .. len, NEW j \in 1 .. len, t[i] = t[j] PROVE i = j
      BY <1>4, <1>5, <2>1, <2>2, NodesDiffer
    <2> QED
      BY <1>7, <2>2 DEF NoRepeats
  <1> DEFINE X == LP!Members(t)
  <1>9. X = {t[i] : i \in 1 .. len}
    BY <1>7 DEF LP!Members
  <1>10. /\ X \subseteq Nodes /\ \A n \in X : \E c \in Coros : n = CoroNode(c) /\ coro[c] = "new" /\ coro'[c] = "suspended"
    <2>1. ASSUME NEW i \in 1 .. len
          PROVE  t[i] \in Nodes /\ t[i] = CoroNode(s[i]) /\ s[i] \in Coros /\ coro[s[i]] = "new" /\ coro'[s[i]] = "suspended"
      BY <1>4, <1>5, <1>6
    <2> QED
      BY <1>9, <2>1
  <1>11. \A c \in Coros : CoroNode(c) \notin X => coro'[c] = coro[c]
    BY <1>5, <1>6, <1>9
  <1>12. alive' = alive \cup X
    BY <1>6, <1>9
  <1> HIDE DEF X
  <1>13. TypeOK'
    <2>1. next' \in [Nodes -> Nodes \cup {Null}]
      BY <1>6, <1>7 DEF Chained, Inv, TypeOK
    <2>2. coro' \in [Coros -> {"new", "suspended", "running", "done"}]
      BY <1>6 DEF Inv, TypeOK
    <2> QED
      BY <1>1, <1>6, <1>7, <1>10, <1>12, <2>1, <2>2 DEF Inv, TypeOK
  <1>14. \A n \in X : n \notin alive
    BY <1>10 DEF Inv, NodesOK
  <1>15. \A m \in Places : X \cap Mem(m) = {}
    BY <1>14 DEF Inv, NodesOK
  <1>16. /\ Lists' /\ Mem(ClientAt)' = X
         /\ \A m \in Places : m # ClientAt => Mem(m)' = Mem(m)
         /\ \A i \in Nodes \ X : next[i] # Null => next'[i] = next[i]
    BY <1>1, <1>6, <1>7, <1>8, <1>13, <1>15, NewList DEF Inv, X
  <1>17. ClientAt \in Places /\ Mem(ClientAt) = {} /\ Main # ClientAt
    BY <1>1, HeadsAreMembers, PlaceFacts DEF Inv
  <1>18. \A m \in Places : Mem(m) \subseteq Mem(m)' /\ Mem(m)' \subseteq Mem(m) \cup X
    BY <1>16, <1>17
  <1>19. /\ \A r \in Stops, p \in Workers : StopPill(r, p) \notin X /\ StopNode(r, p) \notin X
         /\ DtorPill \notin X
    BY <1>10, NodesDiffer
  <1>20. NodesOK'
    <2>1. \A m \in Places : Mem(m)' \subseteq alive'
      BY <1>12, <1>18 DEF Inv, NodesOK
    <2>2. ASSUME NEW d \in Coros, CoroNode(d) \in alive' PROVE \E m \in Places : CoroNode(d) \in Mem(m)'
      <3>1. CASE CoroNode(d) \in X
        BY <1>16, <1>17, <3>1
      <3>2. CASE CoroNode(d) \notin X
        BY <1>12, <1>18, <2>2, <3>2 DEF Inv, NodesOK
      <3> QED
        BY <3>1, <3>2
    <2>3. ASSUME NEW d \in Coros PROVE CoroNode(d) \in alive' <=> coro'[d] = "suspended"
      <3>1. CASE CoroNode(d) \in X
        <4>1. PICK c \in Coros : CoroNode(d) = CoroNode(c) /\ coro'[c] = "suspended"
          BY <1>10, <3>1
        <4> QED
          BY <1>12, <3>1, <4>1, NodesDiffer
      <3>2. CASE CoroNode(d) \notin X
        BY <1>11, <1>12, <3>2 DEF Inv, NodesOK
      <3> QED
        BY <3>1, <3>2
    <2>4. \A r \in Stops, p \in Workers :
            /\ StopNode(r, p) \in alive' => \E m \in Places : StopNode(r, p) \in Mem(m)'
            /\ StopPill(r, p) \in alive' <=> StopNode(r, p) \in alive'
            /\ StopNode(r, p) \in alive' => p < stopq'[r]
      BY <1>1, <1>12, <1>18, <1>19 DEF Inv, NodesOK
    <2> QED
      BY <2>1, <2>2, <2>3, <2>4 DEF NodesOK
  <1>21. PairsOK'
    <2>1. \A i \in Mem(ClientAt)' : i[1] = "coro"
      BY <1>10, <1>16, NodeFacts
    <2>2. ASSUME NEW r \in Stops, NEW p \in Workers, NEW m \in Places
          PROVE  /\ StopPill(r, p) \in Mem(m)' => next'[StopPill(r, p)] = StopNode(r, p)
                 /\ StopNode(r, p) \in Mem(m)' /\ m # Main /\ (\A w \in Workers : m = Batch(w) => wpc'[w] # "cancel")
                      => StopPill(r, p) \in Mem(m)'
      <3>1. /\ StopPill(r, p) \in Mem(m)' <=> StopPill(r, p) \in Mem(m)
            /\ StopNode(r, p) \in Mem(m)' <=> StopNode(r, p) \in Mem(m)
        BY <1>18, <1>19
      <3>2. StopPill(r, p) \in Nodes \ X /\ StopNode(r, p) # Null
        BY <1>19, NodeFacts, NullIsNowhere
      <3>3. /\ StopPill(r, p) \in Mem(m) => next[StopPill(r, p)] = StopNode(r, p)
            /\ StopNode(r, p) \in Mem(m) /\ m # Main /\ (\A w \in Workers : m = Batch(w) => wpc[w] # "cancel")
                 => StopPill(r, p) \in Mem(m)
        BY DEF Inv, PairsOK
      <3>4. StopPill(r, p) \in Mem(m)' => next'[StopPill(r, p)] = StopNode(r, p)
        BY <1>16, <3>1, <3>2, <3>3
      <3> QED
        BY <1>1, <3>1, <3>3, <3>4
    <2> QED
      BY <2>1, <2>2 DEF PairsOK
  <1>22. WorkersOK'
    <2>1. \A d \in Coros : coro'[d] = "running" <=> coro[d] = "running"
      <3>1. \A d \in Coros : CoroNode(d) \in X => coro[d] = "new" /\ coro'[d] = "suspended"
        BY <1>10, NodesDiffer
      <3> QED
        BY <1>11, <3>1
    <2> QED
      BY <1>1, <2>1 DEF Inv, WorkersOK, Executing
  <1>23. ThreadsOK'
    BY <1>1 DEF Inv, ThreadsOK, Joined
  <1>24. OwnerOK'
    BY <1>1, <1>12, <1>18, <1>19 DEF Inv, OwnerOK, PoolUsable, Early
  <1> QED
    BY <1>13, <1>16, <1>20, <1>21, <1>22, <1>23, <1>24 DEF Inv
-----------------------------------------------------------------------------
LEMMA NextInv == Inv /\ [Next]_vars => Inv'
  <1> SUFFICES ASSUME Inv, [Next]_vars PROVE Inv'
    OBVIOUS
  <1>1. CASE ClientStep
    BY <1>1, ClientBeginInv, ClientAttachInv DEF ClientStep
  <1>2. CASE \E s \in Stops : ClientRequestStop(s) \/ StopStep(s)
    BY <1>2, ClientRequestStopInv, PushDeadpillInv, RequestStopEndInv DEF StopStep
  <1>3. ASSUME NEW w \in Workers, WorkerStep(w) PROVE Inv'
    BY <1>3, WorkerPopInv, WorkerResumeInv, WorkerSwallowPillInv, WorkerCancelInv, WorkerExitInv, CoroFinishInv,
       CoroJumpInv, CoroRequestStopInv DEF WorkerStep
  <1>4. CASE MainStep
    BY <1>4, SpawnInv, SpawnFailsInv, UndoPushInv, UndoJoinInv, UndoEndInv, WaitStopBeginInv, WaitStopJoinInv,
       WaitStopJoinedInv, CancelQueuesPopInv, CancelQueuesDoneInv, MainCancelInv, DtorBeginInv, DtorPushInv,
       DtorSkipInv, DtorJoinInv, DtorDrainedInv, DtorCancelAllInv DEF MainStep
  <1>5. CASE UNCHANGED vars
    <2>1. UNCHANGED <<first, last, next, alive, coro, cancelled, jumps, wpc, top, cur,
                      joinable, caller, stopq, mpc, mi, mtop, ctop, chash>>
      BY <1>5 DEF vars
    <2>2. Lists' /\ NodesOK' /\ PairsOK' /\ \A l \in Places : Mem(l)' = Mem(l)
      BY <2>1, QuietNodes DEF Inv, OwnerOK, NodesOK
    <2>3. TypeOK' /\ WorkersOK' /\ ThreadsOK'
      BY <2>1 DEF Inv, TypeOK, WorkersOK, Executing, ThreadsOK, Joined
    <2>4. OwnerOK'
      BY <2>1, <2>2 DEF Inv, OwnerOK, PoolUsable
    <2> QED
      BY <2>2, <2>3, <2>4 DEF Inv
  <1> QED
    BY <1>1, <1>2, <1>3, <1>4, <1>5 DEF Next, Terminated

\* The inductive invariant holds of every step of the workers, of the posting
\* threads and of the owner that constructs and destroys the pool.
LEMMA InvHolds == Spec => []Inv
  BY InitInv, NextInv, PTL DEF Spec

\* What the invariant says of the lists, in the terms of ThreadPool.
LEMMA InvLists == Inv => ListsAreDisjointAndAlive
  <1> SUFFICES ASSUME Inv PROVE ListsAreDisjointAndAlive
    OBVIOUS
  <1>1. /\ LP!Separate(Places, Heads, next)
        /\ \A q \in Workers : first[q] # Null => last[q] = LP!LastOf(next, first[q])
    BY DEF Inv, Lists
  <1>2. \A l \in Places : Heads[l] = HeadOf(l) /\ NodesOf(next, HeadOf(l)) = Mem(l)
    <2>1. \A l \in Places : Heads[l] = HeadOf(l)
      BY DEF Heads
    <2> QED
      BY <2>1, SameOperators DEF Mem
  <1>3. \A l \in Places : NoRepeats(ListOf(next, HeadOf(l)))
    <2>1. \A l \in Places : LP!NoRepeats(LP!ListOf(next, Heads[l]))
      BY <1>1 DEF LP!Separate, LP!IsChain
    <2> QED
      BY <1>2, <2>1, SameOperators
  <1>4. \A l \in Places : NodesOf(next, HeadOf(l)) \subseteq alive
    BY <1>2 DEF Inv, NodesOK
  <1>5. \A l, m \in Places : l # m => NodesOf(next, HeadOf(l)) \cap NodesOf(next, HeadOf(m)) = {}
    BY <1>2, InPlace DEF Inv
  <1>6. \A q \in Workers : first[q] # Null => last[q] = LastOf(next, first[q])
    BY <1>1, SameOperators
  <1>7. StopJobIsOnlyCancelled
    BY BatchHead DEF StopJobIsOnlyCancelled
  <1> QED
    BY <1>3, <1>4, <1>5, <1>6, <1>7 DEF ListsAreDisjointAndAlive, Occupied

LEMMA InvNothingIsLost == Inv => NothingIsLost
  <1> SUFFICES ASSUME Inv PROVE NothingIsLost
    OBVIOUS
  <1>1. \A l \in Places : NodesOf(next, HeadOf(l)) = Mem(l)
    <2>1. \A l \in Places : Heads[l] = HeadOf(l)
      BY DEF Heads
    <2> QED
      BY <2>1, SameOperators DEF Mem
  <1>2. NothingSuspendedIsForgotten
    <2> DEFINE listed == UNION {NodesOf(next, HeadOf(l)) : l \in Places}
    <2>1. \A n : (\E l \in Places : n \in Mem(l)) => n \in listed
      BY <1>1
    <2> HIDE DEF listed
    <2>2. \A c \in Coros : coro[c] = "suspended" => CoroNode(c) \in listed
      BY <2>1 DEF Inv, NodesOK
    <2>3. \A s \in Stops, q \in Workers : StopNode(s, q) \in alive => StopNode(s, q) \in listed
      BY <2>1 DEF Inv, NodesOK
    <2> QED
      BY <2>2, <2>3 DEF NothingSuspendedIsForgotten, listed
  <1>3. DeadPoolLeavesNothing
    <2> SUFFICES ASSUME mpc = "dead"
                 PROVE  /\ alive = {}
                        /\ \A w \in Workers : first[w] = Null /\ wpc[w] \in {"unborn", "exited"} /\ ~joinable[w]
                        /\ \A c \in Coros : coro[c] \in {"new", "done"}
      BY DEF DeadPoolLeavesNothing
    <2>1. alive = {} /\ \A w \in Workers : first[w] = Null
      BY DEF Inv, OwnerOK
    <2>2. \A w \in Workers : w < NumWorkers + 1
      BY PoolAssumption DEF Workers
    <2>3. \A w \in Workers : ~joinable[w] /\ wpc[w] \in {"unborn", "exited"}
      BY <2>2 DEF Inv, ThreadsOK, Joined
    <2>4. \A c \in Coros : coro[c] # "suspended"
      BY <2>1 DEF Inv, NodesOK
    <2>5. \A c \in Coros : coro[c] # "running"
      BY <2>3 DEF Inv, WorkersOK, Executing
    <2> QED
      BY <2>1, <2>3, <2>4, <2>5 DEF Inv, TypeOK
  <1> QED
    BY <1>2, <1>3 DEF Inv, NothingIsLost
-----------------------------------------------------------------------------
(***************************************************************************)
(* What is in front of a worker: the rest of its batch, then its queue.    *)
(* While the worker is in its loop this line grows behind its end, and the *)
(* worker takes its first node away; nothing else happens to it.           *)
(***************************************************************************)
Line(w)   == LP!ListOf(next, top[w]) \o LP!ListOf(next, first[w])
InLoop(w) == wpc[w] \in {"pop", "batch", "run", "stopping"}
Grows(w)  == /\ Len(Line(w)) <= Len(Line(w)')
             /\ \A i \in 1 .. Len(Line(w)) : Line(w)'[i] = Line(w)[i]

LEMMA LineFacts ==
  ASSUME Inv, NEW w \in Workers
  PROVE  /\ LP!IsChain(next, LP!ListOf(next, top[w])) /\ LP!IsChain(next, LP!ListOf(next, first[w]))
         /\ LP!PointerTo(LP!ListOf(next, top[w])) = top[w]
         /\ LP!PointerTo(LP!ListOf(next, first[w])) = first[w]
         /\ LP!Members(LP!ListOf(next, top[w])) = Mem(Batch(w))
         /\ LP!Members(LP!ListOf(next, first[w])) = Mem(Queue(w))
         /\ LP!ListOf(next, top[w]) \in Seq(Nodes) /\ LP!ListOf(next, first[w]) \in Seq(Nodes)
  <1>1. LP!Separate(Places, Heads, next)
    BY DEF Inv, Lists
  <1>2. /\ Batch(w) \in Places /\ Queue(w) \in Places
        /\ Heads[Batch(w)] = top[w] /\ Heads[Queue(w)] = first[w]
    BY PlaceFacts, HeadFacts
  <1>3. \A l \in Places : /\ LP!IsChain(next, LP!ListOf(next, Heads[l]))
                          /\ Heads[l] = LP!PointerTo(LP!ListOf(next, Heads[l]))
    BY <1>1 DEF LP!Separate
  <1>4. \A l \in Places : LP!Members(LP!ListOf(next, Heads[l])) = Mem(l)
    BY DEF Mem, LP!NodesOf, LP!Members
  <1>5. \A s : LP!IsChain(next, s) => s \in Seq(Nodes)
    BY DEF LP!IsChain
  <1> QED
    BY <1>2, <1>3, <1>4, <1>5

LEMMA LineGrows ==
  ASSUME Inv, Inv', NEW w \in Workers, top'[w] = top[w], first[w] # Null => first'[w] = first[w],
         \A n \in Mem(Batch(w)) : next'[n] = next[n],
         \A n \in Mem(Queue(w)) : next[n] # Null => next'[n] = next[n]
  PROVE  Grows(w)
  <1> DEFINE a == LP!ListOf(next, top[w])
             b == LP!ListOf(next, first[w])
             d == LP!ListOf(next', first'[w])
  <1>1. /\ LP!IsChain(next, a) /\ LP!PointerTo(a) = top[w] /\ LP!Members(a) = Mem(Batch(w)) /\ a \in Seq(Nodes)
        /\ LP!IsChain(next, b) /\ LP!PointerTo(b) = first[w] /\ LP!Members(b) = Mem(Queue(w)) /\ b \in Seq(Nodes)
    BY LineFacts
  <1>2. LP!IsChain(next', d) /\ LP!PointerTo(d) = first'[w] /\ d \in Seq(Nodes)
    <2>1. (LP!Separate(Places, Heads, next))'
      BY DEF Inv, Lists
    <2>2. Queue(w) \in Places /\ Heads'[Queue(w)] = first'[w]
      BY PlaceFacts, HeadFacts
    <2>3. \A l \in Places : /\ LP!IsChain(next', LP!ListOf(next', Heads'[l]))
                            /\ Heads'[l] = LP!PointerTo(LP!ListOf(next', Heads'[l]))
      BY <2>1 DEF LP!Separate
    <2> QED
      BY <2>2, <2>3 DEF LP!IsChain
  <1>3. LP!ListOf(next', top'[w]) = a
    <2>1. LP!IsChain(next', a)
      BY <1>1, LP!ChainKept, ListsApply
    <2> QED
      BY <1>1, <2>1, LP!ListOfChain, ListsApply
  <1>4. Line(w) = a \o b /\ Line(w)' = a \o d
    BY <1>3 DEF Line
  <1> HIDE DEF a, b, d
  <1>5. Len(b) <= Len(d) /\ \A i \in 1 .. Len(b) : d[i] = b[i]
    <2>1. CASE b = <<>>
      BY <1>2, <2>1
    <2>2. CASE b # <<>>
      <3>1. first[w] # Null
        BY <1>1, <2>2, LP!PointerIsNull, ListsApply
      <3>2. LP!PointerTo(d) = LP!PointerTo(b)
        BY <1>1, <1>2, <3>1
      <3>3. \A n \in LP!Members(b) : next[n] # Null => next'[n] = next[n]
        BY <1>1
      <3> QED
        BY <1>1, <1>2, <2>2, <3>2, <3>3, LP!ListGrows, ListsApply
    <2> QED
      BY <2>1, <2>2
  <1>6. Len(a) \in Nat /\ Len(b) \in Nat /\ Len(d) \in Nat
    BY <1>1, <1>2
  <1>7. Len(a \o b) = Len(a) + Len(b) /\ Len(a \o d) = Len(a) + Len(d)
    BY <1>1, <1>2
  <1>8. ASSUME NEW i \in 1 .. Len(a \o b) PROVE (a \o d)[i] = (a \o b)[i]
    <2>1. CASE i <= Len(a)
      BY <1>1, <1>2, <1>6, <1>7, <2>1
    <2>2. CASE ~(i <= Len(a))
      <3>1. i - Len(a) \in 1 .. Len(b) /\ i - Len(a) \in 1 .. Len(d)
        BY <1>5, <1>6, <1>7, <2>2
      <3>2. (a \o b)[i] = b[i - Len(a)] /\ (a \o d)[i] = d[i - Len(a)]
        BY <1>1, <1>2, <1>5, <1>6, <1>7, <2>2
      <3> QED
        BY <1>5, <3>1, <3>2
    <2> QED
      BY <2>1, <2>2
  <1> QED
    BY <1>4, <1>5, <1>6, <1>7, <1>8 DEF Grows

LEMMA QuietGrows ==
  ASSUME Inv, NEW w \in Workers, UNCHANGED <<first, next, top>>
  PROVE  Grows(w)
  <1>1. Line(w) \in Seq(Nodes) /\ Line(w)' = Line(w)
    BY LineFacts DEF Line
  <1> QED
    BY <1>1 DEF Grows

\* push_list of nodes N that are in no queue and no batch.
LEMMA PushGrows ==
  ASSUME Inv, Inv', NEW q \in Workers, NEW f, NEW l, NEW mem \in [Nodes -> Nodes \cup {Null}],
         PushList(q, f, l, mem), NEW N, \A n \in Nodes : n \notin N => mem[n] = next[n],
         \A v \in Workers : \A n \in N : n \notin Mem(Queue(v)) /\ n \notin Mem(Batch(v)),
         UNCHANGED top, NEW w \in Workers
  PROVE  Grows(w)
  <1>1. /\ first[w] # Null => first'[w] = first[w]
        /\ next' = IF first[q] = Null THEN mem ELSE [mem EXCEPT ![last[q]] = f]
    BY DEF PushList, Inv, TypeOK
  <1>2. first[q] # Null => last[q] \in Mem(Queue(q)) /\ next[last[q]] = Null
    <2>1. LP!Separate(Places, Heads, next) /\ Queue(q) \in Places /\ Heads[Queue(q)] = first[q]
      BY PlaceFacts, HeadFacts DEF Inv, Lists
    <2>2. first[q] # Null => last[q] = LP!LastOf(next, first[q])
      BY DEF Inv, Lists
    <2> QED
      BY <2>1, <2>2, LP!InList, ListsApply DEF Mem
  <1>3. Queue(q) \in Places /\ Queue(w) \in Places /\ Batch(w) \in Places /\ Queue(q) # Batch(w)
    BY PlaceFacts
  <1>4. Mem(Queue(w)) \subseteq Nodes /\ Mem(Batch(w)) \subseteq Nodes /\ Mem(Queue(q)) \cap Mem(Batch(w)) = {}
    BY <1>3, InPlace DEF Inv
  <1>5. ASSUME NEW n \in Nodes, n \notin N, first[q] # Null => n # last[q] PROVE next'[n] = next[n]
    BY <1>1, <1>5
  <1>6. \A n \in Mem(Batch(w)) : next'[n] = next[n]
    BY <1>2, <1>4, <1>5
  <1>7. \A n \in Mem(Queue(w)) : next[n] # Null => next'[n] = next[n]
    BY <1>2, <1>4, <1>5
  <1> QED
    BY <1>1, <1>6, <1>7, LineGrows

\* push of one node.
LEMMA PushNodeGrows ==
  ASSUME Inv, Inv', NEW q \in Workers, NEW n \in Nodes, Push(q, n), UNCHANGED top,
         \A v \in Workers : n \notin Mem(Queue(v)) /\ n \notin Mem(Batch(v)), NEW w \in Workers
  PROVE  Grows(w)
  <1> DEFINE mem == [next EXCEPT ![n] = Null]
             N == {n}
  <1>1. /\ mem \in [Nodes -> Nodes \cup {Null}] /\ \A k \in Nodes : k \notin N => mem[k] = next[k]
        /\ \A v \in Workers : \A k \in N : k \notin Mem(Queue(v)) /\ k \notin Mem(Batch(v))
    BY DEF Inv, TypeOK
  <1>2. PushList(q, n, n, mem)
    BY DEF Push
  <1> HIDE DEF mem, N
  <1> QED
    BY <1>1, <1>2, PushGrows

\* A line that grows keeps its front.
LEMMA StaysAhead ==
  ASSUME Inv, NEW w \in Workers, NEW c \in Coros, AheadOfPill(c, w), Grows(w), InLoop(w)'
  PROVE  AheadOfPill(c, w)'
  <1> DEFINE s == Line(w)
             t == Line(w)'
  <1>1. /\ ListOf(next, top[w]) \o ListOf(next, first[w]) = s
        /\ ListOf(next', top'[w]) \o ListOf(next', first'[w]) = t
    BY SameOperators DEF Line
  <1>2. Len(s) \in Nat
    <2>1. s \in Seq(Nodes)
      BY LineFacts DEF Line
    <2> QED
      BY <2>1
  <1>3. PICK i \in 1 .. Len(s) : s[i] = CoroNode(c) /\ \A j \in 1 .. i - 1 : ~IsPill(s[j])
    BY <1>1 DEF AheadOfPill
  <1>4. Len(s) <= Len(t) /\ \A j \in 1 .. Len(s) : t[j] = s[j]
    BY DEF Grows
  <1> HIDE DEF s, t
  <1>5. i \in 1 .. Len(t) /\ t[i] = CoroNode(c) /\ \A j \in 1 .. i - 1 : ~IsPill(t[j])
    BY <1>2, <1>3, <1>4
  <1> QED
    BY <1>1, <1>5 DEF AheadOfPill, InLoop

\* Who was attached, or is the pill of the owner, is in no queue or batch yet.
LEMMA DeadIsUnlisted ==
  ASSUME Inv, NEW n, n \notin alive
  PROVE  \A v \in Workers : n \notin Mem(Queue(v)) /\ n \notin Mem(Batch(v))
  BY PlaceFacts DEF Inv, NodesOK

LEMMA ClientBeginGrows ==
  ASSUME Inv, Inv', ClientBegin, NEW w \in Workers
  PROVE  Grows(w)
  <1>1. PICK s \in DistinctSeqs({c \in Coros : coro[c] = "new"}, MaxList) :
          next' = Chained(next, [i \in DOMAIN s |-> CoroNode(s[i])])
    BY DEF ClientBegin
  <1>2. UNCHANGED <<first, last, top>>
    BY DEF ClientBegin, workerVars
  <1>3. \A i \in 1 .. Len(s) : s[i] \in Coros /\ coro[s[i]] = "new"
    BY <1>1 DEF DistinctSeqs
  <1>4. DOMAIN s = 1 .. Len(s) /\ Len(s) \in Nat
    BY <1>1, PoolAssumption DEF DistinctSeqs
  <1> DEFINE t == [i \in DOMAIN s |-> CoroNode(s[i])]
  <1>5. Len(t) = Len(s) /\ \A i \in 1 .. Len(t) : t[i] = CoroNode(s[i])
    BY <1>4
  <1>6. \A i \in 1 .. Len(t) : t[i] \notin alive
    BY <1>3, <1>5 DEF Inv, NodesOK
  <1> HIDE DEF t
  <1>7. \A n \in Nodes : (\A i \in 1 .. Len(t) : t[i] # n) => next'[n] = next[n]
    BY <1>1 DEF Chained, t
  <1>8. ASSUME NEW n \in Nodes, n \in alive PROVE next'[n] = next[n]
    BY <1>6, <1>7, <1>8
  <1>9. \A n \in Mem(Queue(w)) \cup Mem(Batch(w)) : n \in Nodes /\ n \in alive
    BY PlaceFacts, InPlace DEF Inv, NodesOK
  <1> QED
    BY <1>2, <1>8, <1>9, LineGrows

LEMMA ClientAttachGrows ==
  ASSUME Inv, Inv', ClientAttach, NEW w \in Workers
  PROVE  Grows(w)
  <1>1. ctop \in Nodes /\ Push(chash, ctop) /\ chash \in Workers /\ UNCHANGED top /\ ctop # Null
    BY DEF ClientAttach, workerVars, Inv, TypeOK
  <1>2. ctop \in Mem(ClientAt)
    BY <1>1, HeadsAreMembers DEF Inv
  <1>3. \A v \in Workers : ctop \notin Mem(Queue(v)) /\ ctop \notin Mem(Batch(v))
    BY <1>2, PlaceFacts, InPlace DEF Inv
  <1> QED
    BY <1>1, <1>3, PushNodeGrows

LEMMA PushDeadpillGrows ==
  ASSUME Inv, Inv', NEW s \in Stops, PushDeadpill(s), NEW w \in Workers
  PROVE  Grows(w)
  <1> DEFINE q == stopq[s]
             n == StopPill(s, q)
             k == StopNode(s, q)
             mem == Chained(next, <<n, k>>)
             N == {n, k}
  <1>1. q \in Workers /\ q = stopq[s] /\ UNCHANGED top
    BY PoolAssumption DEF PushDeadpill, Inv, TypeOK, Workers, workerVars
  <1>2. PushList(q, n, k, mem)
    BY DEF PushDeadpill
  <1>3. n \in Nodes /\ k \in Nodes
    BY <1>1, NodeFacts
  <1>4. n \notin alive /\ k \notin alive
    <2>1. ~(q < stopq[s])
      BY <1>1 DEF Workers
    <2> HIDE DEF q
    <2> QED
      BY <1>1, <2>1 DEF Inv, NodesOK
  <1> HIDE DEF q, n, k
  <1>5. /\ Len(<<n, k>>) = 2 /\ 1 .. 2 = {1, 2} /\ <<n, k>>[1] = n /\ <<n, k>>[2] = k
    OBVIOUS
  <1>6. \A i \in Nodes : i \notin N => mem[i] = next[i]
    BY <1>5 DEF Chained
  <1>7. mem \in [Nodes -> Nodes \cup {Null}]
    BY <1>3, <1>5 DEF Chained, Inv, TypeOK
  <1>8. \A v \in Workers : \A i \in N : i \notin Mem(Queue(v)) /\ i \notin Mem(Batch(v))
    BY <1>4, DeadIsUnlisted
  <1> HIDE DEF mem, N
  <1> QED
    BY <1>1, <1>2, <1>6, <1>7, <1>8, PushGrows

LEMMA CoroJumpGrows ==
  ASSUME Inv, Inv', NEW v \in Workers, CoroJump(v), NEW w \in Workers
  PROVE  Grows(w)
  <1> DEFINE n == CoroNode(cur[v])
  <1>1. UNCHANGED top /\ wpc[v] = "run" /\ \E q \in Workers : Push(q, n)
    BY DEF CoroJump
  <1>2. cur[v] \in Coros /\ coro[cur[v]] = "running"
    BY <1>1 DEF Inv, WorkersOK, Executing
  <1>3. n \in Nodes /\ n \notin alive
    BY <1>2, NodeFacts DEF Inv, NodesOK
  <1> HIDE DEF n
  <1>4. \A u \in Workers : n \notin Mem(Queue(u)) /\ n \notin Mem(Batch(u))
    BY <1>3, DeadIsUnlisted
  <1> QED
    BY <1>1, <1>3, <1>4, PushNodeGrows

\* The owner pushes its pill: into the queue of a worker that it will join.
LEMMA OwnerPushGrows ==
  ASSUME Inv, Inv', UndoPush \/ DtorPush, NEW w \in Workers
  PROVE  Grows(w)
  <1>1. mpc \in {"undo", "dtor"} /\ Push(mi, DtorPill) /\ UNCHANGED top
    BY DEF UndoPush, DtorPush, workerVars
  <1>2. mi \in Workers
    <2>1. CASE UndoPush
      BY <1>1, <2>1, PoolAssumption DEF UndoPush, Inv, TypeOK, ThreadsOK, Workers
    <2>2. CASE DtorPush
      BY <2>2, PoolAssumption DEF DtorPush, Inv, TypeOK, Workers
    <2> QED
      BY <2>1, <2>2
  <1>3. DtorPill \in Nodes
    BY NodeFacts
  <1>4. \A l \in Places : DtorPill \notin Mem(l)
    BY <1>1 DEF Inv, OwnerOK
  <1>5. \A u \in Workers : DtorPill \notin Mem(Queue(u)) /\ DtorPill \notin Mem(Batch(u))
    BY <1>4, PlaceFacts
  <1> QED
    BY <1>1, <1>2, <1>3, <1>5, PushNodeGrows

\* The worker takes the queue as its batch: the line is the same.
LEMMA WorkerPopGrows ==
  ASSUME Inv, Inv', NEW w \in Workers, WorkerPop(w)
  PROVE  Grows(w)
  <1>1. /\ wpc[w] = "pop" /\ top'[w] = first[w] /\ first'[w] = Null /\ next' = next
    BY DEF WorkerPop, Inv, TypeOK
  <1>2. top[w] = Null
    BY <1>1 DEF Inv, WorkersOK
  <1>3. LP!ListOf(next, Null) = <<>>
    BY LP!EmptyChain, LP!ListOfChain, ListsApply
  <1>4. LP!ListOf(next, first[w]) \in Seq(Nodes)
    BY LineFacts
  <1>5. Line(w)' = Line(w) /\ Line(w) \in Seq(Nodes)
    BY <1>1, <1>2, <1>3, <1>4 DEF Line
  <1> QED
    BY <1>5 DEF Grows

\* The worker takes the first node of the line, and executes it.
LEMMA WorkerResumeAhead ==
  ASSUME Inv, NEW w \in Workers, WorkerResume(w), NEW c \in Coros, AheadOfPill(c, w)
  PROVE  AheadOfPill(c, w)' \/ coro'[c] = "running"
  <1> DEFINE a == LP!ListOf(next, top[w])
             b == LP!ListOf(next, first[w])
             s == Line(w)
             t == Line(w)'
  <1>1. /\ wpc[w] = "batch" /\ top'[w] = next[top[w]] /\ first' = first /\ next' = next
        /\ ~IsPill(top[w]) /\ top[w] # Null
    BY DEF WorkerResume, Inv, TypeOK
  <1>2. PICK d \in Coros : top[w] = CoroNode(d)
    BY <1>1, BatchHead
  <1>3. top[w][1] = "coro" /\ top[w][2] = d
    BY <1>2 DEF CoroNode
  <1>4. coro'[d] = "running" /\ wpc'[w] = "run"
    BY <1>3 DEF WorkerResume, Inv, TypeOK
  <1>5. /\ LP!IsChain(next, a) /\ LP!PointerTo(a) = top[w] /\ a \in Seq(Nodes) /\ b \in Seq(Nodes)
    BY LineFacts
  <1>6. a # <<>>
    BY <1>1, <1>5, LP!PointerIsNull, ListsApply
  <1>7. a[1] = top[w]
    BY <1>5, <1>6 DEF LP!PointerTo
  <1>8. LP!ListOf(next', top'[w]) = Tail(a)
    <2>1. LP!IsChain(next, Tail(a)) /\ LP!PointerTo(Tail(a)) = next[top[w]]
      BY <1>5, <1>6, LP!TailChain, ListsApply
    <2> QED
      BY <1>1, <2>1, LP!ListOfChain, ListsApply
  <1>9. s = a \o b /\ t = Tail(a) \o b
    BY <1>1, <1>8 DEF Line
  <1>10. /\ ListOf(next, top[w]) \o ListOf(next, first[w]) = s
         /\ ListOf(next', top'[w]) \o ListOf(next', first'[w]) = t
    BY SameOperators DEF Line
  <1>11. PICK i \in 1 .. Len(s) : s[i] = CoroNode(c) /\ \A j \in 1 .. i - 1 : ~IsPill(s[j])
    BY <1>10 DEF AheadOfPill
  <1> HIDE DEF a, b, s, t
  <1>12. /\ Len(s) \in Nat \ {0} /\ s[1] = top[w] /\ Len(t) = Len(s) - 1
         /\ \A j \in 1 .. Len(t) : t[j] = s[j + 1]
    <2>1. /\ Len(a) \in Nat \ {0} /\ Len(b) \in Nat /\ Tail(a) \in Seq(Nodes) /\ Len(Tail(a)) = Len(a) - 1
          /\ \A j \in 1 .. Len(a) - 1 : Tail(a)[j] = a[j + 1]
      BY <1>5, <1>6
    <2>2. Len(a \o b) = Len(a) + Len(b) /\ Len(Tail(a) \o b) = Len(a) - 1 + Len(b)
      BY <1>5, <2>1
    <2>3. ASSUME NEW j \in 1 .. Len(a) - 1 + Len(b) PROVE (Tail(a) \o b)[j] = (a \o b)[j + 1]
      <3>1. CASE j <= Len(a) - 1
        <4>1. (Tail(a) \o b)[j] = Tail(a)[j] /\ (a \o b)[j + 1] = a[j + 1]
          BY <1>5, <2>1, <3>1
        <4> QED
          BY <2>1, <3>1, <4>1
      <3>2. CASE ~(j <= Len(a) - 1)
        <4>1. (Tail(a) \o b)[j] = b[j - (Len(a) - 1)] /\ (a \o b)[j + 1] = b[j + 1 - Len(a)]
          BY <1>5, <2>1, <3>2
        <4>2. j - (Len(a) - 1) = j + 1 - Len(a)
          BY <2>1
        <4> QED
          BY <4>1, <4>2
      <3> QED
        BY <3>1, <3>2
    <2>4. (a \o b)[1] = a[1]
      BY <1>5, <2>1
    <2> QED
      BY <1>7, <1>9, <2>1, <2>2, <2>3, <2>4
  <1>13. CASE i = 1
    <2>1. CoroNode(c) = CoroNode(d)
      BY <1>2, <1>11, <1>12, <1>13
    <2> QED
      BY <1>4, <2>1, NodesDiffer
  <1>14. CASE i # 1
    <2>1. i - 1 \in 1 .. Len(t) /\ t[i - 1] = CoroNode(c)
      BY <1>11, <1>12, <1>14
    <2>2. ASSUME NEW j \in 1 .. (i - 1) - 1 PROVE ~IsPill(t[j])
      <3>1. j + 1 \in 1 .. i - 1 /\ j \in 1 .. Len(t)
        BY <1>11, <1>12
      <3> QED
        BY <1>11, <1>12, <3>1
    <2> QED
      BY <1>4, <1>10, <2>1, <2>2 DEF AheadOfPill
  <1> QED
    BY <1>13, <1>14

\* At a pill nobody is ahead of it.
LEMMA PillIsFirst ==
  ASSUME Inv, NEW w \in Workers, wpc[w] = "batch", IsPill(top[w]), NEW c \in Coros, AheadOfPill(c, w)
  PROVE  FALSE
  <1> DEFINE a == LP!ListOf(next, top[w])
             b == LP!ListOf(next, first[w])
             s == Line(w)
  <1>1. top[w] # Null
    BY DEF Inv, TypeOK
  <1>2. LP!IsChain(next, a) /\ LP!PointerTo(a) = top[w] /\ a \in Seq(Nodes) /\ b \in Seq(Nodes)
    BY LineFacts
  <1>3. a # <<>>
    BY <1>1, <1>2, LP!PointerIsNull, ListsApply
  <1>4. a[1] = top[w] /\ s = a \o b /\ ListOf(next, top[w]) \o ListOf(next, first[w]) = s
    BY <1>2, <1>3, SameOperators DEF LP!PointerTo, Line
  <1>5. PICK i \in 1 .. Len(s) : s[i] = CoroNode(c) /\ \A j \in 1 .. i - 1 : ~IsPill(s[j])
    BY <1>4 DEF AheadOfPill
  <1> HIDE DEF a, b, s
  <1>6. s[1] = top[w] /\ Len(s) \in Nat
    BY <1>2, <1>3, <1>4
  <1>7. i = 1
    BY <1>5, <1>6
  <1>8. ~IsPill(CoroNode(c))
    BY NodeFacts DEF IsPill
  <1> QED
    BY <1>5, <1>6, <1>7, <1>8

\* The lists of other threads do not matter to w, and neither does what the
\* owner drains: w has ended by then.
LEMMA OthersGrow ==
  ASSUME Inv, Inv', NEW w \in Workers, InLoop(w), UNCHANGED next,
         \/ \E v \in Workers : v # w /\ (WorkerPop(v) \/ WorkerResume(v) \/ WorkerSwallowPill(v))
         \/ \E v \in Workers : WorkerCancel(v)
         \/ CancelQueuesPop \/ DtorJoin
  PROVE  Grows(w)
  <1>1. top'[w] = top[w] /\ first'[w] = first[w]
    <2>1. ASSUME NEW v \in Workers, v # w, WorkerPop(v) \/ WorkerResume(v) \/ WorkerSwallowPill(v)
          PROVE  top'[w] = top[w] /\ first'[w] = first[w]
      BY <2>1 DEF WorkerPop, WorkerResume, WorkerSwallowPill, queueVars, Inv, TypeOK
    <2>2. ASSUME NEW v \in Workers, WorkerCancel(v) PROVE top'[w] = top[w] /\ first'[w] = first[w]
      BY <2>2 DEF WorkerCancel, InLoop, Inv, TypeOK
    <2>3. ASSUME CancelQueuesPop PROVE FALSE
      <3>1. w < NumWorkers + 1
        BY PoolAssumption DEF Workers
      <3> QED
        BY <2>3, <3>1 DEF CancelQueuesPop, InLoop, Inv, ThreadsOK, Joined
    <2>4. ASSUME DtorJoin PROVE top'[w] = top[w] /\ first'[w] = first[w]
      BY <2>4 DEF DtorJoin, PopAll, InLoop, workerVars, Inv, TypeOK
    <2> QED
      BY <2>1, <2>2, <2>3, <2>4
  <1> QED
    BY <1>1, LineGrows

LEMMA ClientAhead ==
  ASSUME Inv, Inv', NEW w \in Workers, InLoop(w),
         ClientStep \/ \E s \in Stops : ClientRequestStop(s) \/ StopStep(s)
  PROVE  Grows(w) /\ InLoop(w)'
  <1>1. CASE ClientStep
    BY <1>1, ClientBeginGrows, ClientAttachGrows
    DEF ClientStep, ClientBegin, ClientAttach, workerVars, InLoop
  <1>2. ASSUME NEW s \in Stops, ClientRequestStop(s) PROVE Grows(w) /\ InLoop(w)'
    BY <1>2, QuietGrows DEF ClientRequestStop, RequestStopBegin, workerVars, queueVars, InLoop
  <1>3. ASSUME NEW s \in Stops, PushDeadpill(s) PROVE Grows(w) /\ InLoop(w)'
    BY <1>3, PushDeadpillGrows DEF PushDeadpill, workerVars, InLoop
  <1>4. ASSUME NEW s \in Stops, RequestStopEnd(s) PROVE Grows(w) /\ InLoop(w)'
    BY <1>4, QuietGrows DEF RequestStopEnd, workerVars, queueVars, InLoop, Inv, TypeOK
  <1> QED
    BY <1>1, <1>2, <1>3, <1>4 DEF StopStep

LEMMA WorkerAhead ==
  ASSUME Inv, Inv', NEW w \in Workers, NEW c \in Coros, AheadOfPill(c, w), NEW v \in Workers, WorkerStep(v)
  PROVE  AheadOfPill(c, w)' \/ coro'[c] = "running"
  <1>0. InLoop(w)
    BY DEF AheadOfPill, InLoop
  <1>1. CASE WorkerPop(v)
    <2>1. InLoop(w)' /\ UNCHANGED next
      BY <1>0, <1>1 DEF WorkerPop, InLoop, Inv, TypeOK
    <2>2. Grows(w)
      BY <1>0, <1>1, <2>1, OthersGrow, WorkerPopGrows
    <2> QED
      BY <2>1, <2>2, StaysAhead
  <1>2. CASE WorkerResume(v)
    <2>1. CASE v = w
      BY <1>2, <2>1, WorkerResumeAhead
    <2>2. CASE v # w
      <3>1. InLoop(w)' /\ UNCHANGED next
        BY <1>0, <1>2, <2>2 DEF WorkerResume, InLoop, Inv, TypeOK
      <3>2. Grows(w)
        BY <1>0, <1>2, <2>2, <3>1, OthersGrow
      <3> QED
        BY <3>1, <3>2, StaysAhead
    <2> QED
      BY <2>1, <2>2
  <1>3. CASE WorkerSwallowPill(v)
    <2>1. v # w
      BY <1>3, PillIsFirst DEF WorkerSwallowPill
    <2>2. InLoop(w)' /\ UNCHANGED next
      BY <1>0, <1>3, <2>1 DEF WorkerSwallowPill, queueVars, InLoop, Inv, TypeOK
    <2>3. Grows(w)
      BY <1>0, <1>3, <2>1, <2>2, OthersGrow
    <2> QED
      BY <2>2, <2>3, StaysAhead
  <1>4. CASE WorkerCancel(v)
    <2>1. InLoop(w)' /\ UNCHANGED next
      BY <1>0, <1>4 DEF WorkerCancel, InLoop
    <2>2. Grows(w)
      BY <1>0, <1>4, <2>1, OthersGrow
    <2> QED
      BY <2>1, <2>2, StaysAhead
  <1>5. CASE WorkerExit(v) \/ CoroFinish(v) \/ \E s \in Stops : CoroRequestStop(v, s)
    <2>1. UNCHANGED <<first, next, top>>
      BY <1>5 DEF WorkerExit, CoroFinish, CoroRequestStop, RequestStopBegin, queueVars
    <2>2. InLoop(w)'
      BY <1>0, <1>5 DEF WorkerExit, CoroFinish, CoroRequestStop, BackToLoop, InLoop, Inv, TypeOK
    <2> QED
      BY <2>1, <2>2, QuietGrows, StaysAhead
  <1>6. CASE CoroJump(v)
    <2>1. InLoop(w)'
      BY <1>0, <1>6 DEF CoroJump, BackToLoop, InLoop, Inv, TypeOK
    <2> QED
      BY <1>6, <2>1, CoroJumpGrows, StaysAhead
  <1> QED
    BY <1>1, <1>2, <1>3, <1>4, <1>5, <1>6 DEF WorkerStep

LEMMA MainAhead ==
  ASSUME Inv, Inv', NEW w \in Workers, InLoop(w), MainStep
  PROVE  Grows(w) /\ InLoop(w)'
  <1>1. CASE Spawn
    BY <1>1, QuietGrows DEF Spawn, queueVars, InLoop, Inv, TypeOK
  <1>2. CASE UndoPush \/ DtorPush
    BY <1>2, OwnerPushGrows DEF UndoPush, DtorPush, workerVars, InLoop
  <1>3. CASE CancelQueuesPop \/ DtorJoin
    <2>1. UNCHANGED <<next, wpc>>
      BY <1>3 DEF CancelQueuesPop, DtorJoin, workerVars
    <2>2. Grows(w)
      BY <1>3, <2>1, OthersGrow
    <2> QED
      BY <2>1, <2>2 DEF InLoop
  <1>4. CASE SpawnFails \/ UndoJoin \/ UndoEnd \/ WaitStopBegin \/ WaitStopJoin \/ WaitStopJoined
    <2>1. UNCHANGED <<first, next, top, wpc>>
      BY <1>4 DEF SpawnFails, UndoJoin, UndoEnd, WaitStopBegin, WaitStopJoin, WaitStopJoined,
                  queueVars, workerVars
    <2> QED
      BY <2>1, QuietGrows DEF InLoop
  <1>5. CASE CancelQueuesDone \/ MainCancel \/ DtorBegin \/ DtorSkip \/ DtorDrained \/ DtorCancelAll
    <2>1. UNCHANGED <<first, next, top, wpc>>
      BY <1>5 DEF CancelQueuesDone, MainCancel, DtorBegin, DtorSkip, DtorDrained, DtorCancelAll,
                  queueVars, workerVars
    <2> QED
      BY <2>1, QuietGrows DEF InLoop
  <1> QED
    BY <1>1, <1>2, <1>3, <1>4, <1>5 DEF MainStep

LEMMA StepAhead ==
  ASSUME Inv, Inv', [Next]_vars, NEW c \in Coros, NEW w \in Workers, AheadOfPill(c, w)
  PROVE  AheadOfPill(c, w)' \/ coro'[c] = "running"
  <1>0. InLoop(w)
    BY DEF AheadOfPill, InLoop
  <1>1. CASE ClientStep \/ \E s \in Stops : ClientRequestStop(s) \/ StopStep(s)
    BY <1>0, <1>1, ClientAhead, StaysAhead
  <1>2. CASE \E v \in Workers : WorkerStep(v)
    BY <1>2, WorkerAhead
  <1>3. CASE MainStep
    BY <1>0, <1>3, MainAhead, StaysAhead
  <1>4. CASE UNCHANGED vars
    <2>1. UNCHANGED <<first, next, top, wpc>>
      BY <1>4 DEF vars
    <2>2. InLoop(w)'
      BY <1>0, <2>1 DEF InLoop
    <2> QED
      BY <2>1, <2>2, QuietGrows, StaysAhead
  <1> QED
    BY <1>1, <1>2, <1>3, <1>4 DEF Next, Terminated
-----------------------------------------------------------------------------
(***************************************************************************)
(* The lists of the pool are never broken, whatever workers, coroutines,   *)
(* stop requests and the owner do to them: the intrusive task_node lists   *)
(* of thread_pool.hpp stay acyclic and disjoint and hold only live nodes,  *)
(* and a job that pushed a dead pill is only ever resumed as cancelled     *)
(* (the assertion in deadpill_pusher::await_resume).                       *)
(***************************************************************************)
THEOREM PoolListsAreSafe == Spec => []ListsAreDisjointAndAlive
  BY InvHolds, InvLists, PTL

(***************************************************************************)
(* A coroutine suspended on the pool, or a pending push_deadpill job, is   *)
(* always in a list somebody will walk, and when ~thread_pool (or the      *)
(* constructor that failed) is over no thread, node or suspended coroutine *)
(* is left.                                                                *)
(***************************************************************************)
THEOREM PoolLosesNothing == Spec => []NothingIsLost
  BY InvHolds, InvNothingIsLost, PTL

(***************************************************************************)
(* A worker job executes "tasks from queue until got task_node::deadpill": *)
(* what waits in front of the first pill is executed, and no stop request, *)
(* join, destructor step or other worker takes it away, lets a pill in in  *)
(* front of it or has it cancelled.                                        *)
(***************************************************************************)
THEOREM PillsStopOnlyWhatFollows == Spec => TasksAheadOfPillAreExecuted
  <1>1. Inv /\ Inv' /\ [Next]_vars =>
          [\A c \in Coros, w \in Workers :
             AheadOfPill(c, w) => AheadOfPill(c, w)' \/ coro'[c] = "running"]_vars
    BY StepAhead
  <1> QED
    BY <1>1, InvHolds, PTL DEF Spec, TasksAheadOfPillAreExecuted
=============================================================================
