---------------------------- MODULE StackResource ----------------------------
(***************************************************************************)
(* stack_resource (stack_memory_resource.hpp): memory for coroutine frames *)
(* that are freed in the reverse order of their allocation.  It uses the   *)
(* buffer it is given, then chunks of the heap, which it chains through    *)
(* their headers while they are in use and keeps in a freelist afterwards. *)
(* A pointer is a pair of a chunk and an offset; 0 is the initial buffer.  *)
(*                                                                         *)
(* Its users are the operators new and delete of promises with a resource  *)
(* (overload_new_delete of memory_support.hpp), which keep the resource,   *)
(* here a chunk_from, behind the frame and find it there again.            *)
(***************************************************************************)
EXTENDS Integers, Sequences, FiniteSets, SequencesExt

CONSTANTS Align,     \* coroframe_align()
          Initial,   \* size of the initial buffer, aligned
          Sizes,     \* sizes of coroutine frames
          AlignOfR, SizeOfR, \* of the resource behind a frame
          MaxLive, MaxChunks \* bounds

ConstantsAreSane ==
  /\ Align \in Nat \ {0} /\ Initial \in Nat /\ Initial % Align = 0
  /\ AlignOfR \in Nat \ {0} /\ Align % AlignOfR = 0 /\ SizeOfR \in Nat \ {0}
  /\ Sizes \subseteq Nat \ {0} /\ MaxLive \in Nat /\ MaxChunks \in Nat

VARIABLES cur,      \* b, m, e: [c: the chunk, m: offset of the free part]
          hdr,      \* chunk_header of each chunk of the heap: the b, m, e of the
                    \* chunk before it or, in the freelist, its own
          cap,      \* capacity of each chunk
          freelist, \* its chunks from top
          heap,     \* chunks that are new'd and not deleted
          live,     \* the frames that are alive, oldest first
          pc,       \* idle, deallocate, reuse_memory, ~stack_resource, destroyed
          arg,      \* what deallocate is called for
          kept      \* what reuse_memory has left in use of the initial buffer

vars == <<cur, hdr, cap, freelist, heap, live, pc, arg, kept>>

Chunks  == 1 .. MaxChunks
At(c, m)   == [c |-> c, m |-> m]
Nowhere == [c |-> 0, m |-> 0, size |-> 0]

RoundUp(n, a) == ((n + a - 1) \div a) * a
Aligned(len)  == RoundUp(len, Align)

\* Where new puts the resource of a frame and delete looks for it, and how
\* many bytes they allocate and deallocate.
OnFrame(size)    == RoundUp(size, AlignOfR)
FrameBytes(size) == OnFrame(size) + SizeOfR

Init == /\ cur = At(0, 0)
        /\ hdr = [k \in Chunks |-> At(k, 0)]
        /\ cap = [k \in {0} \cup Chunks |-> IF k = 0 THEN Initial ELSE 0]
        /\ freelist = <<>> /\ heap = {} /\ live = <<>>
        /\ pc = "idle" /\ arg = Nowhere /\ kept = 0

Fits(len) == cap[cur.c] - cur.m >= len

\* take_atleast: the places of the freelist that are large enough.
LargeEnough(len) == {i \in DOMAIN freelist : cap[freelist[i]] >= len}
-----------------------------------------------------------------------------
\* Wrong: forgets that the chunk has to hold the new allocation too.
AllocateFromFirstFree(n) ==
  /\ pc = "idle" /\ Len(live) < MaxLive
  /\ LET len == Aligned(FrameBytes(n))
     IN /\ ~Fits(len) /\ freelist # <<>>
        /\ LET k == Head(freelist)
           IN /\ hdr' = [hdr EXCEPT ![k] = cur]
              /\ cur' = At(k, len)
              /\ live' = Append(live, [c |-> k, m |-> 0, size |-> n])
        /\ freelist' = Tail(freelist)
  /\ UNCHANGED <<cap, heap, pc, arg, kept>>

\* allocate: there is room in the current chunk.
AllocateHere(n) ==
  /\ pc = "idle" /\ Len(live) < MaxLive
  /\ Fits(Aligned(FrameBytes(n)))
  /\ cur' = At(cur.c, cur.m + Aligned(FrameBytes(n)))
  /\ live' = Append(live, [c |-> cur.c, m |-> cur.m, size |-> n])
  /\ UNCHANGED <<hdr, cap, freelist, heap, pc, arg, kept>>

\* allocate: the first chunk of the freelist that is large enough; it keeps the
\* state of the chunk before it in its header.
AllocateFromFreelist(n) ==
  /\ pc = "idle" /\ Len(live) < MaxLive
  /\ LET len == Aligned(FrameBytes(n))
     IN /\ ~Fits(len) /\ LargeEnough(len) # {}
        /\ LET i == CHOOSE i \in LargeEnough(len) : \A j \in LargeEnough(len) : i <= j
               k == freelist[i]
           IN /\ hdr' = [hdr EXCEPT ![k] = cur]
              /\ cur' = At(hdr[k].c, hdr[k].m + len)
              /\ live' = Append(live, [c |-> hdr[k].c, m |-> 0, size |-> n])
              /\ freelist' = RemoveAt(freelist, i)
  /\ UNCHANGED <<cap, heap, pc, arg, kept>>

\* allocate: a new chunk, twice as large as what there is.
AllocateNew(n) ==
  /\ pc = "idle" /\ Len(live) < MaxLive
  /\ LET len == Aligned(FrameBytes(n))
     IN /\ ~Fits(len) /\ LargeEnough(len) = {}
        /\ \E k \in Chunks :
             /\ k = Cardinality(heap) + 1
             /\ cap' = [cap EXCEPT ![k] = (len + cap[cur.c] + Initial) * 2]
             /\ hdr' = [hdr EXCEPT ![k] = cur]
             /\ cur' = At(k, len)
             /\ live' = Append(live, [c |-> k, m |-> 0, size |-> n])
             /\ heap' = heap \cup {k}
  /\ UNCHANGED <<freelist, pc, arg, kept>>

\* operator delete of the last frame: deallocate(ptr, len).
Deallocate ==
  /\ pc = "idle" /\ live # <<>>
  /\ pc' = "deallocate" /\ arg' = Last(live)
  /\ live' = Front(live)
  /\ UNCHANGED <<cur, hdr, cap, freelist, heap, kept>>

\* The condition of deallocate's loop: ptr == m - len.
Found == cur.c = arg.c /\ cur.m - Aligned(FrameBytes(arg.size)) = arg.m

\* drop_cur_chunk: the chunk goes to the freelist with its own state, b, m and e,
\* in its header; the one before it is the current one again.
DropCurChunk(m) ==
  /\ cur' = hdr[cur.c]
  /\ hdr' = [hdr EXCEPT ![cur.c] = At(cur.c, m)]
  /\ freelist' = <<cur.c>> \o freelist

\* The loop of deallocate.
DeallocateDrops ==
  /\ pc = "deallocate" /\ ~Found
  /\ cur.c # 0
  /\ DropCurChunk(cur.m)
  /\ UNCHANGED <<cap, heap, live, pc, arg, kept>>

\* Wrong: gives back the length without what alignment has added to it.
DeallocateUnaligned ==
  /\ pc = "deallocate" /\ Found
  /\ cur' = At(cur.c, cur.m - FrameBytes(arg.size))
  /\ pc' = "idle" /\ arg' = Nowhere
  /\ UNCHANGED <<hdr, cap, freelist, heap, live, kept>>

\* Behind the loop: m -= len.
DeallocateHere ==
  /\ pc = "deallocate" /\ Found
  /\ cur' = At(cur.c, cur.m - Aligned(FrameBytes(arg.size)))
  /\ pc' = "idle" /\ arg' = Nowhere
  /\ UNCHANGED <<hdr, cap, freelist, heap, live, kept>>

\* reuse_memory() and ~stack_resource: nothing is alive for the user any more.
ReuseMemory ==
  /\ pc = "idle"
  /\ pc' = "reuse_memory" /\ live' = <<>>
  /\ UNCHANGED <<cur, hdr, cap, freelist, heap, arg, kept>>

Destroy ==
  /\ pc = "idle"
  /\ pc' = "~stack_resource" /\ live' = <<>>
  /\ UNCHANGED <<cur, hdr, cap, freelist, heap, arg, kept>>

\* The loop of reuse_memory: m = b, drop_cur_chunk().
ReuseDrops ==
  /\ pc \in {"reuse_memory", "~stack_resource"} /\ cur.c # 0
  /\ DropCurChunk(0)
  /\ UNCHANGED <<cap, heap, live, pc, arg, kept>>

ReuseReturns ==
  /\ pc = "reuse_memory" /\ cur.c = 0
  /\ pc' = "idle" /\ kept' = cur.m
  /\ UNCHANGED <<cur, hdr, cap, freelist, heap, live, arg>>

\* freelist.drop_all()
DropAll ==
  /\ pc = "~stack_resource" /\ cur.c = 0
  /\ heap' = heap \ ToSet(freelist)
  /\ freelist' = <<>>
  /\ pc' = "destroyed"
  /\ UNCHANGED <<cur, hdr, cap, live, arg, kept>>

Destroyed == pc = "destroyed" /\ UNCHANGED vars

Next == \/ \E n \in Sizes : AllocateHere(n) \/ AllocateFromFreelist(n) \/ AllocateNew(n)
        \/ Deallocate \/ DeallocateDrops \/ DeallocateHere
        \/ ReuseMemory \/ ReuseDrops \/ ReuseReturns
        \/ Destroy \/ DropAll \/ Destroyed

Spec == Init /\ [][Next]_vars
-----------------------------------------------------------------------------
\* The chunks of the heap that are in use, the current one first, as the headers
\* chain them, and what is known of the chunks in use, the initial buffer included.
Headers == INSTANCE LinkedLists WITH Nodes <- Chunks, Null <- 0
Used    == Headers!ListOf([k \in Chunks |-> hdr[k].c], cur.c)
InUse   == {cur} \cup {hdr[k] : k \in ToSet(Used)}

TypeOK ==
  /\ ConstantsAreSane
  /\ cur \in [c : {0} \cup Chunks, m : Nat] /\ cur.m <= cap[cur.c]
  /\ hdr \in [Chunks -> [c : {0} \cup Chunks, m : Nat]]
  /\ cap \in [{0} \cup Chunks -> Nat]
  /\ freelist \in Seq(Chunks) /\ heap \subseteq Chunks
  /\ live \in Seq([c : {0} \cup Chunks, m : Nat, size : Sizes])
  /\ pc \in {"idle", "deallocate", "reuse_memory", "~stack_resource", "destroyed"}

(***************************************************************************)
(* Every frame that has not been deleted is aligned, lies in the used part *)
(* of a chunk that is in use, and shares no byte with another one: chunks  *)
(* that were dropped, taken from the freelist again or skipped because     *)
(* they were too small included.  The resource behind the frame, which     *)
(* delete will use, is aligned and not overwritten by the frame.           *)
(***************************************************************************)
LiveAllocationsAreIntact ==
  /\ \A i \in DOMAIN live :
       LET at == live[i].m + OnFrame(live[i].size)
       IN /\ live[i].m % Align = 0 /\ at % AlignOfR = 0
          /\ live[i].m + live[i].size <= at
          /\ \E u \in InUse : u.c = live[i].c /\ at + SizeOfR <= u.m /\ u.m <= cap[u.c]
  /\ \A i, j \in DOMAIN live :
       i < j /\ live[i].c = live[j].c =>
         live[i].m + FrameBytes(live[i].size) <= live[j].m

(***************************************************************************)
(* A chunk is in use or in the freelist, never in both or twice in one of  *)
(* them, so that ~stack_resource deletes each one once and none is leaked. *)
(* A free one holds its own empty state, as take_atleast asserts.          *)
(***************************************************************************)
ChunkIsUsedOrFree ==
  /\ Headers!NoRepeats(Used) /\ Headers!NoRepeats(freelist)
  /\ ToSet(Used) \cap ToSet(freelist) = {}
  /\ ToSet(Used) \cup ToSet(freelist) = heap
  /\ \A k \in ToSet(freelist) : hdr[k] = At(k, 0)
  /\ (pc = "destroyed" => heap = {})

(***************************************************************************)
(* The search of deallocate for the chunk of its pointer drops only chunks *)
(* that are empty and never leaves the initial buffer (the assertions of   *)
(* drop_cur_chunk), as long as the user frees in the reverse order.        *)
(***************************************************************************)
SearchDropsOnlyEmptyChunks ==
  pc = "deallocate" /\ ~Found => cur.c # 0 /\ cur.m = 0

(***************************************************************************)
(* No space is lost: the frames of a chunk lie one behind the other from   *)
(* its begin on, without a gap, and what is free begins behind the last of *)
(* them.  The exception is the initial buffer, where reuse_memory leaves   *)
(* in use what was in use: its loop only drops chunks of the heap.         *)
(***************************************************************************)
Base(c)  == IF c = 0 THEN kept ELSE 0
EndOf(a) == a.m + Aligned(FrameBytes(a.size))

NoGaps(frames, c, m) ==
  LET mine == {i \in DOMAIN frames : frames[i].c = c}
      Borders(x, i) == x = Base(c) \/ \E j \in mine : j < i /\ EndOf(frames[j]) = x
  IN /\ \A i \in mine : Borders(frames[i].m, i) /\ EndOf(frames[i]) <= m
     /\ Borders(m, Len(frames) + 1)

UsedSpaceIsLive ==
  pc = "idle" => \A u \in InUse : NoGaps(live, u.c, u.m)

(***************************************************************************)
(* Headers and freelist account for every chunk and for every byte of it,  *)
(* and the assertions of drop_cur_chunk and take_atleast hold; with the    *)
(* types of the state.                                                     *)
(***************************************************************************)
ChunksAreConsistent ==
  /\ TypeOK /\ ChunkIsUsedOrFree /\ SearchDropsOnlyEmptyChunks /\ UsedSpaceIsLive
=============================================================================
