----------------------------- MODULE AsyncTask -----------------------------
(***************************************************************************)
(* async_task (async_task.hpp): a coroutine that starts at once, shared by *)
(* reference count between itself and one consumer, which may wait for the *)
(* result, take it, move the async_task around or let it go at any moment. *)
(*                                                                         *)
(* Frames are coroutine frames, each run by a thread of its own; Objs are  *)
(* the async_task variables of the consumer thread.                        *)
(***************************************************************************)
EXTENDS Integers, FiniteSets

CONSTANTS Frames, Objs, Null

ASSUME AsyncAssumption == Null \notin Frames /\ Null \notin Objs

VARIABLES cpc,    \* where each coroutine is
          ready, refs, kind,  \* promise: ready, ref_count, return_block::kind
          frees,  \* how often the frame was destroyed
          obj,    \* the handle each async_task holds
          opc,    \* where the consumer is ...
          on,     \* ... in an operation on which async_task
          goal    \* whether it waits for wait() or for get()

vars == <<cpc, ready, refs, kind, frees, obj, opc, on, goal>>
promiseVars  == <<ready, refs, kind, frees>>
consumerVars == <<obj, opc, on, goal>>

Init == /\ cpc = [f \in Frames |-> "unborn"]
        /\ ready = [f \in Frames |-> FALSE]
        /\ refs = [f \in Frames |-> 0]
        /\ kind = [f \in Frames |-> "EMPTY"]
        /\ frees = [f \in Frames |-> 0]
        /\ obj = [o \in Objs |-> Null]
        /\ opc = "idle" /\ on = Null /\ goal = "wait"
-----------------------------------------------------------------------------
\* The coroutine ends, by co_return or by an exception ...
CoroReturn(f) ==
  /\ cpc[f] = "body"
  /\ \E k \in {"VAL", "EX"} : kind' = [kind EXCEPT ![f] = k]
  /\ cpc' = [cpc EXCEPT ![f] = "set_ready"]
  /\ UNCHANGED <<ready, refs, frees, consumerVars>>

\* ... and final_suspend publishes that: ready.exchange(true) ...
FinalSetReady(f) ==
  /\ cpc[f] = "set_ready"
  /\ ready' = [ready EXCEPT ![f] = TRUE]
  /\ cpc' = [cpc EXCEPT ![f] = "notify"]
  /\ UNCHANGED <<refs, kind, frees, consumerVars>>

\* Wrong: the notification is left out.
FinalNoNotify(f) ==
  /\ cpc[f] = "notify"
  /\ cpc' = [cpc EXCEPT ![f] = "release"]
  /\ UNCHANGED <<promiseVars, consumerVars>>

\* ... ready.notify_one() ...
FinalNotify(f) ==
  /\ cpc[f] = "notify"
  /\ cpc' = [cpc EXCEPT ![f] = "release"]
  /\ opc' = IF opc = "blocked" /\ obj[on] = f THEN "load" ELSE opc
  /\ UNCHANGED <<promiseVars, obj, on, goal>>

\* Wrong: never the last owner (compares with 0 what fetch_sub returned).
FinalNeverLast(f) ==
  /\ cpc[f] = "release"
  /\ refs' = [refs EXCEPT ![f] = @ - 1]
  /\ cpc' = [cpc EXCEPT ![f] = IF refs[f] = 0 THEN "destroy" ELSE "end"]
  /\ UNCHANGED <<ready, kind, frees, consumerVars>>

\* ... ref_count.fetch_sub(1): not the last owner, stay suspended ...
FinalRelease(f) ==
  /\ cpc[f] = "release"
  /\ refs' = [refs EXCEPT ![f] = @ - 1]
  /\ cpc' = [cpc EXCEPT ![f] = IF refs[f] = 1 THEN "destroy" ELSE "end"]
  /\ UNCHANGED <<ready, kind, frees, consumerVars>>

\* ... the last owner: run off the end, which destroys the frame.
FinalDestroy(f) ==
  /\ cpc[f] = "destroy"
  /\ frees' = [frees EXCEPT ![f] = @ + 1]
  /\ cpc' = [cpc EXCEPT ![f] = "end"]
  /\ UNCHANGED <<ready, refs, kind, consumerVars>>
-----------------------------------------------------------------------------
\* Calling the coroutine: ref_count starts at 1, the async_task adds its own
\* reference, initial_suspend does not suspend.
Create(o, f) ==
  /\ opc = "idle" /\ obj[o] = Null /\ cpc[f] = "unborn"
  /\ obj' = [obj EXCEPT ![o] = f]
  /\ refs' = [refs EXCEPT ![f] = 2]
  /\ cpc' = [cpc EXCEPT ![f] = "body"]
  /\ UNCHANGED <<ready, kind, frees, opc, on, goal>>

\* Move construction, move assignment and swap all exchange two handles.
Swap(o, x) ==
  /\ opc = "idle" /\ o # x
  /\ obj' = [obj EXCEPT ![o] = obj[x], ![x] = obj[o]]
  /\ UNCHANGED <<cpc, promiseVars, opc, on, goal>>

\* wait() and get(): wait() returns at once on an empty async_task, get()
\* requires a non-empty one.
WaitBegin(o) ==
  /\ opc = "idle" /\ obj[o] # Null
  /\ opc' = "load" /\ on' = o
  /\ goal' \in {"wait", "get"}
  /\ UNCHANGED <<cpc, promiseVars, obj>>

\* ready.wait(false): returns when the flag is set, else blocks until notified.
WaitLoad ==
  /\ opc = "load"
  /\ opc' = CASE ~ready[obj[on]] -> "blocked"
              [] ready[obj[on]] /\ goal = "get" -> "read"
              [] OTHER -> "idle"
  /\ UNCHANGED <<cpc, promiseVars, obj, on, goal>>

\* get() after the wait: take the exception out and rethrow it, or return a
\* reference to the value.
GetRead ==
  /\ opc = "read"
  /\ kind' = [kind EXCEPT ![obj[on]] = IF @ = "EX" THEN "EMPTY" ELSE @]
  /\ opc' = "idle"
  /\ UNCHANGED <<cpc, ready, refs, frees, obj, on, goal>>

\* Wrong: the frame is destroyed whenever its result is there.
DetachIfReady(o) ==
  /\ opc = "idle" /\ obj[o] # Null
  /\ refs' = [refs EXCEPT ![obj[o]] = @ - 1]
  /\ IF ready[obj[o]]
     THEN opc' = "destroy" /\ UNCHANGED obj
     ELSE opc' = "idle" /\ obj' = [obj EXCEPT ![o] = Null]
  /\ on' = o
  /\ UNCHANGED <<cpc, ready, kind, frees, goal>>

\* detach() and ~async_task: ref_count.fetch_sub(1) == 1 means last owner.
Detach(o) ==
  /\ opc = "idle" /\ obj[o] # Null
  /\ refs' = [refs EXCEPT ![obj[o]] = @ - 1]
  /\ IF refs[obj[o]] = 1
     THEN opc' = "destroy" /\ UNCHANGED obj
     ELSE opc' = "idle" /\ obj' = [obj EXCEPT ![o] = Null]
  /\ on' = o
  /\ UNCHANGED <<cpc, ready, kind, frees, goal>>

DetachDestroy ==
  /\ opc = "destroy"
  /\ frees' = [frees EXCEPT ![obj[on]] = @ + 1]
  /\ obj' = [obj EXCEPT ![on] = Null]
  /\ opc' = "idle"
  /\ UNCHANGED <<cpc, ready, refs, kind, on, goal>>
-----------------------------------------------------------------------------
CoroStep(f) == \/ CoroReturn(f) \/ FinalSetReady(f) \/ FinalNotify(f)
               \/ FinalRelease(f) \/ FinalDestroy(f)
ConsumerCall == \/ \E o \in Objs : WaitBegin(o) \/ Detach(o)
                \/ \E o \in Objs, f \in Frames : Create(o, f)
                \/ \E o, x \in Objs : Swap(o, x)
ConsumerStep == WaitLoad \/ GetRead \/ DetachDestroy

Next == (\E f \in Frames : CoroStep(f)) \/ ConsumerCall \/ ConsumerStep

Spec == Init /\ [][Next]_vars

\* Coroutines end, and a consumer inside an operation goes on.
FairSpec == Spec /\ WF_vars(ConsumerStep) /\ \A f \in Frames : WF_vars(CoroStep(f))
-----------------------------------------------------------------------------
TypeOK ==
  /\ cpc \in [Frames -> {"unborn", "body", "set_ready", "notify", "release", "destroy", "end"}]
  /\ ready \in [Frames -> BOOLEAN]
  /\ refs \in [Frames -> 0 .. 2]
  /\ kind \in [Frames -> {"EMPTY", "VAL", "EX"}]
  /\ frees \in [Frames -> Nat]
  /\ obj \in [Objs -> Frames \cup {Null}]
  /\ opc \in {"idle", "load", "blocked", "read", "destroy"}
  /\ on \in Objs \cup {Null}
  /\ goal \in {"wait", "get"}
  /\ opc # "idle" => on \in Objs /\ obj[on] # Null

(***************************************************************************)
(* Whoever lets go last destroys the frame, exactly once, and by then the  *)
(* coroutine has finished its last access to the promise (the notification *)
(* included) and no async_task refers to it any more.                      *)
(***************************************************************************)
FrameDiesAfterLastUse ==
  \A f \in Frames :
    /\ frees[f] <= 1
    /\ frees[f] = 1 => cpc[f] = "end" /\ \A o \in Objs : obj[o] # f

(***************************************************************************)
(* No frame is leaked: one that its coroutine has left and that no         *)
(* async_task holds has been destroyed.                                    *)
(***************************************************************************)
NoFrameLeaks ==
  \A f \in Frames :
    cpc[f] = "end" /\ (\A o \in Objs : obj[o] # f) => frees[f] = 1

(***************************************************************************)
(* A consumer blocked in wait() or get() is woken: the flag is set before  *)
(* the notification, so it cannot fall asleep in between.                  *)
(***************************************************************************)
BlockedConsumerIsWoken == opc = "blocked" ~> opc \in {"idle", "read"}
=============================================================================
