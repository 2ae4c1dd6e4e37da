--------------------------- MODULE LogicalThread ---------------------------
(***************************************************************************)
(* logical_thread (logical_thread.hpp): a coroutine with a thread-like     *)
(* owner object.  The two share the frame through one flag, two_way_bound: *)
(* whoever sets it first leaves, whoever comes second destroys the frame;  *)
(* a joining owner waits for the flag and destroys the frame itself.       *)
(*                                                                         *)
(* Frames are run by threads of their own; Objs are the logical_thread     *)
(* variables of one owner thread.                                          *)
(***************************************************************************)
EXTENDS Integers, FiniteSets

CONSTANTS Frames, Objs, Null

VARIABLES cpc,    \* where each coroutine is
          flag, stop,  \* promise: stopped.flag, stop_requested_
          frees,  \* how often the frame was destroyed
          obj,    \* the handle each logical_thread holds
          opc,    \* where the owner thread is ...
          on,     \* ... in an operation on which logical_thread
          from,   \* the logical_thread a move assignment takes from once it has joined
          todo    \* stop(args...): the logical_threads still to join

vars == <<cpc, flag, stop, frees, obj, opc, on, from, todo>>
promiseVars == <<flag, stop, frees>>
ownerVars   == <<obj, opc, on, from, todo>>

Init == /\ cpc = [f \in Frames |-> "unborn"]
        /\ flag = [f \in Frames |-> FALSE]
        /\ stop = [f \in Frames |-> FALSE]
        /\ frees = [f \in Frames |-> 0]
        /\ obj = [o \in Objs |-> Null]
        /\ opc = "idle" /\ on = Null /\ from = Null /\ todo = {}
-----------------------------------------------------------------------------
\* The body ends: when it sees the stop request or for reasons of its own.
CoroReturn(f) ==
  /\ cpc[f] = "body"
  /\ cpc' = [cpc EXCEPT ![f] = "exchange"]
  /\ UNCHANGED <<promiseVars, ownerVars>>

\* final_suspend, stopped.try_inform(): flag.exchange(true); the second one
\* to come destroys the frame.
FinalInform(f) ==
  /\ cpc[f] = "exchange"
  /\ flag' = [flag EXCEPT ![f] = TRUE]
  /\ cpc' = [cpc EXCEPT ![f] = IF flag[f] THEN "destroy" ELSE "notify"]
  /\ UNCHANGED <<stop, frees, ownerVars>>

\* Wrong: no notification.
FinalNoNotify(f) ==
  /\ cpc[f] = "notify"
  /\ cpc' = [cpc EXCEPT ![f] = "end"]
  /\ UNCHANGED <<promiseVars, ownerVars>>

\* The first one notifies: flag.notify_one().
FinalNotify(f) ==
  /\ cpc[f] = "notify"
  /\ cpc' = [cpc EXCEPT ![f] = "end"]
  /\ opc' = IF opc = "blocked" /\ obj[on] = f THEN "load" ELSE opc
  /\ UNCHANGED <<promiseVars, obj, on, from, todo>>

FinalDestroy(f) ==
  /\ cpc[f] = "destroy"
  /\ frees' = [frees EXCEPT ![f] = @ + 1]
  /\ cpc' = [cpc EXCEPT ![f] = "end"]
  /\ UNCHANGED <<flag, stop, ownerVars>>
-----------------------------------------------------------------------------
\* Calling the coroutine: it runs at once, the owner gets the handle.
Create(o, f) ==
  /\ opc = "idle" /\ obj[o] = Null /\ cpc[f] = "unborn"
  /\ obj' = [obj EXCEPT ![o] = f]
  /\ cpc' = [cpc EXCEPT ![f] = "body"]
  /\ UNCHANGED <<promiseVars, opc, on, from, todo>>

\* swap, and the move constructor, whose target is empty.
Swap(o, x) ==
  /\ opc = "idle" /\ o # x
  /\ obj' = [obj EXCEPT ![o] = obj[x], ![x] = obj[o]]
  /\ UNCHANGED <<cpc, promiseVars, opc, on, from, todo>>

\* request_stop() on a joinable logical_thread.
RequestStop(o) ==
  /\ opc = "idle" /\ obj[o] # Null
  /\ stop' = [stop EXCEPT ![obj[o]] = TRUE]
  /\ UNCHANGED <<cpc, flag, frees, ownerVars>>

\* join(): flag.wait(false) ...
Join(o) ==
  /\ opc = "idle" /\ obj[o] # Null
  /\ opc' = "load" /\ on' = o
  /\ UNCHANGED <<cpc, promiseVars, obj, from, todo>>

\* try_cancel_and_join(), in the destructor and (before it takes over the
\* handle of x) in the move assignment to a joinable o.
CancelAndJoin(o, x) ==
  /\ opc = "idle" /\ obj[o] # Null
  /\ stop' = [stop EXCEPT ![obj[o]] = TRUE]
  /\ opc' = "load" /\ on' = o
  /\ from' = x
  /\ UNCHANGED <<cpc, flag, frees, obj, todo>>

Destructor(o) == CancelAndJoin(o, Null)
MoveAssign(o, x) == o # x /\ CancelAndJoin(o, x)

\* stop(args...): request_stop on all of them, then join one after the other.
StopAll(S) ==
  /\ opc = "idle" /\ S # {} /\ \A o \in S : obj[o] # Null
  /\ stop' = [f \in Frames |-> stop[f] \/ \E o \in S : obj[o] = f]
  /\ todo' = S
  /\ UNCHANGED <<cpc, flag, frees, obj, opc, on, from>>

JoinNext ==
  /\ opc = "idle" /\ todo # {}
  /\ \E o \in todo : on' = o /\ todo' = todo \ {o}
  /\ opc' = "load"
  /\ UNCHANGED <<cpc, promiseVars, obj, from>>

\* ... returns when the flag is set, else blocks until notified ...
JoinLoad ==
  /\ opc = "load"
  /\ opc' = IF flag[obj[on]] THEN "destroy" ELSE "blocked"
  /\ UNCHANGED <<cpc, promiseVars, obj, on, from, todo>>

\* ... and handle_.destroy().  A move assignment then takes its new handle.
OwnerDestroy ==
  /\ opc = "destroy"
  /\ frees' = [frees EXCEPT ![obj[on]] = @ + 1]
  /\ obj' = [o \in Objs |->
               CASE o = on -> IF from = Null THEN Null ELSE obj[from]
                 [] o # on /\ o = from -> Null
                 [] OTHER -> obj[o]]
  /\ from' = Null
  /\ opc' = "idle"
  /\ UNCHANGED <<cpc, flag, stop, on, todo>>

\* Wrong: sets the flag and leaves, whoever was first.
DetachNeverDestroys(o) ==
  /\ opc = "idle" /\ obj[o] # Null
  /\ flag' = [flag EXCEPT ![obj[o]] = TRUE]
  /\ opc' = "notify"
  /\ on' = o
  /\ UNCHANGED <<cpc, stop, frees, obj, from, todo>>

\* detach(): try_inform, the second one to come destroys the frame.
Detach(o) ==
  /\ opc = "idle" /\ obj[o] # Null
  /\ flag' = [flag EXCEPT ![obj[o]] = TRUE]
  /\ opc' = IF flag[obj[o]] THEN "destroy" ELSE "notify"
  /\ on' = o
  /\ UNCHANGED <<cpc, stop, frees, obj, from, todo>>

\* The first one notifies (nobody) and forgets the handle.
DetachNotify ==
  /\ opc = "notify"
  /\ obj' = [obj EXCEPT ![on] = Null]
  /\ opc' = "idle"
  /\ UNCHANGED <<cpc, promiseVars, on, from, todo>>
-----------------------------------------------------------------------------
CoroFinal(f) == FinalInform(f) \/ FinalNotify(f) \/ FinalDestroy(f)
OwnerCall ==
  /\ todo = {}
  /\ \/ \E o \in Objs : RequestStop(o) \/ Join(o) \/ Destructor(o) \/ Detach(o)
     \/ \E o \in Objs, f \in Frames : Create(o, f)
     \/ \E o, x \in Objs : Swap(o, x) \/ MoveAssign(o, x)
     \/ \E S \in SUBSET Objs : StopAll(S)
OwnerStep == JoinNext \/ JoinLoad \/ OwnerDestroy \/ DetachNotify

Next == \/ \E f \in Frames : CoroReturn(f) \/ CoroFinal(f)
        \/ OwnerCall \/ OwnerStep

Spec == Init /\ [][Next]_vars

\* Threads inside an operation go on, and a body that was asked to stop ends.
FairSpec == /\ Spec
            /\ WF_vars(OwnerStep)
            /\ \A f \in Frames : WF_vars(CoroFinal(f))
            /\ \A f \in Frames : WF_vars(stop[f] /\ CoroReturn(f))
-----------------------------------------------------------------------------
ConstantsAreSane == Null \notin Frames \cup Objs

TypeOK ==
  /\ ConstantsAreSane
  /\ cpc \in [Frames -> {"unborn", "body", "exchange", "notify", "destroy", "end"}]
  /\ flag \in [Frames -> BOOLEAN] /\ stop \in [Frames -> BOOLEAN]
  /\ frees \in [Frames -> Nat]
  /\ obj \in [Objs -> Frames \cup {Null}]
  /\ opc \in {"idle", "load", "blocked", "destroy", "notify"}
  /\ on \in Objs \cup {Null}
  /\ from \in Objs \cup {Null}
  /\ todo \in SUBSET Objs
  /\ opc # "idle" => on \in Objs /\ obj[on] # Null

(***************************************************************************)
(* The frame is destroyed at most once, never while the body or the        *)
(* exchange of final_suspend still runs in it, and nobody who still has    *)
(* the handle finds it destroyed, except to take part in no more than the  *)
(* notification.                                                           *)
(***************************************************************************)
FrameDestroyedOnce ==
  \A f \in Frames :
    /\ frees[f] <= 1
    /\ frees[f] = 1 =>
         /\ cpc[f] \in {"notify", "end"}
         /\ \A o \in Objs : obj[o] = f => opc = "notify" /\ on = o

(***************************************************************************)
(* No frame is leaked: once its coroutine has ended and no logical_thread  *)
(* holds it, it has been destroyed.                                        *)
(***************************************************************************)
NoFrameLeaks ==
  \A f \in Frames :
    cpc[f] = "end" /\ (\A o \in Objs : obj[o] # f) => frees[f] = 1

(***************************************************************************)
(* "shared owning of coroutine handle between coroutine object and         *)
(* coroutine frame": the notification inside try_inform uses the flag, so  *)
(* the side that executes it still shares the frame, which the other side  *)
(* must not destroy yet.                                                   *)
(***************************************************************************)
NotifierSharesFrame ==
  /\ \A f \in Frames : cpc[f] = "notify" => frees[f] = 0
  /\ opc = "notify" => frees[obj[on]] = 0

(***************************************************************************)
(* Destroying, or assigning to, a joinable logical_thread terminates: the  *)
(* stop request reaches the body and the joiner is woken.                  *)
(***************************************************************************)
CancelledJoinReturns ==
  opc \in {"load", "blocked"} /\ stop[obj[on]] ~> opc = "idle"

(***************************************************************************)
(* The frame of a logical_thread is destroyed exactly once, by the side    *)
(* that comes last in the exchange of try_inform or by the joiner, and not *)
(* while it is used; with the types of the state.                          *)
(***************************************************************************)
LogicalFrameSafe ==
  /\ TypeOK /\ FrameDestroyedOnce /\ NoFrameLeaks
=============================================================================
