----------------------------- MODULE MCRoadGate -----------------------------
(***************************************************************************)
(* Model-checking instances of Gate and of Road, which resume waiting      *)
(* coroutines in the same way and share nothing else: in each of the two   *)
(* specifications the other component stays as it was.                     *)
(***************************************************************************)
EXTENDS Gate

VARIABLES inline, roadClosed, roadWaiters, roadStack, queue, roadCo

R == INSTANCE Road WITH
  closed <- roadClosed, waiters <- roadWaiters, stack <- roadStack, co <- roadCo

gateVars == vars
roadVars == <<inline, roadClosed, roadWaiters, roadStack, queue, roadCo>>

MCInit == Init /\ R!Init

GateSpec == /\ MCInit /\ [][Next /\ UNCHANGED roadVars]_<<gateVars, roadVars>>
            /\ Fairness

RoadSpec == /\ MCInit /\ [][R!Next /\ UNCHANGED gateVars]_<<gateVars, roadVars>>
            /\ R!Fairness
-----------------------------------------------------------------------------
\* One coroutine at a time has the road closed, and nobody waits on an open road,
\* see Road.
RoadInv == R!RoadInv

\* Waiters that open() resumes itself pass in the end, see Road.
EveryWaiterPasses == R!EveryWaiterPasses
=============================================================================
