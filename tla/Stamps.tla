------------------------------- MODULE Stamps -------------------------------
(***************************************************************************)
(* The Lamport stamps the fleet's replicated records carry: a counter and  *)
(* the id of the device that wrote the record.  CanvasStamp, PlanStamp and *)
(* the VersionStamp of Fleetfiles are the same pair with the same derived  *)
(* order, counter first and actor second.  Device ids are compared as      *)
(* strings in the code; here they are natural numbers, 0 the empty string. *)
(***************************************************************************)
EXTENDS Naturals

Stamp == [counter : Nat, actor : Nat]

ZeroStamp == [counter |-> 0, actor |-> 0]

StampLess(a, b) ==
  \/ a.counter < b.counter
  \/ a.counter = b.counter /\ a.actor < b.actor

StampLeq(a, b) == StampLess(a, b) \/ a = b

(* the largest counter of a set of counters, 0 if there is none *)
Highest(counters) ==
  IF counters = {} THEN 0
  ELSE CHOOSE c \in counters : \A d \in counters : d <= c
=============================================================================
