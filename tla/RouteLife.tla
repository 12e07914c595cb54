------------------------------ MODULE RouteLife ------------------------------
(***************************************************************************)
(* What a route table promises the engine that carries its media, without  *)
(* messages or origins: media runs for a route exactly while the route is  *)
(* live, and a route that ends takes its media with it in the same step.   *)
(* Session.tla implements this specification.                              *)
(***************************************************************************)
CONSTANT Routes

VARIABLES phase,   \* [Routes -> Phase]
          media    \* [Routes -> BOOLEAN], is media being carried?

vars == <<phase, media>>

Phase == {"idle", "pending", "live", "over"}

Init == phase = [id \in Routes |-> "idle"] /\ media = [id \in Routes |-> FALSE]

\* A negotiation opens on a route that is not live, also on one that ended.
Negotiate(id) ==
    /\ phase[id] # "live"
    /\ phase' = [phase EXCEPT ![id] = "pending"]
    /\ UNCHANGED media

\* The route goes live and its media starts with it.
GoLive(id) ==
    /\ phase[id] # "live"
    /\ phase' = [phase EXCEPT ![id] = "live"]
    /\ media' = [media EXCEPT ![id] = TRUE]

\* Routes end together (a peer that left ends all of its routes).
End(S) ==
    /\ \A id \in S : phase[id] \in {"pending", "live"}
    /\ phase' = [id \in Routes |-> IF id \in S THEN "over" ELSE phase[id]]
    /\ media' = [id \in Routes |-> media[id] /\ id \notin S]

\* Ended routes leave the table; a live or pending one never does.
Forget(S) ==
    /\ \A id \in S : phase[id] = "over"
    /\ phase' = [id \in Routes |-> IF id \in S THEN "idle" ELSE phase[id]]
    /\ UNCHANGED media

Next ==
    \/ \E S \in SUBSET Routes : End(S) \/ Forget(S)
    \/ \E id \in Routes : Negotiate(id) \/ GoLive(id)

Spec == Init /\ [][Next]_vars

-----------------------------------------------------------------------------
MediaExactlyWhileLive == \A id \in Routes : media[id] <=> phase[id] = "live"

=============================================================================
