----------------------------- MODULE RouteRules -----------------------------
(***************************************************************************)
(* The transition rules of one record of a node's route table: what the    *)
(* pure state machine of crates/allmystuff-session/src/lib.rs does to a    *)
(* LiveRoute for each control message and each local call, and which       *)
(* effects it hands to the engine.  Session.tla builds one node's whole    *)
(* table from these rules, RouteLink.tla puts two nodes and the engine     *)
(* around them.                                                            *)
(*                                                                         *)
(* A record keeps the fields the rules read.  `tag' stands for the offer   *)
(* the record was made from: the code does not carry it (a route id is     *)
(* computed from its two endpoints, so every offer of a route has the same *)
(* id), the specification does, to tell one offer of a route from another. *)
(***************************************************************************)
EXTENDS Naturals, Sequences

\* RouteState, plus "absent" for an id the table does not hold.
Absent     == "absent"
Negotiating == {"offered", "incoming"}
Ended      == {"rejected", "torndown"}
RouteState == Negotiating \cup Ended \cup {"active"}
Live       == Negotiating \cup {"active"}

Origin == {"outbound", "inbound"}

\* A record for no route; its other fields carry no information.
NoRoute(peer) == [st |-> Absent, origin |-> "inbound", peer |-> peer, tag |-> 0]

Route(st, origin, peer, tag) ==
    [st |-> st, origin |-> origin, peer |-> peer, tag |-> tag]

(***************************************************************************)
(* Effects.  Send carries the control message to send back, Start and Stop *)
(* name the route the rule was applied to.                                 *)
(***************************************************************************)
Accept(tag) == [kind |-> "accept", tag |-> tag]
Start       == [kind |-> "start", tag |-> 0]
Stop        == [kind |-> "stop", tag |-> 0]
Refresh     == [kind |-> "refresh", tag |-> 0]

\* What a rule returns: the new record and the effects, in order.
Does(r, effects) == [route |-> r, effects |-> effects]

-----------------------------------------------------------------------------
(* Local calls. *)

\* Session::offer_scoped overwrites whatever record the id had.
Offered(peer, tag) == Route("offered", "outbound", peer, tag)

\* Session::expire_offer: only an outbound offer nobody answered.
Expired(r) ==
    IF r.origin = "outbound" /\ r.st = "offered" THEN [r EXCEPT !.st = "rejected"] ELSE r

\* Session::teardown: every known route that is not already torn down.
TornDownLocally(r) ==
    IF r.st \in {Absent, "torndown"} THEN r ELSE [r EXCEPT !.st = "torndown"]

\* Session::teardown returns a Teardown to send exactly when it changed the record.
OwesTeardown(r) == r.st \notin {Absent, "torndown"}

\* Session::reap_peer_routes on one record of the reaped peer.
Reaped(r) ==
    IF r.st = "active" THEN Does([r EXCEPT !.st = "torndown"], <<Stop>>) ELSE Does(r, <<>>)

-----------------------------------------------------------------------------
(* Messages from `from'. *)

\* A repeated offer of a route that already streams is only acknowledged again.
AlreadyStreaming(r) == r.st = "active" /\ r.origin = "inbound"

\* mutant: a repeated offer makes a new record and starts its media.
OnOfferRestarting(r, from, tag, autoAccept) ==
    IF autoAccept THEN Does(Route("active", "inbound", from, tag), <<Accept(tag), Start>>)
    ELSE Does(Route("incoming", "inbound", from, tag), <<>>)

\* mutant: media starts before the accept is sent.
OnOfferStartsFirst(r, from, tag, autoAccept) ==
    IF AlreadyStreaming(r) THEN Does(r, <<Accept(tag)>>)
    ELSE IF autoAccept
         THEN Does(Route("active", "inbound", from, tag), <<Start, Accept(tag)>>)
         ELSE Does(Route("incoming", "inbound", from, tag), <<>>)

OnOffer(r, from, tag, autoAccept) ==
    IF AlreadyStreaming(r) THEN Does(r, <<Accept(tag)>>)
    ELSE IF autoAccept
         THEN Does(Route("active", "inbound", from, tag), <<Accept(tag), Start>>)
         ELSE Does(Route("incoming", "inbound", from, tag), <<>>)

\* An accept is not matched against the offer it answers, nor against its sender.
OnAccept(r) ==
    IF r.origin = "outbound" /\ r.st = "offered"
    THEN Does([r EXCEPT !.st = "active"], <<Start>>)
    ELSE Does(r, <<>>)

\* mutant: only the side that offered stops its media.
OnRejectOfferersOnly(r, from) ==
    IF r.st # Absent /\ r.peer = from
    THEN Does([r EXCEPT !.st = "rejected"],
              IF r.st = "active" /\ r.origin = "outbound" THEN <<Stop>> ELSE <<>>)
    ELSE Does(r, <<>>)

OnReject(r, from) ==
    IF r.st # Absent /\ r.peer = from
    THEN Does([r EXCEPT !.st = "rejected"], IF r.st = "active" THEN <<Stop>> ELSE <<>>)
    ELSE Does(r, <<>>)

\* Refresh, Tune and VideoFeedback share this gate and change no record.
OnRefresh(r, from) ==
    Does(r, IF r.st = "active" /\ r.peer = from THEN <<Refresh>> ELSE <<>>)

OnTeardown(r) ==
    IF r.st = Absent THEN Does(r, <<>>)
    ELSE Does([r EXCEPT !.st = "torndown"], IF r.st = "active" THEN <<Stop>> ELSE <<>>)

=============================================================================
