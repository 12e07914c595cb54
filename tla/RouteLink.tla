------------------------------ MODULE RouteLink ------------------------------
(***************************************************************************)
(* One screen, camera or sound route between two nodes: the route record   *)
(* of each side (RouteRules), the engine of each side (node/src/mesh.rs)   *)
(* and the control channel between them.  `Source' is the machine whose    *)
(* screen, camera or microphone the route carries, `Sink' the one that     *)
(* shows or plays it; either may offer the route.                          *)
(*                                                                         *)
(* Concurrency.  A node handles inbound events one at a time               *)
(* (Mesh::start: `while let Some(value) = rx.recv().await'); window        *)
(* commands, the offer reaper, the consent sweep and the quarantine timers *)
(* are tasks of their own.  An action is the code between two awaits:      *)
(* what an event's handler still has to do after an await is todo[n], what *)
(* a command still has to send is unsent[n].                               *)
(*                                                                         *)
(* The capture at the source is what the model watches; the sink's         *)
(* playback has no state of its own here.                                  *)
(***************************************************************************)
EXTENDS RouteRules, FiniteSets, SequencesExt

CONSTANTS Source, Sink,
          Offerers,    \* the sides whose user wires the route
          Picture,     \* does the route carry a screen or camera (else: sound)?
          Faults,      \* what may go wrong, a subset of AllFaults
          Relinked,    \* the nodes whose link to their daemon may end and come back
          MaxOffers,   \* bound: offers made, both sides together
          MaxMishaps   \* bound: repeated deliveries, restarts, resets and relinks, together

\* lose      a message is lost on the way
\* sendfail  a send reports failure although the message may still arrive
\* reorder   messages overtake one another (several shared networks)
\* reboot    the node process restarts
\* reset     a network reset gives a running node a fresh boot id
\* reoffer   a window offers the route although it is live
\* lapse     the source's consent for this viewer ends
AllFaults == {"lose", "sendfail", "reorder", "reboot", "reset", "reoffer", "lapse"}

ASSUME LinkAssumption ==
    /\ Source # Sink
    /\ Offerers \subseteq {Source, Sink}
    /\ Picture \in BOOLEAN
    /\ Faults \subseteq AllFaults /\ Relinked \subseteq {Source, Sink}
    /\ MaxOffers \in Nat /\ MaxMishaps \in Nat

Nodes == {Source, Sink}
Peer(n) == IF n = Source THEN Sink ELSE Source

VARIABLES route,     \* [Nodes -> record], Session::routes for this route
          capture,   \* is the source's capture pump running?
          todo,      \* [Nodes -> Seq(effect)], rest of the event being handled
          unsent,    \* [Nodes -> SUBSET Msg], messages of commands waiting to be sent
          net,       \* [Nodes -> Seq(Msg)], control messages on their way to the node
          boot,      \* [Nodes -> BootId], Mesh::boot_id
          seen,      \* [Nodes -> BootId or 0], peer_boots: the peer's boot id, 0 if it is not known
          held,      \* [Nodes -> BOOLEAN], VideoSwitchGuards::pending: a close is quarantined
          consent,   \* may this viewer make the source capture?
          offers, mishaps   \* the bounded counters

vars == <<route, capture, todo, unsent, net, boot, seen, held, consent, offers, mishaps>>

BootId == 1 .. MaxMishaps + 1

Record == [st : RouteState \cup {Absent}, origin : Origin, peer : Nodes, tag : 0 .. MaxOffers]

Msg ==      [kind : {"offer", "accept"}, tag : 1 .. MaxOffers]
       \cup [kind : {"presence"}, tag : BootId]
       \cup [kind : {"reject", "teardown", "feedback"}, tag : {0}]

Offer(tag)    == [kind |-> "offer", tag |-> tag]
Presence(b)   == [kind |-> "presence", tag |-> b]
Reject        == [kind |-> "reject", tag |-> 0]
TeardownMsg   == [kind |-> "teardown", tag |-> 0]
Feedback      == [kind |-> "feedback", tag |-> 0]

\* What a handler may have left to do: send one reply, start media, or, for an offer it
\* took, send the Accept and then start.
Plan == {<<>>, <<Start>>} \cup {<<m>> : m \in Msg}
            \cup {<<Accept(tag), Start>> : tag \in 1 .. MaxOffers}

\* Types; `todo' also fixes the order of a handler's effects (Accept before StartMedia).
TypeOK ==
    /\ route \in [Nodes -> Record]
    /\ \A n \in Nodes : route[n].peer = Peer(n)
    /\ capture \in BOOLEAN
    /\ todo \in [Nodes -> Plan]
    /\ unsent \in [Nodes -> SUBSET Msg]
    /\ net \in [Nodes -> Seq(Msg)]
    /\ boot \in [Nodes -> BootId] /\ seen \in [Nodes -> BootId \cup {0}]
    /\ \A n \in Nodes : boot[n] <= mishaps + 1
    /\ held \in [Nodes -> BOOLEAN]
    /\ consent \in BOOLEAN
    /\ offers \in 0 .. MaxOffers /\ mishaps \in 0 .. MaxMishaps

\* Two nodes that have each other's presence and no route yet.
Init ==
    /\ route = [n \in Nodes |-> NoRoute(Peer(n))]
    /\ capture = FALSE
    /\ todo = [n \in Nodes |-> <<>>]
    /\ unsent = [n \in Nodes |-> {}]
    /\ net = [n \in Nodes |-> <<>>]
    /\ boot = [n \in Nodes |-> 1] /\ seen = [n \in Nodes |-> 1]
    /\ held = [n \in Nodes |-> FALSE]
    /\ consent = TRUE
    /\ offers = 0 /\ mishaps = 0

Mishap == mishaps < MaxMishaps /\ mishaps' = mishaps + 1

-----------------------------------------------------------------------------
(* Pieces of handlers. *)

SetRoute(n, r) == route' = [route EXCEPT ![n] = r]

\* What the engine stops when a route ends here, in disconnect() and for StopMedia:
\* the capture, and (release_video_lanes) a quarantined close.
StopMedia(n) ==
    /\ capture' = (capture /\ n # Source)
    /\ held' = [held EXCEPT ![n] = FALSE]

KeepMedia == UNCHANGED <<capture, held>>

\* start_media at the source spawns the capture pump; for a picture the switch
\* guard notes the start (note_video_route_started) and forgets a quarantined close.
StartMedia(n) ==
    /\ capture' = (capture \/ n = Source)
    /\ held' = [held EXCEPT ![n] = FALSE]

\* A rule whose effects are at most a StopMedia: no await lies in between.
ApplyEnding(n, outcome) ==
    /\ SetRoute(n, outcome.route)
    /\ IF outcome.effects = <<Stop>> THEN StopMedia(n) ELSE KeepMedia

-----------------------------------------------------------------------------
(* Window commands. *)

\* connect_term_scoped up to the send.  A window does not wire a route its catalog
\* already shows (store.svelte.ts, ownedConnect) unless "reoffer".
Connect(n) ==
    /\ n \in Offerers /\ offers < MaxOffers
    /\ "reoffer" \in Faults \/ route[n].st \notin Live
    /\ offers' = offers + 1
    /\ SetRoute(n, Offered(Peer(n), offers + 1))
    /\ unsent' = [unsent EXCEPT ![n] = @ \cup {Offer(offers + 1)}]
    /\ held' = [held EXCEPT ![n] = FALSE]
    /\ UNCHANGED <<capture, todo, net, boot, seen, consent, mishaps>>

\* disconnect(), also forget_node, cec_revoke and the consent sweep: the record and the
\* media go together, the Teardown is sent after.
Disconnects(n) ==
    /\ SetRoute(n, TornDownLocally(route[n]))
    /\ StopMedia(n)
    /\ unsent' = [unsent EXCEPT ![n] =
                     IF OwesTeardown(route[n]) THEN @ \cup {TeardownMsg} ELSE @]
    /\ UNCHANGED <<todo, net, boot, seen, consent, offers, mishaps>>

Disconnect(n) == route[n].st # "torndown" /\ Disconnects(n)

\* The command's send reaches the daemon.
Send(n, m) ==
    /\ m \in unsent[n]
    /\ unsent' = [unsent EXCEPT ![n] = @ \ {m}]
    /\ net' = [net EXCEPT ![Peer(n)] = Append(@, m)]
    /\ UNCHANGED <<route, capture, todo, boot, seen, held, consent, offers, mishaps>>

\* The send fails, or reports failure for a message that arrives: an offer's route is
\* torn down by id without stopping media or telling the peer, a Teardown is forgotten.
SendFails(n, m, arrives) ==
    /\ "sendfail" \in Faults
    /\ m \in unsent[n]
    /\ unsent' = [unsent EXCEPT ![n] = @ \ {m}]
    /\ net' = IF arrives THEN [net EXCEPT ![Peer(n)] = Append(@, m)] ELSE net
    /\ SetRoute(n, IF m.kind = "offer" THEN TornDownLocally(route[n]) ELSE route[n])
    /\ UNCHANGED <<capture, todo, boot, seen, held, consent, offers, mishaps>>

Command(n) ==
    \/ Connect(n)
    \/ Disconnect(n)
    \/ \E m \in unsent[n] : Send(n, m) \/ \E arrives \in BOOLEAN : SendFails(n, m, arrives)

-----------------------------------------------------------------------------
(* Timers. *)

\* spawn_offer_reaper: OFFER_TIMEOUT passed since the offer was first seen.
ExpireOffer(n) ==
    /\ route[n].st = "offered"
    /\ SetRoute(n, Expired(route[n]))
    /\ UNCHANGED <<capture, todo, unsent, net, boot, seen, held, consent, offers, mishaps>>

\* mutant: the sweep looks at routes that still negotiate only.
SweepNegotiating(n) ==
    /\ n = Source /\ Picture /\ ~consent /\ route[n].st \in Negotiating
    /\ Disconnects(n)

\* spawn_cec_consent_sweep: a picture the source hosts without consent is disconnected.
ConsentSweep(n) ==
    /\ n = Source /\ Picture /\ ~consent /\ route[n].st \in Live
    /\ Disconnects(n)

\* mutant: a quarantined close stops the media and leaves the route active.
CommitMediaOnly(n) ==
    /\ held[n]
    /\ StopMedia(n)
    /\ UNCHANGED <<route, todo, unsent, net, boot, seen, consent, offers, mishaps>>

\* commit_quarantined_video_teardown: the quarantined close takes effect.
CommitQuarantined(n) ==
    /\ held[n]
    /\ IF route[n].st = "active"
       THEN ApplyEnding(n, OnTeardown(route[n]))
       ELSE /\ held' = [held EXCEPT ![n] = FALSE]
            /\ UNCHANGED <<route, capture>>
    /\ UNCHANGED <<todo, unsent, net, boot, seen, consent, offers, mishaps>>

Timer(n) == ExpireOffer(n) \/ ConsentSweep(n) \/ CommitQuarantined(n)

-----------------------------------------------------------------------------
(* handle_channel: one inbound message, up to the first await. *)

Next1(n) == IF "reorder" \in Faults THEN DOMAIN net[n] ELSE {1} \cap DOMAIN net[n]

\* The message leaves the channel, or stays to be delivered again.
Consume(n, i, again) ==
    /\ todo[n] = <<>>
    /\ IF again THEN Mishap ELSE UNCHANGED mishaps
    /\ net' = IF again THEN net ELSE [net EXCEPT ![n] = RemoveAt(@, i)]
    /\ UNCHANGED <<unsent, boot, consent, offers>>

\* An offer to capture here is screened first and refused without touching the session.
Refused(n) == n = Source /\ ~consent

OnOfferMsg(n, tag) ==
    LET outcome == OnOffer(route[n], Peer(n), tag, TRUE)
    IN /\ KeepMedia
       /\ IF Refused(n)
          THEN /\ UNCHANGED route
               /\ todo' = [todo EXCEPT ![n] = <<Reject>>]
          ELSE /\ SetRoute(n, outcome.route)
               /\ todo' = [todo EXCEPT ![n] = outcome.effects]
       /\ UNCHANGED seen

\* A picture waits for the daemon's video bring-up before it starts, sound does not.
OnAcceptMsg(n) ==
    LET outcome == OnAccept(route[n])
    IN /\ SetRoute(n, outcome.route)
       /\ IF outcome.effects = <<>> THEN KeepMedia /\ UNCHANGED todo
          ELSE IF Picture THEN KeepMedia /\ todo' = [todo EXCEPT ![n] = <<Start>>]
          ELSE StartMedia(n) /\ UNCHANGED todo
       /\ UNCHANGED seen

OnRejectMsg(n) ==
    /\ ApplyEnding(n, OnReject(route[n], Peer(n)))
    /\ UNCHANGED <<todo, seen>>

\* The close of a picture that started just now in place of another one (the same or
\* another screen in that window: `early') is quarantined, its repeats coalesce
\* (VideoSwitchGuards::gate_inbound_teardown).
Quarantines(n) == Picture /\ route[n].st = "active"

OnTeardownMsg(n, early) ==
    /\ IF held[n] /\ route[n].st = "active" THEN UNCHANGED <<route, capture, held>>
       ELSE IF early /\ Quarantines(n)
       THEN held' = [held EXCEPT ![n] = TRUE] /\ UNCHANGED <<route, capture>>
       ELSE ApplyEnding(n, OnTeardown(route[n]))
    /\ UNCHANGED <<todo, seen>>

\* A boot id not on file from a known peer: the routes with its previous incarnation are
\* reaped, and the peer is answered with our own presence.
OnPresenceMsg(n, b) ==
    /\ seen' = [seen EXCEPT ![n] = b]
    /\ IF seen[n] \notin {0, b} THEN ApplyEnding(n, Reaped(route[n])) ELSE KeepMedia /\ UNCHANGED route
    /\ todo' = IF seen[n] # b THEN [todo EXCEPT ![n] = <<Presence(boot[n])>>] ELSE todo

\* A viewer's periodic report on a live route proves that the picture is wanted, unless
\* it comes too soon after the close.
OnFeedbackMsg(n, mature) ==
    /\ held' = [held EXCEPT ![n] = @ /\ ~(mature /\ route[n].st = "active")]
    /\ UNCHANGED <<route, capture, todo, seen>>

Receive(n) ==
    \E i \in Next1(n), again \in BOOLEAN :
        LET m == net[n][i] IN
        /\ Consume(n, i, again)
        /\ \/ m.kind = "offer" /\ OnOfferMsg(n, m.tag)
           \/ m.kind = "accept" /\ OnAcceptMsg(n)
           \/ m.kind = "reject" /\ OnRejectMsg(n)
           \/ m.kind = "teardown" /\ \E early \in BOOLEAN : OnTeardownMsg(n, early)
           \/ m.kind = "presence" /\ OnPresenceMsg(n, m.tag)
           \/ m.kind = "feedback" /\ \E mature \in BOOLEAN : OnFeedbackMsg(n, mature)

-----------------------------------------------------------------------------
(* process_effects: the handler goes on after an await. *)

\* mutant: the re-check only asks whether the route is known.
StillKnown(n) == route[n].st # Absent
StillActive(n) == route[n].st = "active"

Continue(n) ==
    /\ todo[n] # <<>>
    /\ todo' = [todo EXCEPT ![n] = Tail(@)]
    /\ IF Head(todo[n]) = Start
       THEN /\ IF Picture => StillActive(n) THEN StartMedia(n) ELSE KeepMedia
            /\ UNCHANGED net
       ELSE /\ net' = [net EXCEPT ![Peer(n)] = Append(@, Head(todo[n]))]
            /\ KeepMedia
    /\ UNCHANGED <<route, unsent, boot, seen, consent, offers, mishaps>>

-----------------------------------------------------------------------------
(* Media frames, seen from the control channel. *)

\* inbound_media_ok, inbound_video_disposition: the sink refuses a frame of a route it
\* does not hold live; a picture's frames may come before its Accept.
SinkRefuses ==
    IF Picture THEN route[Sink].st \notin Live ELSE route[Sink].st # "active"

\* nack_dead_route, nack_dead_lane: a refused frame is answered with a rate-limited Reject.
Nack ==
    /\ capture /\ SinkRefuses
    /\ \A i \in DOMAIN net[Source] : net[Source][i] # Reject
    /\ net' = [net EXCEPT ![Source] = Append(@, Reject)]
    /\ UNCHANGED <<route, capture, todo, unsent, boot, seen, held, consent, offers, mishaps>>

\* The viewer's periodic VideoFeedback; it matters only to a quarantined close.
Report ==
    /\ held[Source] /\ route[Sink].st = "active"
    /\ \A i \in DOMAIN net[Source] : net[Source][i] # Feedback
    /\ net' = [net EXCEPT ![Source] = Append(@, Feedback)]
    /\ UNCHANGED <<route, capture, todo, unsent, boot, seen, held, consent, offers, mishaps>>

-----------------------------------------------------------------------------
(* Faults. *)

Lose(n) ==
    /\ "lose" \in Faults
    /\ \E i \in DOMAIN net[n] : net' = [net EXCEPT ![n] = RemoveAt(@, i)]
    /\ UNCHANGED <<route, capture, todo, unsent, boot, seen, held, consent, offers, mishaps>>

\* The consent of the source's user ends (revoked, expired) or is given again.
ConsentChanges ==
    /\ "lapse" \in Faults
    /\ consent' = ~consent
    /\ UNCHANGED <<route, capture, todo, unsent, net, boot, seen, held, offers, mishaps>>

\* bring_up: a new session, and presence to everyone.
BringUp(n, b) ==
    /\ SetRoute(n, NoRoute(Peer(n)))
    /\ net' = [net EXCEPT ![n] = <<>>, ![Peer(n)] = Append(@, Presence(b))]

\* The node process restarts; what it already handed to the daemon still arrives.
Reboot(n) ==
    /\ "reboot" \in Faults /\ Mishap
    /\ BringUp(n, boot[n] + 1)
    /\ boot' = [boot EXCEPT ![n] = @ + 1]
    /\ seen' = [seen EXCEPT ![n] = 0]
    /\ capture' = (capture /\ n # Source)
    /\ held' = [held EXCEPT ![n] = FALSE]
    /\ todo' = [todo EXCEPT ![n] = <<>>] /\ unsent' = [unsent EXCEPT ![n] = {}]
    /\ UNCHANGED <<consent, offers>>

\* The event stream ended and is subscribed again: bring_up replaces the session and
\* leaves the media bridges, the boot id and the waiting commands as they were.
Reconnect(n) ==
    /\ n \in Relinked /\ Mishap /\ todo[n] = <<>>
    /\ BringUp(n, boot[n])
    /\ seen' = [seen EXCEPT ![n] = 0]
    /\ UNCHANGED <<capture, todo, unsent, boot, held, consent, offers>>

\* prune_unjoined_peers dropped some other peer: the boot id is refreshed, and the next
\* presence carries it to the peers whose routes are untouched.
NetworkReset(n) ==
    /\ "reset" \in Faults /\ Mishap
    /\ boot' = [boot EXCEPT ![n] = @ + 1]
    /\ net' = [net EXCEPT ![Peer(n)] = Append(@, Presence(boot[n] + 1))]
    /\ UNCHANGED <<route, capture, todo, unsent, seen, held, consent, offers>>

Fault ==
    \/ ConsentChanges
    \/ \E n \in Nodes : Lose(n) \/ Reboot(n) \/ Reconnect(n) \/ NetworkReset(n)

-----------------------------------------------------------------------------
Next ==
    \/ \E n \in Nodes : Command(n) \/ Timer(n) \/ Receive(n) \/ Continue(n)
    \/ Nack
    \/ Report
    \/ Fault

Spec == Init /\ [][Next]_vars

(***************************************************************************)
(* Fairness.  Handlers and commands run on, timers fire, the event loop    *)
(* takes what arrives.  A frame that is refused is refused again, so its   *)
(* NACK is sent over and over: one of them gets through (SF); no other     *)
(* message is assumed to arrive.                                           *)
(***************************************************************************)
ReceiveReject(n) ==
    \E i \in Next1(n) : net[n][i] = Reject /\ Consume(n, i, FALSE) /\ OnRejectMsg(n)

Fairness ==
    /\ \A n \in Nodes : /\ WF_vars(Continue(n))
                        /\ WF_vars(Receive(n))
                        /\ WF_vars(ConsentSweep(n))
                        /\ WF_vars(CommitQuarantined(n))
    /\ WF_vars(Nack)
    /\ SF_vars(ReceiveReject(Source))

FairSpec == Spec /\ Fairness

-----------------------------------------------------------------------------
(* Safety. *)

\* Nothing is captured for a route that is not live at the source: whatever a viewer, a
\* window, a timer or a crash does between a handler's steps, the screen or microphone
\* is released with its route (process_effects, disconnect, reap_peer_routes, drop of a
\* quarantined close).
NoOrphanCapture == capture => route[Source].st = "active"

\* The handler that made the route active has yet to start its media.
Starts(plan) == \E i \in DOMAIN plan : plan[i] = Start
StartPending == Starts(todo[Source])

\* An active route streams, or the handler that made it active is about to start it: no
\* path through accept, re-offer, quarantine or restart leaves a live route without its
\* capture, as a Start skipped or a Stop applied to the wrong incarnation would.
LiveRouteStreams == route[Source].st = "active" => capture \/ StartPending

\* The capture is never started over itself, however often the offer is repeated
\* (handle_route, Offer: a route that already streams is only acknowledged again).
NoSecondStart == StartPending => ~capture

\* The capture is a lease on the route: it begins only under a route that was already
\* active, and ends in the very step in which the route ends.
Lease == INSTANCE CaptureLease WITH held <- route[Source].st = "active", used <- capture

ImplementsLease == Lease!Spec

\* A restart of one machine is no reason to end a route the other still wants: a peer's
\* new boot id ends a route here only if the peer no longer holds it.
ReapsOnlyDeadRoutes ==
    [][\A n \in Nodes :
          (seen[n] # 0 /\ seen'[n] # seen[n] /\ route[n].st = "active" /\ route'[n].st = "torndown")
              => route[Peer(n)].st # "active"]_vars

-----------------------------------------------------------------------------
(* Liveness, of FairSpec. *)

\* A capture nobody takes is stopped, or somebody takes it again: the refused frames'
\* NACKs reach the source and end the route (nack_dead_route, handle_route Reject).
UnwantedCaptureEnds == (capture /\ SinkRefuses) ~> (~capture \/ ~SinkRefuses)

\* A viewer whose consent ended does not keep the screen (spawn_cec_consent_sweep).
CaptureEndsWithConsent == ~consent ~> (consent \/ ~capture)

=============================================================================
