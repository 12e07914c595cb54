------------------------------- MODULE Session -------------------------------
(***************************************************************************)
(* The route table of one node: `Session' of                               *)
(* crates/allmystuff-session/src/lib.rs, with every operation of it that   *)
(* changes the table as an action.  The messages and the local calls come  *)
(* in any order from an environment that sends what peers and windows can  *)
(* send; the peer is modelled in RouteLink.tla.                            *)
(*                                                                         *)
(* `running' is what the engine's media would be if it carried out each    *)
(* returned effect at once (RouteLink.tla delays them): Start turns it on, *)
(* Stop off, and the engine's disconnect(), the caller of teardown(),      *)
(* stops the media itself.                                                 *)
(***************************************************************************)
EXTENDS RouteRules, Retain, FiniteSets

CONSTANTS Routes,       \* route ids
          NodeIds,      \* spellings of peer ids (bare pubkey, pubkey-SUFFIX)
          Canon,        \* [NodeIds -> node], canonical_node()
          Terms,        \* terminal session ids of a host
          NoTerm,       \* "no session id" (Option::None)
          AutoAccept,   \* Session::auto_accept
          ReofferLive,  \* does a window offer a route that is already live here?
          MaxKept       \* COMPLETED_ROUTE_HISTORY

ASSUME SessionAssumption ==
    /\ IsFiniteSet(Routes)
    /\ NodeIds # {}
    /\ NoTerm \notin Terms
    /\ AutoAccept \in BOOLEAN /\ ReofferLive \in BOOLEAN
    /\ MaxKept \in Nat

VARIABLES table,     \* [Routes -> record of RouteRules]
          order,     \* route_order: the ids in the table, oldest insertion first
          term,      \* [Routes -> Terms or NoTerm], LiveRoute::term_session
          running    \* [Routes -> BOOLEAN], the media the effects leave running

vars == <<table, order, term, running>>

Present     == {id \in Routes : table[id].st # Absent}
Completed   == {id \in Routes : table[id].st \in Ended}
SameNode(p, q) == Canon[p] = Canon[q]
AnyPeer     == CHOOSE p \in NodeIds : TRUE

TypeOK ==
    /\ table \in [Routes -> [st : RouteState \cup {Absent}, origin : Origin,
                             peer : NodeIds, tag : {0}]]
    /\ order \in Seq(Routes) /\ Len(order) <= Cardinality(Routes)
    /\ term \in [Routes -> Terms \cup {NoTerm}]
    /\ running \in [Routes -> BOOLEAN]

Init ==
    /\ table = [id \in Routes |-> NoRoute(AnyPeer)]
    /\ order = <<>>
    /\ term = [id \in Routes |-> NoTerm]
    /\ running = [id \in Routes |-> FALSE]

-----------------------------------------------------------------------------
(* How a rule's outcome lands in the table. *)

Has(effects, e) == \E i \in DOMAIN effects : effects[i] = e

RunningAfter(id, effects) ==
    IF Has(effects, Start) THEN TRUE
    ELSE IF Has(effects, Stop) THEN FALSE ELSE running[id]

\* mutant: every insertion queues the id again.
InsertAlwaysQueues(id, r) ==
    /\ table' = [table EXCEPT ![id] = r]
    /\ order' = Append(order, id)

\* insert_route: a new id goes to the back of route_order, a known one keeps its place.
Insert(id, r) ==
    /\ table' = [table EXCEPT ![id] = r]
    /\ order' = IF id \in Present THEN order ELSE Append(order, id)

\* The rule's record and effects for a route whose place in the order stays.
Update(id, outcome) ==
    /\ table' = [table EXCEPT ![id] = outcome.route]
    /\ running' = [running EXCEPT ![id] = RunningAfter(id, outcome.effects)]
    /\ UNCHANGED order

-----------------------------------------------------------------------------
(* Local calls. *)

\* offer_scoped, with the terminal session to attach to, if any.
Offer(id, peer, session) ==
    /\ ReofferLive \/ table[id].st # "active"
    /\ Insert(id, Offered(peer, 0))
    /\ term' = [term EXCEPT ![id] = session]
    /\ UNCHANGED running

\* set_term_session: the host records the shell the route was bound to.
SetTermSession(id, session) ==
    /\ id \in Present
    /\ term' = [term EXCEPT ![id] = session]
    /\ UNCHANGED <<table, order, running>>

ExpireOffer(id) ==
    /\ Update(id, Does(Expired(table[id]), <<>>))
    /\ UNCHANGED term

\* teardown(), called by disconnect(), which stops the media unless the route is torn down.
Teardown(id) ==
    /\ OwesTeardown(table[id])
    /\ Update(id, Does(TornDownLocally(table[id]), <<Stop>>))
    /\ UNCHANGED term

\* prune_completed_routes: the oldest completed records beyond the newest MaxKept.
Place(id) == CHOOSE i \in DOMAIN order : order[i] = id
OlderCompleted(id) == {other \in Completed : Place(other) < Place(id)}

\* mutant: the records past the first MaxKept go, the oldest stay.
PrunableNewest ==
    {id \in Completed : Cardinality(OlderCompleted(id)) >= MaxKept}
Prunable ==
    {id \in Completed : Cardinality(OlderCompleted(id)) + MaxKept < Cardinality(Completed)}

Prune ==
    /\ Prunable # {}
    /\ table' = [id \in Routes |-> IF id \in Prunable THEN NoRoute(AnyPeer) ELSE table[id]]
    /\ term' = [id \in Routes |-> IF id \in Prunable THEN NoTerm ELSE term[id]]
    /\ order' = Retained(order, Routes \ Prunable)
    /\ UNCHANGED running

-----------------------------------------------------------------------------
(* A peer left (drop_peer) or restarted (reap_peer_routes). *)

\* mutant: peers are compared as strings.
RoutesSpelled(p) ==
    {id \in Routes : table[id].st = "active" /\ table[id].peer = p}
RoutesWith(p) ==
    {id \in Routes : table[id].st = "active" /\ SameNode(table[id].peer, p)}

\* Every active route with the peer ends, whichever spelling of its id it was made with.
ReapPeer(p) ==
    /\ table' = [id \in Routes |->
                    IF id \in RoutesWith(p) THEN Reaped(table[id]).route ELSE table[id]]
    /\ running' = [id \in Routes |->
                    IF id \in RoutesWith(p)
                    THEN RunningAfter(id, Reaped(table[id]).effects) ELSE running[id]]
    /\ UNCHANGED <<order, term>>

-----------------------------------------------------------------------------
(* handle_route: control messages from a peer. *)

\* mutant: a repeated offer writes the session it asks for over the bound one.
HandleOfferClobbering(id, from, session) ==
    LET outcome == OnOffer(table[id], from, 0, AutoAccept)
    IN /\ Insert(id, outcome.route)
       /\ running' = [running EXCEPT ![id] = RunningAfter(id, outcome.effects)]
       /\ term' = [term EXCEPT ![id] = session]

\* The asked-for terminal session is kept only when the offer makes a new record.
HandleOffer(id, from, session) ==
    LET outcome == OnOffer(table[id], from, 0, AutoAccept)
        repeated == AlreadyStreaming(table[id])
    IN /\ IF repeated THEN UNCHANGED <<table, order>> ELSE Insert(id, outcome.route)
       /\ running' = [running EXCEPT ![id] = RunningAfter(id, outcome.effects)]
       /\ term' = IF repeated THEN term ELSE [term EXCEPT ![id] = session]

\* The host's echo of the resolved session is kept whatever state the route is in.
HandleAccept(id, session) ==
    /\ id \in Present
    /\ Update(id, OnAccept(table[id]))
    /\ term' = IF session = NoTerm THEN term ELSE [term EXCEPT ![id] = session]

HandleReject(id, from)   == Update(id, OnReject(table[id], from)) /\ UNCHANGED term
HandleTeardown(id)       == Update(id, OnTeardown(table[id])) /\ UNCHANGED term

-----------------------------------------------------------------------------
LocalCall(id) ==
    \/ \E p \in NodeIds, s \in Terms \cup {NoTerm} : Offer(id, p, s)
    \/ \E s \in Terms : SetTermSession(id, s)
    \/ ExpireOffer(id)
    \/ Teardown(id)

Message(id) ==
    \/ \E p \in NodeIds, s \in Terms \cup {NoTerm} : HandleOffer(id, p, s)
    \/ \E s \in Terms \cup {NoTerm} : HandleAccept(id, s)
    \/ \E p \in NodeIds : HandleReject(id, p)
    \/ HandleTeardown(id)

Next ==
    \/ \E id \in Routes : LocalCall(id) \/ Message(id)
    \/ Prune
    \/ \E p \in NodeIds : ReapPeer(p)

Spec == Init /\ [][Next]_vars

-----------------------------------------------------------------------------
(* Properties. *)

\* The history queue and the map agree: every route of the table is queued exactly
\* once and nothing else is (insert_route, prune_completed_routes).  A route missing
\* from the queue would never be pruned, one queued twice would be dropped too early.
OrderMatchesTable ==
    /\ \A id \in Present : \E i \in DOMAIN order : order[i] = id
    /\ \A i \in DOMAIN order : order[i] \in Present
    /\ \A i, j \in DOMAIN order : order[i] = order[j] => i = j

\* Pruning drops completed routes only, and drops a completed route only when every
\* completed route that is older goes with it (prune_completed_routes, "oldest first").
PruneTakesOldestCompleted ==
    [][\A id \in Present \ Present' :
          /\ id \in Completed
          /\ \A other \in Completed : Place(other) < Place(id) => other \notin Present']_vars

\* What the host resolved stays with a streaming route: no message of a peer that
\* repeats the offer takes the bound terminal session away (handle_route, Offer).
BoundTermSurvivesOffers ==
    [][\A id \in Routes :
          (AlreadyStreaming(table[id]) /\ term'[id] # term[id]) => term'[id] # NoTerm]_vars

\* No reaping of a peer, under any spelling of its id, leaves media running with it
\* (drop_peer, reap_peer_routes, canonical_node).
NoMediaWithReapedMachine ==
    [][\A p \in NodeIds, id \in Routes :
          SameNode(table[id].peer, p) /\ running'[id] => ~ReapPeer(p)]_vars

\* The table implements the abstract promise: media starts when a route goes live,
\* runs while it is, and stops in the step that ends it.
PhaseOf(r) ==
    IF r.st = Absent THEN "idle" ELSE IF r.st \in Negotiating THEN "pending"
    ELSE IF r.st = "active" THEN "live" ELSE "over"

Life == INSTANCE RouteLife WITH
            phase <- [id \in Routes |-> PhaseOf(table[id])], media <- running

ImplementsLife == Life!Spec

=============================================================================
