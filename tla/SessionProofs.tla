---------------------------- MODULE SessionProofs ----------------------------
(***************************************************************************)
(* Session.tla, for every set of routes, peer spellings, terminal sessions *)
(* and length of history.  It implements RouteLife.tla at a node that      *)
(* accepts offers itself (Session::new(..).auto_accept, as the node sets   *)
(* it) and whose windows do not offer a route that is live.  At the end,   *)
(* what MCSession puts side by side keeps what is proved of each part.     *)
(***************************************************************************)
EXTENDS MCSession, HostProofs

NodeSettings == AutoAccept /\ ~ReofferLive

Record == [st : RouteState \cup {Absent}, origin : Origin, peer : NodeIds, tag : {0}]

\* Media runs for the active routes and for no other.
MediaFollows ==
    /\ table \in [Routes -> Record]
    /\ running \in [Routes -> BOOLEAN]
    /\ \A id \in Routes : running[id] <=> table[id].st = "active"

phases == [id \in Routes |-> PhaseOf(table[id])]

-----------------------------------------------------------------------------
\* The peer of an absent record is a node id.
LEMMA AnyPeerType == AnyPeer \in NodeIds
BY SessionAssumption DEF AnyPeer

\* A record's phase is live exactly when the record is active.
LEMMA PhaseIsLive ==
    \A r \in Record : /\ PhaseOf(r) = "live" <=> r.st = "active"
                      /\ PhaseOf(r) = "over" <=> r.st \in Ended
                      /\ PhaseOf(r) = "pending" <=> r.st \in Negotiating
                      /\ PhaseOf(r) = "idle" <=> r.st = Absent
BY DEF Record, PhaseOf, RouteState, Negotiating, Ended, Absent

\* What a step does to one route: its record and media move as RouteLife allows.
RouteMoves(id) ==
    LET old == PhaseOf(table[id])
        new == PhaseOf(table'[id])
    IN \/ new = old /\ running'[id] = running[id]
       \/ old # "live" /\ new = "pending" /\ running'[id] = running[id]
       \/ old # "live" /\ new = "live" /\ running'[id] = TRUE
       \/ old \in {"pending", "live"} /\ new = "over" /\ running'[id] = FALSE

\* A step on one route: the rest of the table stays.
OnlyAt(id) ==
    /\ \A other \in Routes \ {id} : table'[other] = table[other] /\ running'[other] = running[other]
    /\ table' \in [Routes -> Record] /\ running' \in [Routes -> BOOLEAN]
    /\ RouteMoves(id)

\* The outcomes an Update may write.
RuleMay(r, o) ==
    /\ o.route \in Record
    /\ \/ o = Does(r, <<>>)
       \/ o.effects = <<>> /\ PhaseOf(o.route) = PhaseOf(r)
       \/ o.effects = <<>> /\ r.st \in Negotiating /\ o.route.st \in Ended
       \/ o.effects = <<Start>> /\ r.st # "active" /\ o.route.st = "active"
       \/ o.effects = <<Stop>> /\ r.st \in Live /\ o.route.st \in Ended
       \/ o.effects = <<Stop>> /\ r.st \in Ended /\ o.route.st \in Ended

\* What each list of effects leaves running.
LEMMA Effects ==
    ASSUME NEW id
    PROVE  /\ RunningAfter(id, <<>>) = running[id]
           /\ RunningAfter(id, <<Start>>) = TRUE
           /\ RunningAfter(id, <<Stop>>) = FALSE
           /\ \A tag : RunningAfter(id, <<Accept(tag)>>) = running[id]
           /\ \A tag : RunningAfter(id, <<Accept(tag), Start>>) = TRUE
<1>1. Start # Stop /\ \A tag : Accept(tag) # Start /\ Accept(tag) # Stop
    BY DEF Start, Stop, Accept
<1>2. ~Has(<<>>, Start) /\ ~Has(<<>>, Stop)
    BY DEF Has
<1>3. Has(<<Start>>, Start)
    BY DEF Has
<1>4. ~Has(<<Stop>>, Start) /\ Has(<<Stop>>, Stop)
    BY <1>1 DEF Has
<1>5. \A tag : ~Has(<<Accept(tag)>>, Start) /\ ~Has(<<Accept(tag)>>, Stop)
    BY <1>1 DEF Has
<1>6. \A tag : Has(<<Accept(tag), Start>>, Start)
    <2> TAKE tag
    <2>1. 2 \in DOMAIN <<Accept(tag), Start>> /\ <<Accept(tag), Start>>[2] = Start
        OBVIOUS
    <2> QED BY <2>1 DEF Has
<1> QED BY <1>2, <1>3, <1>4, <1>5, <1>6 DEF RunningAfter

\* What each message rule may do to a record and to its media.
LEMMA RuleOutcomes ==
    ASSUME NEW r \in Record
    PROVE  /\ RuleMay(r, Does(Expired(r), <<>>))
           /\ OwesTeardown(r) => RuleMay(r, Does(TornDownLocally(r), <<Stop>>))
           /\ RuleMay(r, OnAccept(r)) /\ RuleMay(r, OnTeardown(r)) /\ RuleMay(r, Reaped(r))
           /\ \A p \in NodeIds : RuleMay(r, OnReject(r, p))
BY DEF Record, RuleMay, Does, Expired, TornDownLocally, OwesTeardown, OnAccept, OnTeardown,
       OnReject, Reaped, RouteState, Negotiating, Ended, Live, Absent, PhaseOf

\* A rule's outcome on one route is a step of the abstract specification.
LEMMA UpdateMoves ==
    ASSUME MediaFollows, NEW id \in Routes, NEW o, RuleMay(table[id], o), Update(id, o)
    PROVE  OnlyAt(id)
<1>1. table[id] \in Record /\ o.route \in Record
    BY DEF MediaFollows, RuleMay
<1>2. /\ table' = [table EXCEPT ![id] = o.route]
      /\ running' = [running EXCEPT ![id] = RunningAfter(id, o.effects)]
    BY DEF Update
<1>3. table'[id] = o.route /\ running'[id] = RunningAfter(id, o.effects)
    BY <1>2 DEF MediaFollows
<1>4. RouteMoves(id) /\ running'[id] \in BOOLEAN
    <2>1. running[id] \in BOOLEAN /\ (running[id] <=> table[id].st = "active")
        BY DEF MediaFollows
    <2>2. /\ PhaseOf(table[id]) = "live" <=> table[id].st = "active"
          /\ table[id].st \in Ended => PhaseOf(table[id]) = "over"
          /\ table[id].st \in Negotiating => PhaseOf(table[id]) = "pending"
          /\ o.route.st \in Ended => PhaseOf(o.route) = "over"
          /\ o.route.st = "active" => PhaseOf(o.route) = "live"
        BY <1>1, PhaseIsLive
    <2>3. CASE o = Does(table[id], <<>>)
        BY <1>3, <2>1, <2>3, Effects DEF RouteMoves, Does
    <2>4. CASE o.effects = <<>> /\ PhaseOf(o.route) = PhaseOf(table[id])
        BY <1>3, <2>1, <2>4, Effects DEF RouteMoves
    <2>5. CASE o.effects = <<>> /\ table[id].st \in Negotiating /\ o.route.st \in Ended
        <3>1. running'[id] = FALSE
            BY <1>3, <2>1, <2>5, Effects DEF Negotiating
        <3> QED BY <1>3, <2>2, <2>5, <3>1 DEF RouteMoves
    <2>6. CASE o.effects = <<Start>> /\ table[id].st # "active" /\ o.route.st = "active"
        <3>1. running'[id] = TRUE
            BY <1>3, <2>6, Effects
        <3> QED BY <1>3, <2>2, <2>6, <3>1 DEF RouteMoves
    <2>7. CASE o.effects = <<Stop>> /\ table[id].st \in Live /\ o.route.st \in Ended
        <3>1. running'[id] = FALSE
            BY <1>3, <2>7, Effects
        <3>2. PhaseOf(table[id]) \in {"pending", "live"}
            BY <2>2, <2>7 DEF Live
        <3> QED BY <1>3, <2>2, <2>7, <3>1, <3>2 DEF RouteMoves
    <2>8. CASE o.effects = <<Stop>> /\ table[id].st \in Ended /\ o.route.st \in Ended
        <3>1. running'[id] = FALSE /\ running[id] = FALSE
            BY <1>3, <2>1, <2>8, Effects DEF Ended
        <3> QED BY <1>3, <2>2, <2>8, <3>1 DEF RouteMoves
    <2> QED BY <2>3, <2>4, <2>5, <2>6, <2>7, <2>8 DEF RuleMay
<1> QED BY <1>1, <1>2, <1>4 DEF OnlyAt, MediaFollows

-----------------------------------------------------------------------------
(* Every action moves one route, leaves the media alone, prunes or reaps. *)

\* A local offer opens a negotiation.
LEMMA OfferMoves ==
    ASSUME NodeSettings, MediaFollows, NEW id \in Routes, NEW p \in NodeIds, NEW s, Offer(id, p, s)
    PROVE  OnlyAt(id)
<1>1. Offered(p, 0) \in Record /\ Offered(p, 0).st = "offered"
    BY DEF Offered, Route, Record, RouteState, Negotiating, Origin
<1>2. table' = [table EXCEPT ![id] = Offered(p, 0)] /\ running' = running
    BY DEF Offer, Insert
<1>3. table'[id] = Offered(p, 0) /\ table[id] \in Record /\ table[id].st # "active"
    BY <1>2 DEF MediaFollows, Offer, NodeSettings
<1>4. RouteMoves(id)
    BY <1>1, <1>2, <1>3, PhaseIsLive DEF RouteMoves, Negotiating
<1> QED BY <1>1, <1>2, <1>4 DEF OnlyAt, MediaFollows

\* A remote offer makes the route live, or acknowledges the live one.
LEMMA HandleOfferMoves ==
    ASSUME NodeSettings, MediaFollows, NEW id \in Routes, NEW p \in NodeIds, NEW s,
           HandleOffer(id, p, s)
    PROVE  OnlyAt(id)
<1>1. /\ table[id] \in Record
      /\ running[id] <=> table[id].st = "active"
      /\ running[id] \in BOOLEAN
    BY DEF MediaFollows
<1>2. CASE AlreadyStreaming(table[id])
    <2>1. OnOffer(table[id], p, 0, AutoAccept).effects = <<Accept(0)>>
        BY <1>2 DEF OnOffer, Does
    <2>2. table' = table /\ running' = [running EXCEPT ![id] = running[id]]
        BY <1>2, <2>1, Effects DEF HandleOffer
    <2> QED BY <2>2 DEF OnlyAt, RouteMoves, MediaFollows
<1>3. CASE ~AlreadyStreaming(table[id])
    <2> DEFINE new == Route("active", "inbound", p, 0)
               o   == OnOffer(table[id], p, 0, AutoAccept)
    <2>1. o.route = new /\ o.effects = <<Accept(0), Start>>
        BY <1>3 DEF OnOffer, NodeSettings, Does
    <2>2. RunningAfter(id, o.effects) = TRUE
        BY <2>1, Effects
    <2>3. new \in Record /\ new.st = "active"
        BY DEF Route, Record, RouteState, Origin
    <2>4. table' = [table EXCEPT ![id] = new] /\ running' = [running EXCEPT ![id] = TRUE]
        BY <1>3, <2>1, <2>2 DEF HandleOffer, Insert
    <2>5. table'[id] = new /\ running'[id] = TRUE
        BY <2>4 DEF MediaFollows
    <2>6. RouteMoves(id)
        BY <1>1, <2>3, <2>5, PhaseIsLive DEF RouteMoves
    <2> QED BY <2>3, <2>4, <2>6 DEF OnlyAt, MediaFollows
<1> QED BY <1>2, <1>3

\* Local calls and messages move one route.
LEMMA OneRouteMoves ==
    ASSUME NodeSettings, MediaFollows, NEW id \in Routes, LocalCall(id) \/ Message(id)
    PROVE  OnlyAt(id)
<1>1. table[id] \in Record
    BY DEF MediaFollows
<1>2. CASE \E p \in NodeIds, s \in Terms \cup {NoTerm} : Offer(id, p, s)
    BY <1>2, OfferMoves
<1>3. CASE \E s \in Terms : SetTermSession(id, s)
    BY <1>3 DEF SetTermSession, OnlyAt, RouteMoves, MediaFollows
<1>4. CASE ExpireOffer(id)
    BY <1>1, <1>4, RuleOutcomes, UpdateMoves DEF ExpireOffer
<1>5. CASE Teardown(id)
    BY <1>1, <1>5, RuleOutcomes, UpdateMoves DEF Teardown
<1>6. CASE \E p \in NodeIds, s \in Terms \cup {NoTerm} : HandleOffer(id, p, s)
    BY <1>6, HandleOfferMoves
<1>7. CASE \E s \in Terms \cup {NoTerm} : HandleAccept(id, s)
    BY <1>1, <1>7, RuleOutcomes, UpdateMoves DEF HandleAccept
<1>8. CASE \E p \in NodeIds : HandleReject(id, p)
    BY <1>1, <1>8, RuleOutcomes, UpdateMoves DEF HandleReject
<1>9. CASE HandleTeardown(id)
    BY <1>1, <1>9, RuleOutcomes, UpdateMoves DEF HandleTeardown
<1> QED BY <1>2, <1>3, <1>4, <1>5, <1>6, <1>7, <1>8, <1>9 DEF LocalCall, Message

\* What OneRouteMoves means to RouteLife.
LEMMA OnlyAtSteps ==
    ASSUME MediaFollows, NEW id \in Routes, OnlyAt(id)
    PROVE  MediaFollows' /\ [Life!Next]_(Life!vars)
<1>1. /\ table[id] \in Record /\ table'[id] \in Record
      /\ PhaseOf(table[id]) = "live" <=> table[id].st = "active"
      /\ PhaseOf(table'[id]) = "live" <=> table'[id].st = "active"
    BY PhaseIsLive DEF MediaFollows, OnlyAt
<1>2. running'[id] <=> table'[id].st = "active"
    BY <1>1 DEF RouteMoves, OnlyAt, MediaFollows
<1>3. MediaFollows'
    BY <1>2 DEF MediaFollows, OnlyAt
<1>4. /\ phases' = [phases EXCEPT ![id] = PhaseOf(table'[id])]
      /\ running' = [running EXCEPT ![id] = running'[id]]
      /\ phases[id] = PhaseOf(table[id])
    BY DEF phases, OnlyAt, MediaFollows
<1>5. CASE PhaseOf(table'[id]) = PhaseOf(table[id]) /\ running'[id] = running[id]
    <2>1. phases' = phases /\ running' = running
        BY <1>4, <1>5 DEF phases, MediaFollows
    <2> QED BY <1>3, <2>1 DEF Life!vars, phases
<1>6. CASE PhaseOf(table[id]) # "live" /\ PhaseOf(table'[id]) = "pending" /\ running'[id] = running[id]
    <2>1. running' = running
        BY <1>4, <1>6 DEF MediaFollows
    <2>2. Life!Negotiate(id)
        BY <1>4, <1>6, <2>1 DEF Life!Negotiate, phases
    <2> QED BY <1>3, <2>2 DEF Life!Next
<1>7. CASE PhaseOf(table[id]) # "live" /\ PhaseOf(table'[id]) = "live" /\ running'[id] = TRUE
    <2>1. Life!GoLive(id)
        BY <1>4, <1>7 DEF Life!GoLive, phases
    <2> QED BY <1>3, <2>1 DEF Life!Next
<1>8. CASE PhaseOf(table[id]) \in {"pending", "live"} /\ PhaseOf(table'[id]) = "over" /\ running'[id] = FALSE
    <2>1. /\ phases' = [other \in Routes |-> IF other \in {id} THEN "over" ELSE phases[other]]
          /\ running' = [other \in Routes |-> running[other] /\ other \notin {id}]
        BY <1>4, <1>8 DEF phases, MediaFollows
    <2>2. Life!End({id})
        BY <1>4, <1>8, <2>1 DEF Life!End, phases
    <2> QED BY <1>3, <2>2 DEF Life!Next
<1> QED BY <1>5, <1>6, <1>7, <1>8 DEF OnlyAt, RouteMoves

\* Pruning forgets routes that are over.
LEMMA PruneSteps ==
    ASSUME MediaFollows, Prune
    PROVE  MediaFollows' /\ [Life!Next]_(Life!vars)
<1>1. /\ table' = [id \in Routes |-> IF id \in Prunable THEN NoRoute(AnyPeer) ELSE table[id]]
      /\ running' = running
    BY DEF Prune
<1>2. NoRoute(AnyPeer) \in Record /\ NoRoute(AnyPeer).st = Absent
    BY AnyPeerType DEF NoRoute, Record, Origin
<1>3. \A id \in Prunable : id \in Routes /\ table[id].st \in Ended
    BY DEF Prunable, Completed
<1>4. \A id \in Routes : table[id] \in Record
    BY DEF MediaFollows
<1>5. MediaFollows'
    BY <1>1, <1>2, <1>3 DEF MediaFollows, Ended, Absent
<1>6. \A id \in Routes : PhaseOf(table'[id]) = IF id \in Prunable THEN "idle" ELSE PhaseOf(table[id])
    BY <1>1, <1>2, PhaseIsLive
<1>7. \A id \in Prunable : PhaseOf(table[id]) = "over"
    BY <1>3, <1>4, PhaseIsLive
<1>8. Life!Forget(Prunable)
    BY <1>1, <1>3, <1>6, <1>7 DEF Life!Forget
<1>9. Prunable \in SUBSET Routes
    BY <1>3
<1> QED BY <1>5, <1>8, <1>9 DEF Life!Next

\* Reaping a peer ends a set of live routes together.
LEMMA ReapSteps ==
    ASSUME MediaFollows, NEW p \in NodeIds, ReapPeer(p)
    PROVE  MediaFollows' /\ [Life!Next]_(Life!vars)
<1> DEFINE S == RoutesWith(p)
<1>1. S \in SUBSET Routes /\ \A id \in S : table[id] \in Record /\ table[id].st = "active"
    BY DEF RoutesWith, MediaFollows
<1>2. \A id \in S : /\ Reaped(table[id]).route \in Record
                    /\ Reaped(table[id]).route.st = "torndown"
                    /\ Reaped(table[id]).effects = <<Stop>>
    BY <1>1 DEF Reaped, Does, Record, RouteState, Ended
<1>3. table' = [id \in Routes |-> IF id \in S THEN Reaped(table[id]).route ELSE table[id]]
    BY DEF ReapPeer
<1>4. running' = [id \in Routes |-> IF id \in S THEN FALSE ELSE running[id]]
    BY <1>2, Effects DEF ReapPeer
<1>5. MediaFollows'
    BY <1>1, <1>2, <1>3, <1>4 DEF MediaFollows
<1>6. \A id \in S : PhaseOf(table[id]) = "live"
    BY <1>1, PhaseIsLive
<1>7. \A id \in S : PhaseOf(table'[id]) = "over"
    BY <1>1, <1>2, <1>3, PhaseIsLive DEF Ended
<1>8. \A id \in Routes : PhaseOf(table'[id]) = IF id \in S THEN "over" ELSE PhaseOf(table[id])
    BY <1>3, <1>7
<1>9. running' = [id \in Routes |-> running[id] /\ id \notin S]
    BY <1>4 DEF MediaFollows
<1>10. Life!End(S)
    BY <1>1, <1>6, <1>8, <1>9 DEF Life!End
<1> QED BY <1>1, <1>5, <1>10 DEF Life!Next

\* Every step of the table is a step of the abstract specification or a stutter.
LEMMA LifeStep ==
    ASSUME NodeSettings, MediaFollows, [Next]_vars
    PROVE  MediaFollows' /\ [Life!Next]_(Life!vars)
<1>1. CASE UNCHANGED vars
    BY <1>1 DEF vars, MediaFollows, Life!vars
<1>2. CASE \E id \in Routes : LocalCall(id) \/ Message(id)
    BY <1>2, OneRouteMoves, OnlyAtSteps
<1>3. CASE Prune
    BY <1>3, PruneSteps
<1>4. CASE \E p \in NodeIds : ReapPeer(p)
    BY <1>4, ReapSteps
<1> QED BY <1>1, <1>2, <1>3, <1>4 DEF Next

\* The empty table is the abstract initial state.
LEMMA LifeInit == Init => MediaFollows /\ Life!Init
<1> SUFFICES ASSUME Init PROVE MediaFollows /\ Life!Init
    OBVIOUS
<1>1. NoRoute(AnyPeer) \in Record /\ NoRoute(AnyPeer).st = Absent
    BY AnyPeerType DEF NoRoute, Record, Origin
<1>2. MediaFollows
    BY <1>1 DEF Init, MediaFollows, Absent
<1> QED BY <1>1, <1>2, PhaseIsLive DEF Init, Life!Init

-----------------------------------------------------------------------------
\* Media runs for the active routes and no others, always (handle_route, teardown,
\* reap_peer_routes, insert_route over any older record).
THEOREM MediaFollowsRoutes == NodeSettings => (Spec => []MediaFollows)
<1> SUFFICES ASSUME NodeSettings PROVE Spec => []MediaFollows
    OBVIOUS
<1>1. Init => MediaFollows
    BY LifeInit
<1>2. MediaFollows /\ [Next]_vars => MediaFollows'
    BY LifeStep
<1> QED BY <1>1, <1>2, PTL DEF Spec

\* The route table implements RouteLife: a route's media starts in the step that makes it
\* live and stops in the step that ends it, and no live or pending route is ever pruned.
THEOREM TableImplements == NodeSettings => (Spec => ImplementsLife)
<1> SUFFICES ASSUME NodeSettings PROVE Spec => ImplementsLife
    OBVIOUS
<1>1. Init => Life!Init
    BY LifeInit
<1>2. MediaFollows /\ [Next]_vars => [Life!Next]_(Life!vars)
    BY LifeStep
<1>3. Spec => []MediaFollows
    BY MediaFollowsRoutes
<1> QED BY <1>1, <1>2, <1>3, PTL DEF Spec, ImplementsLife, Life!Spec

-----------------------------------------------------------------------------
(* The table and its history, whatever the settings. *)

\* What is queued, each id once.
QueuesPresent(queue, present) ==
    /\ queue \in Seq(Routes)
    /\ \A id \in present : \E i \in DOMAIN queue : queue[i] = id
    /\ \A i \in DOMAIN queue : queue[i] \in present
    /\ \A i, j \in DOMAIN queue : queue[i] = queue[j] => i = j

TableInv ==
    /\ table \in [Routes -> Record]
    /\ term \in [Routes -> Terms \cup {NoTerm}]
    /\ running \in [Routes -> BOOLEAN]
    /\ QueuesPresent(order, Present)

\* A queue of ids without repetition is no longer than there are ids.
LEMMA QueueIsShort ==
    ASSUME NEW queue, NEW present, QueuesPresent(queue, present)
    PROVE  Len(queue) <= Cardinality(Routes)
<1>1. queue \in Seq(Routes) /\ Len(queue) \in Nat
    BY DEF QueuesPresent
<1>2. IsFiniteSet(Routes) /\ Cardinality(Routes) \in Nat
    BY SessionAssumption, FS_CardinalityType
<1>3. queue \in Injection(1 .. Len(queue), Routes)
    <2>1. queue \in [1 .. Len(queue) -> Routes] /\ DOMAIN queue = 1 .. Len(queue)
        BY <1>1
    <2>2. \A i, j \in 1 .. Len(queue) : queue[i] = queue[j] => i = j
        BY <2>1 DEF QueuesPresent
    <2> QED BY <2>1, <2>2, Zenon DEF Injection, IsInjective
<1>4. Cardinality(1 .. Len(queue)) = Len(queue)
    <2>1. 1 \in Int /\ Len(queue) \in Int
        BY <1>1
    <2>2. Cardinality(1 .. Len(queue)) = IF 1 > Len(queue) THEN 0 ELSE Len(queue) - 1 + 1
        BY <2>1, FS_Interval
    <2> QED BY <1>1, <2>2
<1>5. Cardinality(1 .. Len(queue)) <= Cardinality(Routes)
    BY <1>2, <1>3, FS_Injection
<1> QED BY <1>4, <1>5

LEMMA TableInvIsTypes == TableInv => TypeOK /\ OrderMatchesTable
<1> SUFFICES ASSUME TableInv PROVE TypeOK /\ OrderMatchesTable
    OBVIOUS
<1>1. Len(order) <= Cardinality(Routes)
    BY QueueIsShort DEF TableInv
<1> QED BY <1>1 DEF TableInv, QueuesPresent, TypeOK, OrderMatchesTable, Record

\* An id that comes back keeps its place, a new one goes to the back.
LEMMA InsertKeeps ==
    ASSUME TableInv, NEW id \in Routes, NEW r \in Record, r.st # Absent, Insert(id, r)
    PROVE  /\ table' \in [Routes -> Record] /\ QueuesPresent(order', Present')
           /\ Present \subseteq Present'
<1>1. /\ table' = [table EXCEPT ![id] = r]
      /\ order' = IF id \in Present THEN order ELSE Append(order, id)
    BY DEF Insert
<1>2. table' \in [Routes -> Record] /\ Present' = Present \cup {id}
    BY <1>1 DEF TableInv, Present
<1>3. CASE id \in Present
    <2>1. Present' = Present /\ order' = order
        BY <1>1, <1>2, <1>3
    <2> QED BY <1>2, <2>1 DEF TableInv
<1>4. CASE id \notin Present
    <2> DEFINE more == Append(order, id)
    <2>1. order \in Seq(Routes) /\ \A i \in DOMAIN order : order[i] \in Present
        BY DEF TableInv, QueuesPresent
    <2>2. /\ more \in Seq(Routes) /\ DOMAIN more = DOMAIN order \cup {Len(order) + 1}
          /\ more[Len(order) + 1] = id /\ Len(order) + 1 \notin DOMAIN order
          /\ \A i \in DOMAIN order : more[i] = order[i]
        BY <2>1
    <2> HIDE DEF more
    <2>3. \A other \in Present \cup {id} : \E i \in DOMAIN more : more[i] = other
        BY <2>2 DEF TableInv, QueuesPresent
    <2>4. \A i \in DOMAIN more : more[i] \in Present \cup {id}
        BY <2>1, <2>2
    <2>5. \A i, j \in DOMAIN more : more[i] = more[j] => i = j
        BY <1>4, <2>1, <2>2 DEF TableInv, QueuesPresent
    <2>6. QueuesPresent(more, Present \cup {id})
        BY <2>2, <2>3, <2>4, <2>5 DEF QueuesPresent
    <2>7. order' = more
        BY <1>1, <1>4 DEF more
    <2> QED BY <1>2, <2>6, <2>7
<1> QED BY <1>3, <1>4

\* A rule's record in place of the one that was there.
LEMMA UpdateKeeps ==
    ASSUME TableInv, NEW id \in Routes, NEW o,
           o.route \in Record, o.route.st = Absent <=> table[id].st = Absent, Update(id, o)
    PROVE  /\ table' \in [Routes -> Record] /\ running' \in [Routes -> BOOLEAN]
           /\ order' = order /\ Present' = Present
<1>1. RunningAfter(id, o.effects) \in BOOLEAN
    BY DEF RunningAfter, TableInv
<1>2. /\ table' = [table EXCEPT ![id] = o.route]
      /\ running' = [running EXCEPT ![id] = RunningAfter(id, o.effects)]
      /\ order' = order
    BY DEF Update
<1> QED BY <1>1, <1>2 DEF TableInv, Present

\* No rule makes a record of nothing, or nothing of a record.
LEMMA RulesKeepRecords ==
    ASSUME NEW r \in Record
    PROVE  /\ LET o == Does(Expired(r), <<>>)
              IN o.route \in Record /\ (o.route.st = Absent <=> r.st = Absent)
           /\ LET o == Does(TornDownLocally(r), <<Stop>>)
              IN o.route \in Record /\ (o.route.st = Absent <=> r.st = Absent)
           /\ \A o \in {OnAccept(r), OnTeardown(r), Reaped(r)} :
                  o.route \in Record /\ (o.route.st = Absent <=> r.st = Absent)
           /\ \A p \in NodeIds : LET o == OnReject(r, p)
              IN o.route \in Record /\ (o.route.st = Absent <=> r.st = Absent)
           /\ \A p \in NodeIds : LET o == OnOffer(r, p, 0, AutoAccept)
              IN o.route \in Record /\ o.route.st # Absent
BY DEF Record, Does, Expired, TornDownLocally, OnAccept, OnTeardown, OnReject, OnOffer,
       AlreadyStreaming, Route, Reaped, RouteState, Negotiating, Ended, Live, Absent, Origin

LEMMA OfferedIsRecord ==
    \A p \in NodeIds : Offered(p, 0) \in Record /\ Offered(p, 0).st # Absent
BY DEF Offered, Route, Record, RouteState, Negotiating, Origin, Absent

\* Calls and messages of one route: none takes a route out of the table.
LEMMA RouteStepKeeps ==
    ASSUME TableInv, NEW id \in Routes, LocalCall(id) \/ Message(id)
    PROVE  TableInv' /\ Present \subseteq Present'
<1>0. table[id] \in Record
    BY DEF TableInv
<1>u. ASSUME NEW o, o.route \in Record, o.route.st = Absent <=> table[id].st = Absent,
             Update(id, o), term' \in [Routes -> Terms \cup {NoTerm}]
      PROVE  TableInv' /\ Present \subseteq Present'
    BY <1>u, UpdateKeeps DEF TableInv
<1>i. ASSUME NEW r \in Record, r.st # Absent, Insert(id, r),
             term' \in [Routes -> Terms \cup {NoTerm}], running' \in [Routes -> BOOLEAN]
      PROVE  TableInv' /\ Present \subseteq Present'
    BY <1>i, InsertKeeps DEF TableInv
<1>t. \A s \in Terms \cup {NoTerm} :
          [term EXCEPT ![id] = s] \in [Routes -> Terms \cup {NoTerm}]
    BY DEF TableInv
<1>1. ASSUME NEW p \in NodeIds, NEW s \in Terms \cup {NoTerm}, Offer(id, p, s)
      PROVE  TableInv' /\ Present \subseteq Present'
    <2>1. /\ Insert(id, Offered(p, 0)) /\ running' = running
          /\ term' \in [Routes -> Terms \cup {NoTerm}]
        BY <1>1, <1>t DEF Offer
    <2> QED BY <1>i, <2>1, OfferedIsRecord DEF TableInv
<1>2. ASSUME NEW s \in Terms, SetTermSession(id, s)
      PROVE  TableInv' /\ Present \subseteq Present'
    BY <1>2, <1>t DEF SetTermSession, TableInv, Present
<1>3. CASE ExpireOffer(id)
    <2>1. Update(id, Does(Expired(table[id]), <<>>)) /\ term' = term
        BY <1>3 DEF ExpireOffer
    <2> QED BY <1>0, <1>u, <2>1, RulesKeepRecords DEF TableInv
<1>4. CASE Teardown(id)
    <2>1. Update(id, Does(TornDownLocally(table[id]), <<Stop>>)) /\ term' = term
        BY <1>4 DEF Teardown
    <2> QED BY <1>0, <1>u, <2>1, RulesKeepRecords DEF TableInv
<1>5. ASSUME NEW p \in NodeIds, NEW s \in Terms \cup {NoTerm}, HandleOffer(id, p, s)
      PROVE  TableInv' /\ Present \subseteq Present'
    <2> DEFINE o == OnOffer(table[id], p, 0, AutoAccept)
    <2>1. o.route \in Record /\ o.route.st # Absent
        BY <1>0, RulesKeepRecords
    <2>2. /\ IF AlreadyStreaming(table[id]) THEN UNCHANGED <<table, order>>
             ELSE Insert(id, o.route)
          /\ running' = [running EXCEPT ![id] = RunningAfter(id, o.effects)]
          /\ term' = IF AlreadyStreaming(table[id]) THEN term ELSE [term EXCEPT ![id] = s]
        BY <1>5 DEF HandleOffer
    <2>3. RunningAfter(id, o.effects) \in BOOLEAN
        BY DEF RunningAfter, TableInv
    <2> HIDE DEF o
    <2>4. running' \in [Routes -> BOOLEAN] /\ term' \in [Routes -> Terms \cup {NoTerm}]
        BY <1>t, <2>2, <2>3 DEF TableInv
    <2>5. CASE AlreadyStreaming(table[id])
        BY <2>2, <2>4, <2>5 DEF TableInv, Present
    <2>6. CASE ~AlreadyStreaming(table[id])
        BY <1>i, <2>1, <2>2, <2>4, <2>6
    <2> QED BY <2>5, <2>6
<1>6. ASSUME NEW s \in Terms \cup {NoTerm}, HandleAccept(id, s)
      PROVE  TableInv' /\ Present \subseteq Present'
    <2>1. /\ Update(id, OnAccept(table[id]))
          /\ term' \in [Routes -> Terms \cup {NoTerm}]
        BY <1>6, <1>t DEF HandleAccept, TableInv
    <2> QED BY <1>0, <1>u, <2>1, RulesKeepRecords
<1>7. ASSUME NEW p \in NodeIds, HandleReject(id, p)
      PROVE  TableInv' /\ Present \subseteq Present'
    <2>1. Update(id, OnReject(table[id], p)) /\ term' = term
        BY <1>7 DEF HandleReject
    <2> QED BY <1>0, <1>u, <2>1, RulesKeepRecords DEF TableInv
<1>8. CASE HandleTeardown(id)
    <2>1. Update(id, OnTeardown(table[id])) /\ term' = term
        BY <1>8 DEF HandleTeardown
    <2> QED BY <1>0, <1>u, <2>1, RulesKeepRecords DEF TableInv
<1> QED BY <1>1, <1>2, <1>3, <1>4, <1>5, <1>6, <1>7, <1>8 DEF LocalCall, Message

\* What is pruned leaves table and queue together.
LEMMA PruneKeeps ==
    ASSUME TableInv, Prune
    PROVE  TableInv' /\ Present' = Present \ Prunable
<1> DEFINE stay == Routes \ Prunable
<1>1. /\ table' = [id \in Routes |-> IF id \in Prunable THEN NoRoute(AnyPeer) ELSE table[id]]
      /\ term' = [id \in Routes |-> IF id \in Prunable THEN NoTerm ELSE term[id]]
      /\ order' = Retained(order, stay) /\ running' = running
    BY DEF Prune
<1>2. NoRoute(AnyPeer) \in Record /\ NoRoute(AnyPeer).st = Absent
    BY AnyPeerType DEF NoRoute, Record, Origin
<1>3. Present' = Present \ Prunable /\ table' \in [Routes -> Record]
    BY <1>1, <1>2 DEF TableInv, Present
<1>4. term' \in [Routes -> Terms \cup {NoTerm}]
    BY <1>1 DEF TableInv
<1>5. Present \subseteq Routes
    BY DEF Present
<1> HIDE DEF stay
<1>6. PICK part : part = order'
    OBVIOUS
<1>7. order \in Seq(Routes) /\ DOMAIN order = 1 .. Len(order)
    BY DEF TableInv, QueuesPresent
<1>8. Kept(part, order, stay, Len(order))
    BY <1>1, <1>6, <1>7, RetainedKeeps
<1>9. PICK place :
                /\ part \in Seq(stay) /\ place \in [DOMAIN part -> 1 .. Len(order)]
                /\ \A i \in DOMAIN part : part[i] = order[place[i]]
                /\ \A i, j \in DOMAIN part : i < j => place[i] < place[j]
                /\ \A p \in 1 .. Len(order) :
                       order[p] \in stay => \E i \in DOMAIN part : place[i] = p
    BY <1>8 DEF Kept
<1>10. part \in Seq(Routes) /\ \A i \in DOMAIN part : part[i] \in stay
    BY <1>9 DEF stay
<1>11. ASSUME NEW id \in Present \ Prunable PROVE \E i \in DOMAIN part : part[i] = id
    <2>1. PICK p \in DOMAIN order : order[p] = id
        BY DEF TableInv, QueuesPresent
    <2>2. id \in stay
        BY <1>5 DEF stay
    <2>3. PICK i \in DOMAIN part : place[i] = p
        BY <1>7, <1>9, <2>1, <2>2
    <2> QED BY <1>9, <2>1, <2>3
<1>12. \A i \in DOMAIN part : part[i] \in Present \ Prunable
    BY <1>7, <1>9, <1>10 DEF TableInv, QueuesPresent, stay
<1>13. ASSUME NEW i \in DOMAIN part, NEW j \in DOMAIN part, part[i] = part[j] PROVE i = j
    <2>1. place[i] = place[j]
        BY <1>7, <1>9, <1>13 DEF TableInv, QueuesPresent
    <2>2. /\ i \in Nat /\ j \in Nat /\ place[i] \in Nat /\ place[j] \in Nat
          /\ (i < j => place[i] < place[j]) /\ (j < i => place[j] < place[i])
        BY <1>9
    <2> QED BY <2>1, <2>2
<1>14. QueuesPresent(part, Present \ Prunable)
    BY <1>10, <1>11, <1>12, <1>13 DEF QueuesPresent
<1> QED BY <1>1, <1>3, <1>4, <1>6, <1>14 DEF TableInv

LEMMA ReapKeeps ==
    ASSUME TableInv, NEW p \in NodeIds, ReapPeer(p)
    PROVE  TableInv' /\ Present' = Present
<1>1. \A id \in Routes : /\ table[id] \in Record /\ Reaped(table[id]).route \in Record
                         /\ Reaped(table[id]).route.st = Absent <=> table[id].st = Absent
    BY RulesKeepRecords DEF TableInv
<1>2. \A id \in Routes : RunningAfter(id, Reaped(table[id]).effects) \in BOOLEAN
    BY DEF RunningAfter, TableInv
<1>3. /\ table' = [id \in Routes |->
                    IF id \in RoutesWith(p) THEN Reaped(table[id]).route ELSE table[id]]
      /\ running' = [id \in Routes |->
                    IF id \in RoutesWith(p)
                    THEN RunningAfter(id, Reaped(table[id]).effects) ELSE running[id]]
      /\ order' = order /\ term' = term
    BY DEF ReapPeer
<1>4. table' \in [Routes -> Record] /\ Present' = Present
    BY <1>1, <1>3 DEF Present
<1>5. running' \in [Routes -> BOOLEAN]
    BY <1>2, <1>3 DEF TableInv
<1> QED BY <1>3, <1>4, <1>5 DEF TableInv

LEMMA TableInvInit == Init => TableInv
<1> SUFFICES ASSUME Init PROVE TableInv
    OBVIOUS
<1>1. NoRoute(AnyPeer) \in Record /\ NoRoute(AnyPeer).st = Absent
    BY AnyPeerType DEF NoRoute, Record, Origin
<1>2. Present = {} /\ order = <<>> /\ DOMAIN <<>> = {} /\ <<>> \in Seq(Routes)
    BY <1>1 DEF Init, Present
<1>3. QueuesPresent(order, Present)
    BY <1>2 DEF QueuesPresent
<1> QED BY <1>1, <1>3 DEF Init, TableInv

LEMMA TableStep == TableInv /\ [Next]_vars => TableInv'
<1> SUFFICES ASSUME TableInv, [Next]_vars PROVE TableInv'
    OBVIOUS
<1>1. CASE UNCHANGED vars
    BY <1>1 DEF vars, TableInv, Present
<1>2. CASE \E id \in Routes : LocalCall(id) \/ Message(id)
    BY <1>2, RouteStepKeeps
<1>3. CASE Prune
    BY <1>3, PruneKeeps
<1>4. CASE \E p \in NodeIds : ReapPeer(p)
    BY <1>4, ReapKeeps
<1> QED BY <1>1, <1>2, <1>3, <1>4 DEF Next

LEMMA TableInvHolds == Spec => []TableInv
<1>1. Init => TableInv
    BY TableInvInit
<1>2. TableInv /\ [Next]_vars => TableInv'
    BY TableStep
<1> QED BY <1>1, <1>2, PTL DEF Spec

\* Whatever the settings, the map of routes and the queue of its history name the same ids,
\* each once, and hold only the shapes the code makes (insert_route,
\* prune_completed_routes).
THEOREM TableTypeHolds == Spec => [](TypeOK /\ OrderMatchesTable)
<1>1. TableInv => TypeOK /\ OrderMatchesTable
    BY TableInvIsTypes
<1> QED BY <1>1, TableInvHolds, PTL

\* What is older than a pruned route is older than fewer: it is pruned as well.
LEMMA OldestArePruned ==
    ASSUME TableInv, NEW id \in Prunable, NEW other \in Completed, Place(other) < Place(id)
    PROVE  other \in Prunable
<1>1. \A r \in Completed : Place(r) \in Nat
    <2> SUFFICES ASSUME NEW r \in Completed PROVE Place(r) \in Nat
        OBVIOUS
    <2>1. r \in Present
        BY DEF Completed, Present, Ended, Absent
    <2>2. \E i \in DOMAIN order : order[i] = r
        BY <2>1 DEF TableInv, QueuesPresent
    <2>3. Place(r) \in DOMAIN order
        BY <2>2 DEF Place
    <2>4. DOMAIN order = 1 .. Len(order) /\ Len(order) \in Nat
        BY DEF TableInv, QueuesPresent
    <2> QED BY <2>3, <2>4
<1>2. id \in Completed /\ Cardinality(OlderCompleted(id)) + MaxKept < Cardinality(Completed)
    BY DEF Prunable
<1>3. OlderCompleted(other) \subseteq OlderCompleted(id)
    BY <1>1, <1>2 DEF OlderCompleted
<1>4. IsFiniteSet(Completed) /\ IsFiniteSet(OlderCompleted(id))
    <2>1. Completed \subseteq Routes /\ OlderCompleted(id) \subseteq Routes
        BY DEF Completed, OlderCompleted
    <2> QED BY <2>1, SessionAssumption, FS_Subset
<1>5. Cardinality(OlderCompleted(other)) <= Cardinality(OlderCompleted(id))
    BY <1>3, <1>4, FS_Subset
<1>6. /\ Cardinality(OlderCompleted(other)) \in Nat /\ Cardinality(OlderCompleted(id)) \in Nat
      /\ Cardinality(Completed) \in Nat /\ MaxKept \in Nat
    BY <1>3, <1>4, FS_Subset, FS_CardinalityType, SessionAssumption
<1>7. Cardinality(OlderCompleted(other)) + MaxKept < Cardinality(Completed)
    BY <1>2, <1>5, <1>6
<1> QED BY <1>7 DEF Prunable

\* For any number of routes and any length of history: only completed routes are dropped,
\* and none before an older one (prune_completed_routes, "oldest first").
THEOREM OldestGoFirst == Spec => PruneTakesOldestCompleted
<1> DEFINE Drops == \A id \in Present \ Present' :
                      /\ id \in Completed
                      /\ \A other \in Completed : Place(other) < Place(id) => other \notin Present'
<1>1. TableInv /\ [Next]_vars => Drops
    <2> SUFFICES ASSUME TableInv, [Next]_vars PROVE Drops
        OBVIOUS
    <2>1. CASE Present \subseteq Present'
        BY <2>1
    <2>2. CASE UNCHANGED vars
        BY <2>2, <2>1 DEF vars, Present
    <2>3. CASE \E id \in Routes : LocalCall(id) \/ Message(id)
        BY <2>3, <2>1, RouteStepKeeps
    <2>4. CASE Prune
        <3>1. Present' = Present \ Prunable /\ Prunable \subseteq Completed
            BY <2>4, PruneKeeps DEF Prunable
        <3>2. ASSUME NEW id \in Present \ Present' PROVE id \in Prunable
            BY <3>1
        <3> QED BY <3>1, <3>2, OldestArePruned
    <2>5. CASE \E p \in NodeIds : ReapPeer(p)
        BY <2>5, <2>1, ReapKeeps
    <2> QED BY <2>2, <2>3, <2>4, <2>5 DEF Next
<1>2. TableInv /\ [Next]_vars => [Drops]_vars
    BY <1>1
<1>3. PruneTakesOldestCompleted <=> [][Drops]_vars
    BY PTL DEF PruneTakesOldestCompleted
<1> HIDE DEF Drops
<1> QED BY <1>2, <1>3, TableInvHolds, PTL DEF Spec

\* However a peer repeats its offer, and whatever its Accepts carry: a route that streams
\* keeps a shell once it has one (handle_route, Offer and Accept).

LEMMA OtherTermsStay ==
    ASSUME TableInv, NEW id \in Routes, NEW s
    PROVE  \A other \in Routes \ {id} : [term EXCEPT ![id] = s][other] = term[other]
BY DEF TableInv

\* However a peer repeats its offer, and whatever its Accepts carry: where windows do not
\* offer a live route, a route that streams keeps a shell once it has one (handle_route).
THEOREM BoundTermStays == ~ReofferLive => (Spec => BoundTermSurvivesOffers)
<1> SUFFICES ASSUME ~ReofferLive PROVE Spec => BoundTermSurvivesOffers
    OBVIOUS
<1> DEFINE ShellStays == \A id \in Routes :
                (AlreadyStreaming(table[id]) /\ term'[id] # term[id]) => term'[id] # NoTerm
<1>1. TableInv /\ [Next]_vars => ShellStays
    <2> SUFFICES ASSUME TableInv, [Next]_vars, NEW id \in Routes, AlreadyStreaming(table[id]),
                        term'[id] # term[id]
                 PROVE  term'[id] # NoTerm
        OBVIOUS
    <2>0. table[id].st = "active" /\ id \notin Prunable /\ term \in [Routes -> Terms \cup {NoTerm}]
        BY DEF AlreadyStreaming, Prunable, Completed, Ended, TableInv
    <2>1. CASE UNCHANGED vars
        BY <2>1 DEF vars
    <2>2. ASSUME NEW r \in Routes, LocalCall(r) PROVE term'[id] # NoTerm
        <3>1. CASE \E p \in NodeIds, s \in Terms \cup {NoTerm} : Offer(r, p, s)
            BY <2>0, <3>1, OtherTermsStay DEF Offer
        <3>2. CASE \E s \in Terms : SetTermSession(r, s)
            BY <2>0, <3>2, SessionAssumption DEF SetTermSession
        <3>3. CASE ExpireOffer(r) \/ Teardown(r)
            BY <3>3 DEF ExpireOffer, Teardown
        <3> QED BY <2>2, <3>1, <3>2, <3>3 DEF LocalCall
    <2>3. ASSUME NEW r \in Routes, Message(r) PROVE term'[id] # NoTerm
        <3>1. CASE \E p \in NodeIds, s \in Terms \cup {NoTerm} : HandleOffer(r, p, s)
            BY <2>0, <3>1, OtherTermsStay DEF HandleOffer
        <3>2. CASE \E s \in Terms \cup {NoTerm} : HandleAccept(r, s)
            BY <2>0, <3>2 DEF HandleAccept
        <3>3. CASE (\E p \in NodeIds : HandleReject(r, p)) \/ HandleTeardown(r)
            BY <3>3 DEF HandleReject, HandleTeardown
        <3> QED BY <2>3, <3>1, <3>2, <3>3 DEF Message
    <2>4. CASE Prune
        BY <2>0, <2>4 DEF Prune
    <2>5. CASE \E p \in NodeIds : ReapPeer(p)
        BY <2>5 DEF ReapPeer
    <2> QED BY <2>1, <2>2, <2>3, <2>4, <2>5 DEF Next
<1>2. TableInv /\ [Next]_vars => [ShellStays]_vars
    BY <1>1
<1>3. BoundTermSurvivesOffers <=> [][ShellStays]_vars
    BY DEF BoundTermSurvivesOffers
<1> HIDE DEF ShellStays
<1> QED BY <1>2, <1>3, TableInvHolds, PTL DEF Spec

\* Whatever spelling of a peer's id its routes were made with: once it is reaped no media
\* runs with it (drop_peer, reap_peer_routes).
THEOREM ReapedIsSilent == NodeSettings => (Spec => NoMediaWithReapedMachine)
<1> SUFFICES ASSUME NodeSettings PROVE Spec => NoMediaWithReapedMachine
    OBVIOUS
<1> DEFINE Silent == \A p \in NodeIds, id \in Routes :
                        SameNode(table[id].peer, p) /\ running'[id] => ~ReapPeer(p)
<1>1. MediaFollows => [Silent]_vars
    <2> SUFFICES ASSUME MediaFollows, NEW p \in NodeIds, ReapPeer(p), NEW id \in Routes,
                        SameNode(table[id].peer, p)
                 PROVE  ~running'[id]
        OBVIOUS
    <2>1. running'[id] = IF id \in RoutesWith(p)
                         THEN RunningAfter(id, Reaped(table[id]).effects) ELSE running[id]
        BY DEF ReapPeer
    <2>2. CASE table[id].st = "active"
        <3>1. id \in RoutesWith(p)
            BY <2>2 DEF RoutesWith
        <3>2. Reaped(table[id]).effects = <<Stop>>
            BY <2>2 DEF Reaped, Does
        <3> QED BY <2>1, <3>1, <3>2, Effects
    <2>3. CASE table[id].st # "active"
        BY <2>1, <2>3 DEF RoutesWith, MediaFollows
    <2> QED BY <2>2, <2>3
<1>2. NoMediaWithReapedMachine <=> [][Silent]_vars
    BY DEF NoMediaWithReapedMachine
<1>3. Spec => []MediaFollows
    BY MediaFollowsRoutes
<1> HIDE DEF Silent
<1> QED BY <1>1, <1>2, <1>3, PTL

-----------------------------------------------------------------------------
(* The parts of one machine side by side. *)

\* A machine's behaviour is, to each part of it, one of that part's own or a stutter.
LEMMA PartsOfHost ==
    HostSpec => Spec /\ TransferSpec /\ TermSpec /\ UpdaterSpec
<1>1. HostInit => Init /\ TransferInit /\ TermInit /\ UpdaterInit
    BY DEF HostInit
<1>2. [HostNext]_hostVars =>
          [Next]_vars /\ [TransferNext]_transferVars /\ [TermNext]_termVars
          /\ [UpdaterNext]_updaterVars
    <2> SUFFICES ASSUME [HostNext]_hostVars
                 PROVE  /\ [Next]_vars /\ [TransferNext]_transferVars
                        /\ [TermNext]_termVars /\ [UpdaterNext]_updaterVars
        OBVIOUS
    <2>1. CASE UNCHANGED hostVars
        BY <2>1 DEF hostVars
    <2>2. CASE OnRoutes(Next)
        BY <2>2 DEF OnRoutes
    <2>3. CASE OnTransfer(TransferNext)
        BY <2>3 DEF OnTransfer
    <2>4. CASE OnTerminal(TermNext)
        BY <2>4 DEF OnTerminal
    <2>5. CASE OnHalves(UpdaterNext)
        BY <2>5 DEF OnHalves
    <2> QED BY <2>1, <2>2, <2>3, <2>4, <2>5 DEF HostNext
<1> QED BY <1>1, <1>2, PTL DEF HostSpec, Spec, TransferSpec, TermSpec, UpdaterSpec

\* Whatever a machine keeps for itself has only the shapes its code makes, the route table
\* and its history among it.
THEOREM HostTypesHold == HostSpec => []HostTypeOK
<1>1. TypeOK /\ OrderMatchesTable /\ TransferTypeOK /\ TermTypeOK /\ UpdaterTypeOK => HostTypeOK
    BY DEF HostTypeOK
<1> QED BY <1>1, PartsOfHost, TableTypeHolds, TransferTypeHolds, TermTypeHolds,
           UpdaterTypeHolds, PTL

=============================================================================
