--------------------------- MODULE RouteLinkProofs ---------------------------
(***************************************************************************)
(* Theorems about RouteLink.tla.  Type correctness holds for every value   *)
(* of the constants.  The capture theorems hold for a picture that the     *)
(* viewer asks for, at a source whose daemon link does not end; the run    *)
(* orphan_audio, and the same with a picture and Relinked = {source}, show *)
(* that neither hypothesis can go.                                         *)
(***************************************************************************)
EXTENDS RouteLink, SequenceTheorems, TLAPS

-----------------------------------------------------------------------------
(* Facts about the data. *)

\* The peer of a node is the other node.
LEMMA PeerIsOther == \A n \in Nodes : Peer(n) \in Nodes /\ Peer(n) # n
BY LinkAssumption DEF Nodes, Peer

\* A queue of messages stays one when a message leaves it.
LEMMA RemoveAtType ==
    ASSUME NEW S, NEW s \in Seq(S), NEW i \in DOMAIN s
    PROVE  RemoveAt(s, i) \in Seq(S)
<1>1. DOMAIN s = 1 .. Len(s) /\ Len(s) \in Nat
    BY LenProperties
<1>2. SubSeq(s, 1, i - 1) \in Seq(S)
    BY <1>1, SubSeqProperties, ElementOfSeq
<1>3. SubSeq(s, i + 1, Len(s)) \in Seq(S)
    BY <1>1, SubSeqProperties, ElementOfSeq
<1> QED BY <1>2, <1>3, ConcatProperties DEF RemoveAt

\* Every message the nodes build is of the message type.
LEMMA MsgTypes ==
    /\ \A tag \in 1 .. MaxOffers : Offer(tag) \in Msg /\ Accept(tag) \in Msg
    /\ \A b \in BootId : Presence(b) \in Msg
    /\ Reject \in Msg /\ TeardownMsg \in Msg /\ Feedback \in Msg
BY DEF Msg, Offer, Accept, Presence, Reject, TeardownMsg, Feedback

\* Start is an effect of the engine, never a message.
LEMMA StartIsNoMsg == Start \notin Msg
BY DEF Start, Msg

\* Every rule keeps a record of its peer a record of its peer.
LEMMA RuleTypes ==
    ASSUME NEW r \in Record
    PROVE  /\ Expired(r) \in Record /\ Expired(r).peer = r.peer
           /\ TornDownLocally(r) \in Record /\ TornDownLocally(r).peer = r.peer
           /\ Reaped(r).route \in Record /\ Reaped(r).route.peer = r.peer
           /\ OnAccept(r).route \in Record /\ OnAccept(r).route.peer = r.peer
           /\ OnTeardown(r).route \in Record /\ OnTeardown(r).route.peer = r.peer
           /\ \A p \in Nodes : OnReject(r, p).route \in Record /\ OnReject(r, p).route.peer = r.peer
BY DEF Record, RouteState, Negotiating, Ended, Absent, Expired, TornDownLocally, Reaped,
       OnAccept, OnTeardown, OnReject, Does

\* An offer makes a record of its sender and leaves one of the plans for the handler.
LEMMA OfferTypes ==
    ASSUME NEW r \in Record, NEW p \in Nodes, NEW tag \in 1 .. MaxOffers, r.peer = p
    PROVE  /\ OnOffer(r, p, tag, TRUE).route \in Record
           /\ OnOffer(r, p, tag, TRUE).route.peer = p
           /\ OnOffer(r, p, tag, TRUE).effects \in {<<Accept(tag)>>, <<Accept(tag), Start>>}
BY LinkAssumption DEF Record, RouteState, Negotiating, Ended, Absent, Origin, OnOffer, Does, Route

\* What a handler has left to do stays a plan when its first effect is done.
LEMMA PlanTypes ==
    /\ <<>> \in Plan /\ <<Start>> \in Plan
    /\ \A m \in Msg : <<m>> \in Plan
    /\ \A tag \in 1 .. MaxOffers : <<Accept(tag), Start>> \in Plan
BY DEF Plan

\* A handler takes its plan from the front: what is left is a plan, and what it takes is
\* the start or a message to send.
LEMMA PlanHeadTail ==
    ASSUME NEW p \in Plan, p # <<>>
    PROVE  Tail(p) \in Plan /\ (Head(p) = Start \/ Head(p) \in Msg)
<1>1. CASE p = <<Start>>
    BY <1>1, PlanTypes
<1>2. CASE \E m \in Msg : p = <<m>>
    BY <1>2, PlanTypes
<1>3. CASE \E tag \in 1 .. MaxOffers : p = <<Accept(tag), Start>>
    <2>1. PICK tag \in 1 .. MaxOffers : p = <<Accept(tag), Start>>
        BY <1>3
    <2>2. Head(p) = Accept(tag) /\ Tail(p) = <<Start>>
        BY <2>1
    <2> QED BY <2>2, MsgTypes, PlanTypes
<1> QED BY <1>1, <1>2, <1>3 DEF Plan

-----------------------------------------------------------------------------
(* Type correctness. *)

\* The channels keep their type whatever is appended or removed.
LEMMA NetTypes ==
    ASSUME TypeOK, NEW n \in Nodes
    PROVE  /\ \A m \in Msg : [net EXCEPT ![n] = Append(@, m)] \in [Nodes -> Seq(Msg)]
           /\ \A i \in DOMAIN net[n] : /\ net[n][i] \in Msg
                                     /\ [net EXCEPT ![n] = RemoveAt(@, i)] \in [Nodes -> Seq(Msg)]
<1>1. net \in [Nodes -> Seq(Msg)] /\ net[n] \in Seq(Msg)
    BY DEF TypeOK
<1>2. \A m \in Msg : Append(net[n], m) \in Seq(Msg)
    BY <1>1
<1>3. \A i \in DOMAIN net[n] : net[n][i] \in Msg /\ RemoveAt(net[n], i) \in Seq(Msg)
    BY <1>1, RemoveAtType, LenProperties, ElementOfSeq
<1> QED BY <1>1, <1>2, <1>3

\* An absent record is a record.
LEMMA NoRouteType == \A n \in Nodes : NoRoute(Peer(n)) \in Record /\ NoRoute(Peer(n)).peer = Peer(n)
BY LinkAssumption, PeerIsOther DEF NoRoute, Record, Origin

\* The initial state is well typed.
LEMMA InitTypes == Init => TypeOK
<1> SUFFICES ASSUME Init PROVE TypeOK
    OBVIOUS
<1>1. 1 \in BootId /\ 0 \in 0 .. MaxOffers /\ 0 \in 0 .. MaxMishaps
    BY LinkAssumption DEF BootId
<1>2. net \in [Nodes -> Seq(Msg)]
    BY EmptySeq DEF Init
<1>3. route \in [Nodes -> Record] /\ \A n \in Nodes : route[n].peer = Peer(n)
    BY NoRouteType DEF Init
<1>4. todo \in [Nodes -> Plan]
    BY PlanTypes DEF Init
<1>5. boot \in [Nodes -> BootId] /\ seen \in [Nodes -> BootId \cup {0}]
    BY <1>1 DEF Init
<1>6. \A n \in Nodes : boot[n] <= mishaps + 1
    BY DEF Init
<1> QED BY <1>1, <1>2, <1>3, <1>4, <1>5, <1>6 DEF Init, TypeOK

\* Window commands keep the types.
LEMMA CommandTypes ==
    ASSUME TypeOK, NEW n \in Nodes, Command(n)
    PROVE  TypeOK'
<1> USE DEF SetRoute
<1>1. CASE Connect(n)
    <2>1. offers + 1 \in 1 .. MaxOffers /\ offers' = offers + 1
        BY <1>1, LinkAssumption DEF Connect, TypeOK
    <2>2. Offered(Peer(n), offers + 1) \in Record /\ Offered(Peer(n), offers + 1).peer = Peer(n)
        BY <2>1, PeerIsOther, LinkAssumption
           DEF Offered, Route, Record, RouteState, Negotiating, Ended, Origin
    <2>3. Offer(offers + 1) \in Msg
        BY <2>1, MsgTypes
    <2> QED BY <1>1, <2>1, <2>2, <2>3 DEF Connect, TypeOK
<1>2. CASE Disconnect(n)
    <2>1. route[n] \in Record /\ route[n].peer = Peer(n)
        BY DEF TypeOK
    <2> QED BY <1>2, <2>1, RuleTypes, MsgTypes DEF Disconnect, Disconnects, StopMedia, TypeOK
<1>3. ASSUME NEW m \in unsent[n], Send(n, m)
      PROVE  TypeOK'
    BY <1>3, NetTypes, PeerIsOther DEF Send, TypeOK
<1>4. ASSUME NEW m \in unsent[n], NEW arrives \in BOOLEAN, SendFails(n, m, arrives)
      PROVE  TypeOK'
    <2>1. route[n] \in Record /\ route[n].peer = Peer(n) /\ m \in Msg
        BY DEF TypeOK
    <2>2. net' \in [Nodes -> Seq(Msg)]
        BY <1>4, <2>1, NetTypes, PeerIsOther DEF SendFails, TypeOK
    <2> QED BY <1>4, <2>1, <2>2, RuleTypes DEF SendFails, TypeOK
<1> QED BY <1>1, <1>2, <1>3, <1>4 DEF Command

\* Timers keep the types.
LEMMA TimerTypes ==
    ASSUME TypeOK, NEW n \in Nodes, Timer(n)
    PROVE  TypeOK'
<1> USE DEF SetRoute
<1>1. route[n] \in Record /\ route[n].peer = Peer(n)
    BY DEF TypeOK
<1>2. CASE ExpireOffer(n)
    BY <1>1, <1>2, RuleTypes DEF ExpireOffer, TypeOK
<1>3. CASE ConsentSweep(n)
    BY <1>1, <1>3, RuleTypes, MsgTypes DEF ConsentSweep, Disconnects, StopMedia, TypeOK
<1>4. CASE CommitQuarantined(n)
    BY <1>1, <1>4, RuleTypes DEF CommitQuarantined, ApplyEnding, StopMedia, KeepMedia, TypeOK
<1> QED BY <1>2, <1>3, <1>4 DEF Timer

\* The rest of a handler keeps the types.
LEMMA ContinueTypes ==
    ASSUME TypeOK, NEW n \in Nodes, Continue(n)
    PROVE  TypeOK'
<1>1. todo[n] \in Plan /\ todo[n] # <<>>
    BY DEF Continue, TypeOK
<1>2. Tail(todo[n]) \in Plan /\ (Head(todo[n]) = Start \/ Head(todo[n]) \in Msg)
    BY <1>1, PlanHeadTail
<1>3. net' \in [Nodes -> Seq(Msg)]
    <2>1. CASE Head(todo[n]) = Start
        BY <2>1 DEF Continue, TypeOK
    <2>2. CASE Head(todo[n]) # Start
        <3>1. Head(todo[n]) \in Msg /\ Peer(n) \in Nodes
            BY <1>2, <2>2, PeerIsOther
        <3>2. net' = [net EXCEPT ![Peer(n)] = Append(@, Head(todo[n]))]
            BY <2>2 DEF Continue
        <3> QED BY <3>1, <3>2, NetTypes
    <2> QED BY <2>1, <2>2
<1>4. capture' \in BOOLEAN /\ held' \in [Nodes -> BOOLEAN]
    BY DEF Continue, StartMedia, KeepMedia, TypeOK
<1> QED BY <1>2, <1>3, <1>4 DEF Continue, TypeOK

\* A received message keeps the types.
LEMMA ReceiveTypes ==
    ASSUME TypeOK, NEW n \in Nodes, Receive(n)
    PROVE  TypeOK'
<1> USE DEF SetRoute
<1>1. PICK i \in Next1(n), again \in BOOLEAN :
        /\ Consume(n, i, again)
        /\ \/ net[n][i].kind = "offer" /\ OnOfferMsg(n, net[n][i].tag)
           \/ net[n][i].kind = "accept" /\ OnAcceptMsg(n)
           \/ net[n][i].kind = "reject" /\ OnRejectMsg(n)
           \/ net[n][i].kind = "teardown" /\ \E early \in BOOLEAN : OnTeardownMsg(n, early)
           \/ net[n][i].kind = "presence" /\ OnPresenceMsg(n, net[n][i].tag)
           \/ net[n][i].kind = "feedback" /\ \E mature \in BOOLEAN : OnFeedbackMsg(n, mature)
    BY Zenon DEF Receive
<1>2. i \in DOMAIN net[n] /\ net[n][i] \in Msg
    BY NetTypes DEF Next1
<1>3. /\ net' \in [Nodes -> Seq(Msg)]
      /\ mishaps' \in 0 .. MaxMishaps /\ mishaps <= mishaps'
      /\ UNCHANGED <<unsent, boot, consent, offers>>
    BY <1>1, <1>2, NetTypes, LinkAssumption DEF Consume, Mishap, TypeOK
<1>4. \A m \in Nodes : boot'[m] <= mishaps' + 1
    BY <1>3, LinkAssumption DEF TypeOK, BootId
<1>5. route[n] \in Record /\ route[n].peer = Peer(n) /\ Peer(n) \in Nodes
    BY PeerIsOther DEF TypeOK
<1>6. SUFFICES /\ route' \in [Nodes -> Record]
               /\ \A m \in Nodes : route'[m].peer = Peer(m)
               /\ capture' \in BOOLEAN /\ held' \in [Nodes -> BOOLEAN]
               /\ todo' \in [Nodes -> Plan]
               /\ seen' \in [Nodes -> BootId \cup {0}]
    BY <1>3, <1>4 DEF TypeOK
<1>7. CASE net[n][i].kind = "offer" /\ OnOfferMsg(n, net[n][i].tag)
    <2>1. net[n][i].tag \in 1 .. MaxOffers
        BY <1>2, <1>7 DEF Msg
    <2>2. /\ OnOffer(route[n], Peer(n), net[n][i].tag, TRUE).route \in Record
          /\ OnOffer(route[n], Peer(n), net[n][i].tag, TRUE).route.peer = Peer(n)
          /\ OnOffer(route[n], Peer(n), net[n][i].tag, TRUE).effects \in Plan
        BY <1>5, <2>1, OfferTypes, PlanTypes, MsgTypes
    <2> QED BY <1>7, <2>2, PlanTypes, MsgTypes DEF OnOfferMsg, KeepMedia, TypeOK
<1>8. CASE OnAcceptMsg(n)
    BY <1>5, <1>8, RuleTypes, PlanTypes DEF OnAcceptMsg, KeepMedia, StartMedia, TypeOK
<1>9. CASE OnRejectMsg(n)
    BY <1>5, <1>9, RuleTypes DEF OnRejectMsg, ApplyEnding, StopMedia, KeepMedia, TypeOK
<1>10. ASSUME NEW early \in BOOLEAN, OnTeardownMsg(n, early)
       PROVE  <1>6!1
    BY <1>5, <1>10, RuleTypes DEF OnTeardownMsg, ApplyEnding, StopMedia, KeepMedia, TypeOK
<1>11. CASE net[n][i].kind = "presence" /\ OnPresenceMsg(n, net[n][i].tag)
    <2>1. net[n][i].tag \in BootId
        BY <1>2, <1>11 DEF Msg
    <2>2. todo' \in [Nodes -> Plan] /\ seen' \in [Nodes -> BootId \cup {0}]
        BY <1>11, <2>1, PlanTypes, MsgTypes DEF OnPresenceMsg, TypeOK
    <2> QED BY <1>5, <1>11, <2>2, RuleTypes
            DEF OnPresenceMsg, ApplyEnding, StopMedia, KeepMedia, TypeOK
<1>12. ASSUME NEW mature \in BOOLEAN, OnFeedbackMsg(n, mature)
       PROVE  <1>6!1
    BY <1>12 DEF OnFeedbackMsg, TypeOK
<1> QED BY <1>1, <1>7, <1>8, <1>9, <1>10, <1>11, <1>12

\* Faults keep the types.
LEMMA FaultTypes ==
    ASSUME TypeOK, Fault
    PROVE  TypeOK'
<1> USE DEF SetRoute
<1>1. CASE ConsentChanges
    BY <1>1 DEF ConsentChanges, TypeOK
<1>2. ASSUME NEW n \in Nodes, Lose(n)
      PROVE  TypeOK'
    BY <1>2, NetTypes DEF Lose, TypeOK
<1>3. ASSUME NEW n \in Nodes, Mishap, UNCHANGED boot \/ boot' = [boot EXCEPT ![n] = @ + 1]
      PROVE  /\ mishaps' \in 0 .. MaxMishaps
             /\ boot' \in [Nodes -> BootId] /\ boot[n] + 1 \in BootId
             /\ \A m \in Nodes : boot'[m] <= mishaps' + 1
    <2>1. mishaps \in Nat /\ mishaps' = mishaps + 1 /\ mishaps' \in 0 .. MaxMishaps
        BY <1>3, LinkAssumption DEF Mishap, TypeOK
    <2>2. \A m \in Nodes : boot[m] \in BootId /\ boot[m] \in Nat /\ boot[m] <= mishaps + 1
        BY LinkAssumption DEF TypeOK, BootId
    <2>3. \A m \in Nodes : boot[m] + 1 \in BootId
        BY <2>1, <2>2, LinkAssumption DEF BootId
    <2>4. CASE UNCHANGED boot
        BY <2>1, <2>2, <2>3, <2>4 DEF TypeOK
    <2>5. CASE boot' = [boot EXCEPT ![n] = @ + 1]
        <3>1. boot' \in [Nodes -> BootId]
            BY <2>3, <2>5 DEF TypeOK
        <3>2. \A m \in Nodes : boot'[m] = boot[m] \/ boot'[m] = boot[m] + 1
            BY <2>5 DEF TypeOK
        <3> QED BY <2>1, <2>2, <2>3, <3>1, <3>2
    <2> QED BY <1>3, <2>4, <2>5
<1>4. ASSUME NEW n \in Nodes, NEW b \in BootId, BringUp(n, b)
      PROVE  /\ route' \in [Nodes -> Record] /\ net' \in [Nodes -> Seq(Msg)]
             /\ \A m \in Nodes : route'[m].peer = Peer(m)
    <2>1. Append(net[Peer(n)], Presence(b)) \in Seq(Msg)
        BY PeerIsOther, MsgTypes DEF TypeOK
    <2>2. net' \in [Nodes -> Seq(Msg)]
        BY <1>4, <2>1, PeerIsOther, EmptySeq DEF BringUp, TypeOK
    <2> QED BY <1>4, <2>2, NoRouteType DEF BringUp, TypeOK
<1>5. ASSUME NEW n \in Nodes, Reboot(n)
      PROVE  TypeOK'
    BY <1>3, <1>4, <1>5, PlanTypes DEF Reboot, TypeOK
<1>6. ASSUME NEW n \in Nodes, Reconnect(n)
      PROVE  TypeOK'
    <2>1. boot[n] \in BootId /\ UNCHANGED boot /\ Mishap /\ BringUp(n, boot[n])
        BY <1>6 DEF Reconnect, TypeOK
    <2>2. seen' \in [Nodes -> BootId \cup {0}]
        BY <1>6 DEF Reconnect, TypeOK
    <2> QED BY <1>3, <1>4, <1>6, <2>1, <2>2 DEF Reconnect, TypeOK
<1>7. ASSUME NEW n \in Nodes, NetworkReset(n)
      PROVE  TypeOK'
    BY <1>3, <1>7, NetTypes, PeerIsOther, MsgTypes DEF NetworkReset, TypeOK
<1> QED BY <1>1, <1>2, <1>5, <1>6, <1>7 DEF Fault

\* Every step keeps the types.
LEMMA StepTypes == TypeOK /\ [Next]_vars => TypeOK'
<1> SUFFICES ASSUME TypeOK, [Next]_vars PROVE TypeOK'
    OBVIOUS
<1>1. CASE Nack \/ Report
    <2>1. Source \in Nodes /\ Reject \in Msg /\ Feedback \in Msg
        BY MsgTypes DEF Nodes
    <2>2. \A m \in Msg : [net EXCEPT ![Source] = Append(@, m)] \in [Nodes -> Seq(Msg)]
        BY <2>1, NetTypes
    <2>3. net' \in [Nodes -> Seq(Msg)]
        <3>1. CASE Nack
            <4>1. net' = [net EXCEPT ![Source] = Append(@, Reject)]
                BY <3>1 DEF Nack
            <4> QED BY <4>1, <2>1, <2>2
        <3>2. CASE Report
            <4>1. net' = [net EXCEPT ![Source] = Append(@, Feedback)]
                BY <3>2 DEF Report
            <4> QED BY <4>1, <2>1, <2>2
        <3> QED BY <1>1, <3>1, <3>2
    <2> QED BY <1>1, <2>3 DEF Nack, Report, TypeOK
<1>2. CASE UNCHANGED vars
    BY <1>2 DEF vars, TypeOK
<1>3. CASE \E n \in Nodes : Command(n) \/ Timer(n) \/ Receive(n) \/ Continue(n)
    BY <1>3, CommandTypes, TimerTypes, ReceiveTypes, ContinueTypes
<1>4. CASE Fault
    BY <1>4, FaultTypes
<1> QED BY <1>1, <1>2, <1>3, <1>4 DEF Next

\* Every state of every behaviour is well typed, and a handler's effects keep their order:
\* an Accept is never behind the start of the media it announces.
THEOREM LinkTypeOK == Spec => []TypeOK
BY InitTypes, StepTypes, PTL DEF Spec

-----------------------------------------------------------------------------
(***************************************************************************)
(* The capture.  The invariant is not inductive alone: that the source's   *)
(* capture belongs to an active route rests on (1) the source never        *)
(* offering the route itself, so that its record is inbound and no failed  *)
(* send of an offer tears it down with its media running, and (2) the      *)
(* start that a handler still owes: there is at most one, and only while   *)
(* the capture is off.                                                     *)
(***************************************************************************)
ViewerOffers == /\ route[Source].origin = "inbound"
                /\ \A m \in unsent[Source] : m.kind # "offer"

CaptureInv == /\ TypeOK
              /\ ViewerOffers
              /\ NoOrphanCapture
              /\ LiveRouteStreams
              /\ NoSecondStart

\* The hypotheses: a picture, asked for by its viewer, at a source that keeps its session.
ViewedPicture == Picture /\ Source \notin Offerers /\ Source \notin Relinked

\* All that the capture invariant speaks of.
sourceView == <<route[Source], capture, todo[Source], unsent[Source]>>

\* Which plans still hold a Start.
LEMMA PlanStarts ==
    /\ ~Starts(<<>>) /\ Starts(<<Start>>)
    /\ \A m \in Msg : ~Starts(<<m>>)
    /\ \A tag \in 1 .. MaxOffers : Starts(<<Accept(tag), Start>>) /\ ~Starts(<<Accept(tag)>>)
<1>1. Start \notin Msg /\ \A tag \in 1 .. MaxOffers : Accept(tag) \in Msg
    BY StartIsNoMsg, MsgTypes
<1>2. ~Starts(<<>>) /\ Starts(<<Start>>) /\ \A m \in Msg : ~Starts(<<m>>)
    BY <1>1 DEF Starts
<1>3. ASSUME NEW tag \in 1 .. MaxOffers
      PROVE  Starts(<<Accept(tag), Start>>)
    <2>1. <<Accept(tag), Start>>[2] = Start /\ 2 \in DOMAIN <<Accept(tag), Start>>
        OBVIOUS
    <2> QED BY <2>1 DEF Starts
<1> QED BY <1>1, <1>2, <1>3

\* Taking the start leaves nothing, taking a message leaves the start if there was one.
LEMMA PlanStep ==
    ASSUME NEW p \in Plan, p # <<>>
    PROVE  /\ Head(p) = Start => Tail(p) = <<>> /\ Starts(p)
           /\ Head(p) # Start => (Starts(Tail(p)) <=> Starts(p))
<1>1. CASE p = <<Start>>
    <2>1. Head(p) = Start /\ Tail(p) = <<>>
        BY <1>1
    <2> QED BY <1>1, <2>1, PlanStarts
<1>2. CASE \E m \in Msg : p = <<m>>
    <2>1. PICK m \in Msg : p = <<m>>
        BY <1>2
    <2>2. Head(p) = m /\ Tail(p) = <<>>
        BY <2>1
    <2> QED BY <2>1, <2>2, PlanStarts, StartIsNoMsg
<1>3. CASE \E tag \in 1 .. MaxOffers : p = <<Accept(tag), Start>>
    <2>1. PICK tag \in 1 .. MaxOffers : p = <<Accept(tag), Start>>
        BY <1>3
    <2>2. Head(p) = Accept(tag) /\ Tail(p) = <<Start>>
        BY <2>1
    <2>3. Accept(tag) # Start
        BY MsgTypes, StartIsNoMsg
    <2> QED BY <2>1, <2>2, <2>3, PlanStarts
<1> QED BY <1>1, <1>2, <1>3 DEF Plan

\* Whatever happens elsewhere leaves the source as it was.
LEMMA SinkLeavesSource ==
    ASSUME TypeOK,
           \/ Command(Sink) \/ Timer(Sink) \/ Receive(Sink) \/ Continue(Sink)
           \/ Reboot(Sink) \/ Reconnect(Sink)
    PROVE  UNCHANGED sourceView
<1> USE LinkAssumption DEF sourceView, SetRoute
<1>1. Source \in Nodes /\ Sink \in Nodes /\ Source # Sink
    BY DEF Nodes
<1>2. capture \in BOOLEAN
    BY DEF TypeOK
<1>3. CASE Command(Sink)
    BY <1>1, <1>2, <1>3
       DEF Command, Connect, Disconnect, Disconnects, Send, SendFails, StopMedia, TypeOK
<1>4. CASE Timer(Sink)
    BY <1>1, <1>2, <1>4
       DEF Timer, ExpireOffer, ConsentSweep, CommitQuarantined, ApplyEnding, StopMedia, KeepMedia, TypeOK
<1>5. CASE Receive(Sink)
    BY <1>1, <1>2, <1>5
       DEF Receive, Consume, OnOfferMsg, OnAcceptMsg, OnRejectMsg, OnTeardownMsg, OnPresenceMsg,
           OnFeedbackMsg, ApplyEnding, StopMedia, StartMedia, KeepMedia, TypeOK
<1>6. CASE Continue(Sink)
    BY <1>1, <1>2, <1>6 DEF Continue, StartMedia, KeepMedia, TypeOK
<1>7. CASE Reboot(Sink) \/ Reconnect(Sink)
    BY <1>1, <1>2, <1>7 DEF Reboot, Reconnect, BringUp, TypeOK
<1> QED BY <1>3, <1>4, <1>5, <1>6, <1>7

\* The capture invariant reads the source's record, plan and capture only.
LEMMA ViewUnchanged ==
    ASSUME CaptureInv, TypeOK', UNCHANGED sourceView
    PROVE  CaptureInv'
BY DEF CaptureInv, sourceView, ViewerOffers, NoOrphanCapture, LiveRouteStreams, NoSecondStart,
       StartPending

\* A command at a source that never offers: its disconnect ends record and capture together.
LEMMA SourceCommand ==
    ASSUME CaptureInv, ViewedPicture, Command(Source)
    PROVE  ViewerOffers' /\ NoOrphanCapture' /\ LiveRouteStreams' /\ NoSecondStart'
<1> USE DEF SetRoute, ViewerOffers, NoOrphanCapture, LiveRouteStreams, NoSecondStart, StartPending
<1>1. Source \in Nodes /\ Source \notin Offerers /\ TypeOK
    BY DEF Nodes, ViewedPicture, CaptureInv
<1>2. CASE Disconnect(Source)
    <2>1. route[Source] \in Record
        BY <1>1 DEF TypeOK
    <2>2. /\ TornDownLocally(route[Source]).st # "active"
          /\ TornDownLocally(route[Source]).origin = route[Source].origin
        BY <2>1 DEF TornDownLocally, Record, Absent
    <2>3. /\ route'[Source] = TornDownLocally(route[Source]) /\ UNCHANGED todo
          /\ capture' = FALSE
        BY <1>1, <1>2 DEF Disconnect, Disconnects, StopMedia, TypeOK
    <2>4. unsent'[Source] \subseteq unsent[Source] \cup {TeardownMsg}
        BY <1>1, <1>2 DEF Disconnect, Disconnects, TypeOK
    <2> QED BY <2>2, <2>3, <2>4 DEF CaptureInv, TeardownMsg
<1>3. ASSUME NEW m \in unsent[Source], Send(Source, m)
      PROVE  UNCHANGED <<route, capture, todo>> /\ unsent'[Source] \subseteq unsent[Source]
    BY <1>1, <1>3 DEF Send, TypeOK
<1>4. ASSUME NEW m \in unsent[Source], NEW arrives \in BOOLEAN, SendFails(Source, m, arrives)
      PROVE  UNCHANGED <<route, capture, todo>> /\ unsent'[Source] \subseteq unsent[Source]
    <2>1. m.kind # "offer"
        BY DEF CaptureInv
    <2> QED BY <1>1, <1>4, <2>1 DEF SendFails, TypeOK
<1>5. ASSUME UNCHANGED <<route, capture, todo>>, unsent'[Source] \subseteq unsent[Source]
      PROVE  ViewerOffers' /\ NoOrphanCapture' /\ LiveRouteStreams' /\ NoSecondStart'
    BY <1>5 DEF CaptureInv
<1>6. ~Connect(Source)
    BY <1>1 DEF Connect
<1> QED BY <1>2, <1>3, <1>4, <1>5, <1>6 DEF Command

\* A timer at the source ends record and capture together, or touches neither.
LEMMA SourceTimer ==
    ASSUME CaptureInv, ViewedPicture, Timer(Source)
    PROVE  ViewerOffers' /\ NoOrphanCapture' /\ LiveRouteStreams' /\ NoSecondStart'
<1> USE DEF SetRoute, ViewerOffers, NoOrphanCapture, LiveRouteStreams, NoSecondStart, StartPending
<1>1. Source \in Nodes /\ TypeOK /\ route[Source] \in Record
    BY DEF Nodes, CaptureInv, TypeOK
<1>2. CASE ExpireOffer(Source)
    <2>1. Expired(route[Source]).st # "active" /\ route[Source].st # "active"
        BY <1>1, <1>2 DEF ExpireOffer, Expired, Record
    <2>2. Expired(route[Source]).origin = "inbound"
        BY <1>1 DEF CaptureInv, Expired, Record
    <2> QED BY <1>1, <1>2, <2>1, <2>2 DEF ExpireOffer, CaptureInv, TypeOK
<1>3. CASE ConsentSweep(Source)
    <2>1. /\ TornDownLocally(route[Source]).st # "active"
          /\ TornDownLocally(route[Source]).origin = route[Source].origin
        BY <1>1 DEF TornDownLocally, Record, Absent
    <2> QED BY <1>1, <1>3, <2>1
            DEF ConsentSweep, Disconnects, StopMedia, CaptureInv, TypeOK, TeardownMsg
<1>4. CASE CommitQuarantined(Source)
    <2>1. CASE route[Source].st = "active"
        <3>1. /\ OnTeardown(route[Source]).route.st # "active"
              /\ OnTeardown(route[Source]).route.origin = route[Source].origin
              /\ OnTeardown(route[Source]).effects = <<Stop>>
            BY <1>1, <2>1 DEF OnTeardown, Does, Record, Absent
        <3> QED BY <1>1, <1>4, <2>1, <3>1
                DEF CommitQuarantined, ApplyEnding, StopMedia, CaptureInv, TypeOK
    <2>2. CASE route[Source].st # "active"
        BY <1>4, <2>2 DEF CommitQuarantined, CaptureInv
    <2> QED BY <2>1, <2>2
<1> QED BY <1>2, <1>3, <1>4 DEF Timer

\* A rule that ends an active route returns its StopMedia.
LEMMA EndingsStop ==
    ASSUME NEW r \in Record, NEW p \in Nodes,
           NEW outcome \in {OnReject(r, p), OnTeardown(r), Reaped(r)}
    PROVE  /\ outcome.route.origin = r.origin
           /\ outcome.route.st = "active" => r.st = "active"
           /\ outcome.effects = <<Stop>> => outcome.route.st # "active"
           /\ outcome.effects # <<Stop>> => (r.st = "active" <=> outcome.route.st = "active")
<1>1. <<Stop>> # <<>>
    OBVIOUS
<1>2. CASE outcome = OnReject(r, p)
    BY <1>1, <1>2 DEF OnReject, Does, Record, Absent
<1>3. CASE outcome = OnTeardown(r)
    BY <1>1, <1>3 DEF OnTeardown, Does, Record, Absent
<1>4. CASE outcome = Reaped(r)
    BY <1>1, <1>4 DEF Reaped, Does, Record
<1> QED BY <1>2, <1>3, <1>4

\* A rule that ends the route stops the capture in the same step.
LEMMA SourceEnding ==
    ASSUME CaptureInv, NEW p \in Nodes,
           NEW outcome \in {OnReject(route[Source], p), OnTeardown(route[Source]), Reaped(route[Source])},
           ApplyEnding(Source, outcome), UNCHANGED unsent,
           UNCHANGED todo \/ (todo[Source] = <<>> /\ ~Starts(todo'[Source]))
    PROVE  ViewerOffers' /\ NoOrphanCapture' /\ LiveRouteStreams' /\ NoSecondStart'
<1> USE DEF SetRoute, ViewerOffers, NoOrphanCapture, LiveRouteStreams, NoSecondStart, StartPending
<1>1. Source \in Nodes /\ TypeOK /\ route[Source] \in Record
    BY DEF Nodes, CaptureInv, TypeOK
<1>2. route'[Source] = outcome.route /\ (Starts(todo'[Source]) <=> Starts(todo[Source]))
    BY <1>1, PlanStarts DEF ApplyEnding, TypeOK
<1>3. /\ outcome.route.origin = "inbound"
      /\ outcome.route.st = "active" => route[Source].st = "active"
      /\ outcome.effects = <<Stop>> => outcome.route.st # "active"
      /\ outcome.effects # <<Stop>> => (route[Source].st = "active" <=> outcome.route.st = "active")
    BY <1>1, EndingsStop DEF CaptureInv
<1>4. CASE outcome.effects = <<Stop>>
    <2>1. capture' = FALSE
        BY <1>4 DEF ApplyEnding, StopMedia
    <2> QED BY <1>2, <1>3, <1>4, <2>1 DEF CaptureInv
<1>5. CASE outcome.effects # <<Stop>>
    <2>1. capture' = capture
        BY <1>5 DEF ApplyEnding, KeepMedia
    <2> QED BY <1>2, <1>3, <1>5, <2>1 DEF CaptureInv
<1> QED BY <1>4, <1>5

\* A message at the source.
LEMMA SourceReceive ==
    ASSUME CaptureInv, ViewedPicture, Receive(Source)
    PROVE  ViewerOffers' /\ NoOrphanCapture' /\ LiveRouteStreams' /\ NoSecondStart'
<1> USE DEF SetRoute, ViewerOffers, NoOrphanCapture, LiveRouteStreams, NoSecondStart, StartPending
<1> DEFINE Goal == ViewerOffers' /\ NoOrphanCapture' /\ LiveRouteStreams' /\ NoSecondStart'
<1>1. /\ Source \in Nodes /\ TypeOK
      /\ route[Source] \in Record /\ route[Source].peer = Peer(Source) /\ Peer(Source) \in Nodes
    BY PeerIsOther DEF Nodes, CaptureInv, TypeOK
<1>2. PICK i \in Next1(Source), again \in BOOLEAN :
        /\ Consume(Source, i, again)
        /\ \/ net[Source][i].kind = "offer" /\ OnOfferMsg(Source, net[Source][i].tag)
           \/ net[Source][i].kind = "accept" /\ OnAcceptMsg(Source)
           \/ net[Source][i].kind = "reject" /\ OnRejectMsg(Source)
           \/ net[Source][i].kind = "teardown" /\ \E early \in BOOLEAN : OnTeardownMsg(Source, early)
           \/ net[Source][i].kind = "presence" /\ OnPresenceMsg(Source, net[Source][i].tag)
           \/ net[Source][i].kind = "feedback" /\ \E mature \in BOOLEAN : OnFeedbackMsg(Source, mature)
    BY Zenon DEF Receive
<1>3. todo[Source] = <<>> /\ UNCHANGED unsent /\ ~Starts(todo[Source])
    BY <1>2, PlanStarts DEF Consume
<1>4. net[Source][i] \in Msg
    BY <1>1, NetTypes DEF Next1
<1>5. CASE net[Source][i].kind = "offer" /\ OnOfferMsg(Source, net[Source][i].tag)
    <2>1. net[Source][i].tag \in 1 .. MaxOffers
        BY <1>4, <1>5 DEF Msg
    <2>2. CASE Refused(Source)
        <3>1. todo'[Source] = <<Reject>> /\ UNCHANGED <<route, capture>>
            BY <1>1, <1>5, <2>2 DEF OnOfferMsg, KeepMedia, TypeOK
        <3>2. ~Starts(todo'[Source])
            BY <3>1, MsgTypes, PlanStarts
        <3> QED BY <1>3, <3>1, <3>2 DEF CaptureInv
    <2>3. CASE ~Refused(Source) /\ AlreadyStreaming(route[Source])
        <3>1. /\ todo'[Source] = <<Accept(net[Source][i].tag)>> /\ UNCHANGED capture
              /\ route'[Source] = route[Source]
            BY <1>1, <1>5, <2>3 DEF OnOfferMsg, KeepMedia, OnOffer, Does, TypeOK
        <3>2. ~Starts(todo'[Source])
            BY <2>1, <3>1, PlanStarts
        <3> QED BY <1>3, <3>1, <3>2 DEF CaptureInv
    <2>4. CASE ~Refused(Source) /\ ~AlreadyStreaming(route[Source])
        <3>1. route[Source].st # "active" /\ ~capture
            BY <2>4 DEF AlreadyStreaming, CaptureInv
        <3>2. /\ todo'[Source] = <<Accept(net[Source][i].tag), Start>> /\ UNCHANGED capture
              /\ route'[Source].st = "active" /\ route'[Source].origin = "inbound"
            BY <1>1, <1>5, <2>4 DEF OnOfferMsg, KeepMedia, OnOffer, Does, Route, TypeOK
        <3>3. Starts(todo'[Source])
            BY <2>1, <3>2, PlanStarts
        <3> QED BY <1>3, <3>1, <3>2, <3>3 DEF CaptureInv
    <2> QED BY <2>2, <2>3, <2>4
<1>6. CASE OnAcceptMsg(Source)
    <2>1. OnAccept(route[Source]).route = route[Source] /\ OnAccept(route[Source]).effects = <<>>
        BY DEF OnAccept, Does, CaptureInv
    <2>2. UNCHANGED <<capture, todo>> /\ route'[Source] = route[Source]
        BY <1>1, <1>6, <2>1 DEF OnAcceptMsg, KeepMedia, TypeOK
    <2> QED BY <1>3, <2>2 DEF CaptureInv
<1>7. CASE OnRejectMsg(Source)
    BY <1>1, <1>3, <1>7, SourceEnding DEF OnRejectMsg
<1>8. ASSUME NEW early \in BOOLEAN, OnTeardownMsg(Source, early)
      PROVE  Goal
    <2>1. CASE ApplyEnding(Source, OnTeardown(route[Source]))
        BY <1>1, <1>3, <1>8, <2>1, SourceEnding DEF OnTeardownMsg
    <2>2. CASE UNCHANGED <<route, capture>>
        BY <1>3, <1>8, <2>2 DEF OnTeardownMsg, CaptureInv
    <2> QED BY <1>8, <2>1, <2>2 DEF OnTeardownMsg
<1>9. CASE net[Source][i].kind = "presence" /\ OnPresenceMsg(Source, net[Source][i].tag)
    <2>1. net[Source][i].tag \in BootId /\ Presence(boot[Source]) \in Msg
        BY <1>1, <1>4, <1>9, MsgTypes DEF Msg, TypeOK
    <2>2. UNCHANGED todo \/ todo'[Source] = <<Presence(boot[Source])>>
        BY <1>1, <1>9 DEF OnPresenceMsg, TypeOK
    <2>3. UNCHANGED todo \/ (todo[Source] = <<>> /\ ~Starts(todo'[Source]))
        BY <1>3, <2>1, <2>2, PlanStarts
    <2>4. ~Starts(todo'[Source])
        BY <1>3, <2>3
    <2>5. CASE ApplyEnding(Source, Reaped(route[Source]))
        BY <1>1, <1>3, <2>3, <2>5, SourceEnding
    <2>6. CASE UNCHANGED <<route, capture>>
        BY <1>3, <2>4, <2>6 DEF CaptureInv
    <2> QED BY <1>9, <2>5, <2>6 DEF OnPresenceMsg, KeepMedia
<1>10. ASSUME NEW mature \in BOOLEAN, OnFeedbackMsg(Source, mature)
       PROVE  Goal
    BY <1>3, <1>10 DEF OnFeedbackMsg, CaptureInv
<1> QED BY <1>2, <1>5, <1>6, <1>7, <1>8, <1>9, <1>10

\* A Start after an await is made only for a route that is still active.
LEMMA SourceContinue ==
    ASSUME CaptureInv, ViewedPicture, Continue(Source)
    PROVE  ViewerOffers' /\ NoOrphanCapture' /\ LiveRouteStreams' /\ NoSecondStart'
<1> USE DEF ViewerOffers, NoOrphanCapture, LiveRouteStreams, NoSecondStart, StartPending
<1>1. /\ Source \in Nodes /\ TypeOK /\ Picture
      /\ todo[Source] \in Plan /\ todo[Source] # <<>>
      /\ todo'[Source] = Tail(todo[Source]) /\ UNCHANGED <<route, unsent>>
    BY DEF Nodes, CaptureInv, TypeOK, ViewedPicture, Continue
<1>2. CASE Head(todo[Source]) = Start
    <2>1. ~Starts(todo'[Source])
        BY <1>1, <1>2, PlanStep, PlanStarts
    <2>2. capture' = (capture \/ route[Source].st = "active")
        BY <1>1, <1>2 DEF Continue, StillActive, StartMedia, KeepMedia, TypeOK
    <2> QED BY <1>1, <2>1, <2>2 DEF CaptureInv
<1>3. CASE Head(todo[Source]) # Start
    <2>1. (Starts(todo'[Source]) <=> Starts(todo[Source])) /\ UNCHANGED capture
        BY <1>1, <1>3, PlanStep DEF Continue, KeepMedia
    <2> QED BY <1>1, <2>1 DEF CaptureInv
<1> QED BY <1>2, <1>3

\* What the steps of Next do to the source, for the two proofs that follow.
LEMMA SourceSteps ==
    ASSUME TypeOK, ViewedPicture, [Next]_vars
    PROVE  \/ UNCHANGED sourceView
           \/ Command(Source) \/ Timer(Source) \/ Receive(Source) \/ Continue(Source)
           \/ Reboot(Source)
<1>1. CASE Nack \/ Report \/ ConsentChanges \/ UNCHANGED vars
    BY <1>1 DEF Nack, Report, ConsentChanges, vars, sourceView
<1>2. ASSUME NEW n \in Nodes, Lose(n) \/ NetworkReset(n)
      PROVE  UNCHANGED sourceView
    BY <1>2 DEF Lose, NetworkReset, sourceView
<1>3. ASSUME NEW n \in Nodes,
             \/ Command(n) \/ Timer(n) \/ Receive(n) \/ Continue(n) \/ Reboot(n) \/ Reconnect(n)
      PROVE  \/ UNCHANGED sourceView
             \/ Command(Source) \/ Timer(Source) \/ Receive(Source) \/ Continue(Source)
             \/ Reboot(Source)
    <2>1. CASE n = Sink
        BY <1>3, <2>1, SinkLeavesSource
    <2>2. CASE n = Source
        BY <1>3, <2>2 DEF Reconnect, ViewedPicture
    <2> QED BY <2>1, <2>2 DEF Nodes
<1> QED BY <1>1, <1>2, <1>3 DEF Next, Fault

\* Every step keeps the capture invariant.
LEMMA CaptureStep == ViewedPicture /\ CaptureInv /\ [Next]_vars => CaptureInv'
<1> SUFFICES ASSUME ViewedPicture, CaptureInv, [Next]_vars PROVE CaptureInv'
    OBVIOUS
<1>1. TypeOK /\ TypeOK'
    BY StepTypes DEF CaptureInv
<1>2. CASE UNCHANGED sourceView
    BY <1>1, <1>2, ViewUnchanged
<1>3. CASE Command(Source) \/ Timer(Source) \/ Receive(Source) \/ Continue(Source)
    BY <1>1, <1>3, SourceCommand, SourceTimer, SourceReceive, SourceContinue DEF CaptureInv
<1>4. CASE Reboot(Source)
    <2>1. /\ route'[Source] = NoRoute(Peer(Source)) /\ capture' = FALSE
          /\ todo'[Source] = <<>> /\ unsent'[Source] = {}
        BY <1>1, <1>4 DEF Reboot, BringUp, SetRoute, Nodes, TypeOK
    <2> QED BY <1>1, <2>1, PlanStarts
            DEF NoRoute, Absent, CaptureInv, ViewerOffers, NoOrphanCapture, LiveRouteStreams,
                NoSecondStart, StartPending
<1> QED BY <1>1, <1>2, <1>3, <1>4, SourceSteps

\* The initial state satisfies the capture invariant.
LEMMA CaptureInit == Init => CaptureInv
<1> SUFFICES ASSUME Init PROVE CaptureInv
    OBVIOUS
<1>1. /\ route[Source] = NoRoute(Peer(Source)) /\ capture = FALSE
      /\ todo[Source] = <<>> /\ unsent[Source] = {}
    BY DEF Init, Nodes
<1> QED BY <1>1, InitTypes, PlanStarts
        DEF NoRoute, Absent, CaptureInv, ViewerOffers, NoOrphanCapture, LiveRouteStreams,
            NoSecondStart, StartPending

\* The inductive invariant of a viewed picture.
LEMMA CaptureInvariant == ViewedPicture => (Spec => []CaptureInv)
<1> SUFFICES ASSUME ViewedPicture PROVE Spec => []CaptureInv
    OBVIOUS
<1>1. CaptureInv /\ [Next]_vars => CaptureInv'
    BY CaptureStep
<1> QED BY <1>1, CaptureInit, PTL DEF Spec

\* The screen or camera is released in the step that ends its route, whatever the viewer,
\* the source's own user, timers, lost or repeated messages and restarts do: the re-check
\* before StartMedia (process_effects) is what makes this true.
THEOREM NoOrphan == ViewedPicture => (Spec => []NoOrphanCapture)
<1>1. CaptureInv => NoOrphanCapture
    BY DEF CaptureInv
<1> QED BY <1>1, CaptureInvariant, PTL

\* No interleaving leaves a live route at the source without its capture for good: it
\* streams or the handler that made it live is still to start it.
THEOREM LiveStreams == ViewedPicture => (Spec => []LiveRouteStreams)
<1>1. CaptureInv => LiveRouteStreams
    BY DEF CaptureInv
<1> QED BY <1>1, CaptureInvariant, PTL

\* A capture is never started twice over, however often its offer is repeated.
THEOREM SingleStart == ViewedPicture => (Spec => []NoSecondStart)
<1>1. CaptureInv => NoSecondStart
    BY DEF CaptureInv
<1> QED BY <1>1, CaptureInvariant, PTL

-----------------------------------------------------------------------------
(* The source implements the lease. *)

\* The capture changes only in a step that ends the route or on a route that stays active.
CaptureMoves == \/ UNCHANGED capture
                \/ capture' = FALSE /\ route'[Source].st # "active"
                \/ capture' /\ route[Source].st = "active" /\ UNCHANGED route

\* How record and capture of the source may move together in one step.
LEMMA CaptureMovesWithRoute ==
    ASSUME CaptureInv, ViewedPicture, [Next]_vars
    PROVE  CaptureMoves
<1> USE DEF CaptureMoves, SetRoute
<1>1. Source \in Nodes /\ TypeOK /\ route[Source] \in Record /\ Peer(Source) \in Nodes
    BY PeerIsOther DEF Nodes, CaptureInv, TypeOK
<1>2. CASE UNCHANGED sourceView
    BY <1>2 DEF sourceView
<1>3. TornDownLocally(route[Source]).st # "active"
    BY <1>1 DEF TornDownLocally, Record, Absent
<1>4. ASSUME Disconnects(Source)
      PROVE  CaptureMoves
    BY <1>1, <1>3, <1>4 DEF Disconnects, StopMedia, TypeOK
<1>5. ASSUME NEW outcome \in {OnReject(route[Source], Peer(Source)), OnTeardown(route[Source]),
                               Reaped(route[Source])},
             ApplyEnding(Source, outcome)
      PROVE  CaptureMoves
    <2>1. outcome.effects = <<Stop>> => outcome.route.st # "active"
        BY <1>1, EndingsStop
    <2>2. route'[Source] = outcome.route
        BY <1>1, <1>5 DEF ApplyEnding, TypeOK
    <2> QED BY <1>5, <2>1, <2>2 DEF ApplyEnding, StopMedia, KeepMedia
<1>6. CASE Command(Source)
    BY <1>4, <1>6 DEF Command, Connect, Disconnect, Send, SendFails
<1>7. CASE Timer(Source)
    BY <1>4, <1>5, <1>7 DEF Timer, ExpireOffer, ConsentSweep, CommitQuarantined
<1>8. CASE Receive(Source)
    <2>1. CASE OnAcceptMsg(Source)
        <3>1. OnAccept(route[Source]).effects = <<>>
            BY DEF OnAccept, Does, CaptureInv, ViewerOffers
        <3> QED BY <2>1, <3>1 DEF OnAcceptMsg, KeepMedia
    <2>2. CASE OnRejectMsg(Source)
        BY <1>5, <2>2 DEF OnRejectMsg
    <2>3. ASSUME NEW early \in BOOLEAN, OnTeardownMsg(Source, early)
          PROVE  CaptureMoves
        BY <1>5, <2>3 DEF OnTeardownMsg
    <2>4. ASSUME NEW b, OnPresenceMsg(Source, b)
          PROVE  CaptureMoves
        BY <1>5, <2>4 DEF OnPresenceMsg, KeepMedia
    <2> QED BY <1>8, <2>1, <2>2, <2>3, <2>4 DEF Receive, OnOfferMsg, OnFeedbackMsg, KeepMedia
<1>9. CASE Continue(Source)
    BY <1>9 DEF Continue, StillActive, StartMedia, KeepMedia, ViewedPicture
<1>10. CASE Reboot(Source)
    BY <1>1, <1>10 DEF Reboot, BringUp, NoRoute, Absent, TypeOK
<1> QED BY <1>1, <1>2, <1>6, <1>7, <1>8, <1>9, <1>10, SourceSteps

\* A step of the link is a grant, a beginning or an end of the lease, or nothing to it.
LEMMA LeaseStep ==
    ViewedPicture /\ CaptureInv /\ CaptureInv' /\ [Next]_vars => [Lease!Next]_(Lease!vars)
<1> SUFFICES ASSUME ViewedPicture, CaptureInv, CaptureInv', [Next]_vars
             PROVE  [Lease!Next]_(Lease!vars)
    OBVIOUS
<1>1. CaptureMoves
    BY CaptureMovesWithRoute
<1>2. /\ capture \in BOOLEAN /\ capture' \in BOOLEAN
      /\ capture => route[Source].st = "active"
      /\ capture' => route'[Source].st = "active"
    BY DEF CaptureInv, TypeOK, NoOrphanCapture
<1> QED BY <1>1, <1>2
        DEF CaptureMoves, Lease!Next, Lease!vars, Lease!Grant, Lease!Begin, Lease!End

\* The source of a viewed picture implements CaptureLease: its screen is captured only under
\* an active route, from after the route became active until the very step that ends it.
THEOREM Implements == ViewedPicture => (Spec => ImplementsLease)
<1> SUFFICES ASSUME ViewedPicture PROVE Spec => ImplementsLease
    OBVIOUS
<1>1. Init => Lease!Init
    BY DEF Init, Lease!Init, NoRoute, Nodes, Absent
<1>2. CaptureInv /\ CaptureInv' /\ [Next]_vars => [Lease!Next]_(Lease!vars)
    BY LeaseStep
<1>3. Spec => []CaptureInv
    BY CaptureInvariant
<1> QED BY <1>1, <1>2, <1>3, PTL DEF Spec, ImplementsLease, Lease!Spec

=============================================================================
