-------------------------- MODULE CecConsentProofs --------------------------
(***************************************************************************)
(* Theorems about CecConsent.tla, for every set of technicians and         *)
(* sessions and every bound.                                               *)
(***************************************************************************)
EXTENDS CecConsent, FiniteFacts, TLAPS

\* The store's part of the invariant: a standing grant in memory is the one in the file,
\* and a technician with a once grant has no other.
StoreInv == GrantsTyped /\ OneGrant /\ StandingIsSaved

-----------------------------------------------------------------------------
(* The store. *)

WellFormed(g) == \/ g.scope \in Standing /\ g \in GrantIn(Standing)
                 \/ g.scope \notin Standing /\ g \in GrantIn({"once"})

\* A grant made now has the scope it was made for, and a deadline within the bound.
LEMMA NewGrantTypes ==
    ASSUME now \in 0 .. MaxTime, NEW control \in BOOLEAN
    PROVE  /\ NewGrant("once", control) \in GrantIn({"once"})
           /\ \A scope \in Standing : NewGrant(scope, control) \in GrantIn(Standing)
<1>1. now + GrantSpan \in 0 .. MaxTime + GrantSpan /\ 0 \in 0 .. MaxTime + GrantSpan
    BY ConsentAssumption
<1> QED BY <1>1 DEF NewGrant, GrantIn, Standing

\* No grant is a value of every tier.
LEMMA NoGrantTypes == NoGrant.scope = "none" /\ \A S : NoGrant \in GrantIn(S)
BY DEF NoGrant, GrantIn

\* An approval, saved or not, of a well-formed grant keeps the store's invariant.
LEMMA ApproveKeepsStore ==
    ASSUME StoreInv, NEW t \in Techs, NEW g, NEW ok \in BOOLEAN,
           WellFormed(g),
           StoreApprove(t, g, ok), UNCHANGED now
    PROVE  StoreInv'
<1> USE DEF StoreInv, GrantsTyped
<1>1. CASE g.scope \in Standing /\ g \in GrantIn(Standing)
    <2>1. GrantsTyped'
        BY <1>1, NoGrantTypes DEF StoreApprove, Save, Drops
    <2>2. OneGrant'
        BY <1>1 DEF StoreApprove, Drops, OneGrant
    <2>3. StandingIsSaved'
        BY <1>1 DEF StoreApprove, Save, StandingIsSaved
    <2> QED BY <2>1, <2>2, <2>3
<1>2. CASE g.scope \notin Standing /\ g \in GrantIn({"once"})
    <2>1. GrantsTyped'
        BY <1>2, NoGrantTypes DEF StoreApprove, Drops
    <2>2. OneGrant'
        BY <1>2 DEF StoreApprove, Drops, OneGrant
    <2>3. StandingIsSaved'
        BY <1>2 DEF StoreApprove, Drops, StandingIsSaved
    <2> QED BY <2>1, <2>2, <2>3
<1> QED BY <1>1, <1>2 DEF WellFormed

\* A revocation clears memory whatever becomes of the write, and the file when it succeeds.
LEMMA RevokeKeepsStore ==
    ASSUME StoreInv, NEW t \in Techs, NEW ok \in BOOLEAN, Revoke(t, ok)
    PROVE  StoreInv'
<1> USE DEF StoreInv, GrantsTyped
<1>1. /\ persistent' = Drops(persistent, t) /\ ephemeral' = Drops(ephemeral, t)
      /\ disk' = disk \/ disk' = Drops(persistent, t)
      /\ persistent[t] # NoGrant /\ ok => disk' = Drops(persistent, t)
      /\ now' = now
    BY DEF Revoke, Save
<1>2. GrantsTyped'
    BY <1>1, NoGrantTypes DEF Drops
<1>3. OneGrant'
    BY <1>1 DEF Drops, OneGrant
<1>4. StandingIsSaved'
    BY <1>1 DEF Drops, StandingIsSaved
<1> QED BY <1>2, <1>3, <1>4

\* Retiring a once grant takes from the memory tier only.
LEMMA RetireKeepsStore ==
    ASSUME StoreInv, NEW t \in Techs, ephemeral' = Drops(ephemeral, t),
           UNCHANGED <<persistent, disk, now>>
    PROVE  StoreInv'
BY NoGrantTypes DEF StoreInv, GrantsTyped, OneGrant, StandingIsSaved, Drops

\* A decision for a request, whoever asked for it.
LEMMA DecisionKeepsStore ==
    ASSUME StoreInv, NEW s \in Sessions, NEW scope \in Standing \cup {"once"},
           NEW control \in BOOLEAN, NEW ok \in BOOLEAN,
           StoreApprove(Dialer[s], NewGrant(scope, control), ok), UNCHANGED now
    PROVE  StoreInv'
<1>1. now \in 0 .. MaxTime /\ Dialer[s] \in Techs
    BY ConsentAssumption DEF StoreInv, GrantsTyped
<1>2. PICK g : g = NewGrant(scope, control)
    OBVIOUS
<1>3. WellFormed(g)
    BY <1>1, <1>2, NewGrantTypes DEF NewGrant, WellFormed, Standing
<1>4. StoreApprove(Dialer[s], g, ok)
    BY <1>2
<1> QED BY <1>1, <1>3, <1>4, ApproveKeepsStore

\* Steps that leave the store and the clock alone.
LEMMA StoreUnchanged == StoreInv /\ UNCHANGED <<store, now>> => StoreInv'
BY DEF StoreInv, GrantsTyped, OneGrant, StandingIsSaved, store

\* One case per action: approvals, revocation, retirement, the clock, a restart, the rest.
LEMMA StoreStep ==
    ASSUME StoreInv, [Next]_vars
    PROVE  StoreInv'
<1> USE DEF Standing
<1>1. CASE UNCHANGED vars
    BY <1>1, StoreUnchanged DEF vars
<1>2. ASSUME NEW ok \in BOOLEAN, NEW s \in Sessions, NEW answer \in Answers,
             Approve(s, answer[1], answer[2], ok)
      PROVE  StoreInv'
    <2>1. answer[1] \in {"three_hours", "forever", "once"} /\ answer[2] \in BOOLEAN
        BY ConsentAssumption
    <2> QED BY <1>2, <2>1, DecisionKeepsStore DEF Approve, ApproveRequest
<1>3. ASSUME NEW ok \in BOOLEAN, Arm(ok)
      PROVE  StoreInv'
    <2>1. CASE UNCHANGED <<store, now>>
        BY <2>1, StoreUnchanged
    <2>2. CASE \E s \in Sessions : ApproveRequest(s, pending, NewGrant("three_hours", TRUE), ok)
        BY <1>3, <2>2, DecisionKeepsStore DEF Arm, ApproveRequest
    <2> QED BY <1>3, <2>1, <2>2 DEF Arm
<1>4. ASSUME NEW t \in Techs, NEW ok \in BOOLEAN, Revoke(t, ok)
      PROVE  StoreInv'
    BY <1>4, RevokeKeepsStore
<1>5. CASE Customer
    BY <1>2, <1>3, <1>4, <1>5, StoreUnchanged DEF Customer, Deny
<1>6. ASSUME NEW s \in Sessions, NEW ok \in BOOLEAN, Ask(s, ok)
      PROVE  StoreInv'
    <2>1. CASE UNCHANGED <<store, now>>
        BY <2>1, StoreUnchanged
    <2>2. CASE ApproveRequest(s, Recorded(s), NewGrant("three_hours", TRUE), ok)
        BY <1>6, <2>2, DecisionKeepsStore DEF Ask, ApproveRequest
    <2> QED BY <1>6, <2>1, <2>2 DEF Ask
<1>7. ASSUME NEW s \in Sessions, Retire(s)
      PROVE  StoreInv'
    BY <1>7, RetireKeepsStore, ConsentAssumption DEF Retire
<1>8. CASE EventLoop
    BY <1>6, <1>7, <1>8, StoreUnchanged DEF EventLoop, OnRequest, Supersede, Activate, Bind, OnEnd
<1>9. CASE Sweep
    BY <1>9, RetireKeepsStore, StoreUnchanged DEF Sweep, SweepFinds, SweepEnds, SweepRetires
<1>10. CASE Tick
    BY <1>10, ConsentAssumption DEF Tick, store, StoreInv, GrantsTyped, OneGrant, StandingIsSaved
<1>11. CASE Restart
    BY <1>11, NoGrantTypes DEF Restart, Loaded, StoreInv, GrantsTyped, OneGrant, StandingIsSaved
<1> QED BY <1>1, <1>5, <1>8, <1>9, <1>10, <1>11, StoreUnchanged DEF Next, WindowCloses

\* An empty store satisfies the invariant.
LEMMA StoreInit == Init => StoreInv
BY NoGrantTypes, ConsentAssumption DEF Init, StoreInv, GrantsTyped, OneGrant, StandingIsSaved

\* The inductive invariant of the store.
LEMMA StoreInvariant == Spec => []StoreInv
BY StoreInit, StoreStep, PTL DEF Spec

\* Types of the store: a once grant never reaches the file or the persistent tier, nor a
\* standing one the memory tier, whatever saves fail (ConsentStore::approve, save, load).
THEOREM GrantsStayTyped == Spec => []GrantsTyped
<1>1. StoreInv => GrantsTyped
    BY DEF StoreInv
<1> QED BY <1>1, StoreInvariant, PTL

\* A technician never holds grants in both tiers.
THEOREM OneGrantEach == Spec => []OneGrant
<1>1. StoreInv => OneGrant
    BY DEF StoreInv
<1> QED BY <1>1, StoreInvariant, PTL

\* Every standing grant in force is in the file: a restart forgets no standing approval.
THEOREM StandingSaved == Spec => []StandingIsSaved
<1>1. StoreInv => StandingIsSaved
    BY DEF StoreInv
<1> QED BY <1>1, StoreInvariant, PTL

-----------------------------------------------------------------------------
(* The sessions. *)

BindingInv ==
    /\ session \in [Sessions -> {"none", "active", "denied", "ended"}]
    /\ bound \subseteq Sessions
    /\ ActiveIsBound

\* The locks of an automatic approval come in the order end, activate, bind.
LEMMA StepsFollow ==
    ASSUME NEW s
    PROVE  /\ Follows("supersede", s) = At("activate", s)
           /\ Follows("activate", s) = At("bind", s)
           /\ Follows("bind", s) = Idle
<1>1. /\ DOMAIN AutoApproval = {1, 2, 3} /\ Len(AutoApproval) = 3
      /\ AutoApproval[1] = "supersede" /\ AutoApproval[2] = "activate" /\ AutoApproval[3] = "bind"
    BY DEF AutoApproval
<1>2. (CHOOSE k \in DOMAIN AutoApproval : AutoApproval[k] = "supersede") = 1
    BY <1>1
<1>3. (CHOOSE k \in DOMAIN AutoApproval : AutoApproval[k] = "activate") = 2
    BY <1>1
<1>4. (CHOOSE k \in DOMAIN AutoApproval : AutoApproval[k] = "bind") = 3
    BY <1>1
<1> QED BY <1>1, <1>2, <1>3, <1>4 DEF Follows

\* Where the handler is, it is at one step of one session.
LEMMA HandlerPlaces ==
    /\ \A step : \A s : At(step, s) # Idle
    /\ \A s, o : \A step, other : At(step, s) = At(other, o) => step = other /\ s = o
BY DEF At, Idle

\* Whatever activates a session by decision binds it in the same step.
LEMMA DecisionBinds ==
    ASSUME BindingInv, NEW s \in Sessions, NEW ok \in BOOLEAN,
           \/ session' = [session EXCEPT ![s] = "active"] /\ bound' = bound \cup {s}
           \/ UNCHANGED sessions,
           handler' = handler \/ \A o \in Sessions : handler # At("bind", o)
    PROVE  BindingInv'
BY DEF BindingInv, ActiveIsBound, sessions

\* Window commands keep the binding invariant.
LEMMA CustomerBinds ==
    ASSUME BindingInv, Customer
    PROVE  BindingInv'
<1>1. CASE \E s \in Sessions, answer \in Answers, ok \in BOOLEAN : Approve(s, answer[1], answer[2], ok)
    BY <1>1, DecisionBinds DEF Approve, ApproveRequest
<1>2. CASE \E s \in Sessions : Deny(s)
    BY <1>2 DEF Deny, BindingInv, ActiveIsBound
<1>3. CASE \E ok \in BOOLEAN : Arm(ok)
    <2>1. CASE UNCHANGED <<sessions, handler>>
        BY <2>1 DEF BindingInv, ActiveIsBound, sessions
    <2> QED BY <1>3, <2>1, DecisionBinds DEF Arm, ApproveRequest
<1>4. CASE \E t \in Techs, ok \in BOOLEAN : Revoke(t, ok)
    BY <1>4 DEF Revoke, BindingInv, ActiveIsBound, sessions
<1> QED BY <1>1, <1>2, <1>3, <1>4 DEF Customer

\* The event loop's locks keep the binding invariant; only `activate' uses its exception.
LEMMA EventLoopBinds ==
    ASSUME BindingInv, NEW s \in Sessions,
           \/ OnRequest(s) \/ (\E ok \in BOOLEAN : Ask(s, ok))
           \/ Supersede(s) \/ Activate(s) \/ Bind(s)
           \/ OnEnd(s) \/ Retire(s)
    PROVE  BindingInv'
<1> USE HandlerPlaces, StepsFollow DEF BindingInv, ActiveIsBound, sessions
<1>1. CASE OnRequest(s)
    BY <1>1 DEF OnRequest
<1>2. CASE \E ok \in BOOLEAN : Ask(s, ok)
    <2>1. \A o \in Sessions : handler # At("bind", o)
        BY <1>2 DEF Ask
    <2>2. \/ session' = [session EXCEPT ![s] = "active"] /\ bound' = bound \cup {s}
          \/ UNCHANGED sessions
        BY <1>2 DEF Ask, ApproveRequest
    <2> QED BY <2>1, <2>2
<1>3. CASE Supersede(s)
    BY <1>3 DEF Supersede
<1>4. CASE Activate(s)
    BY <1>4 DEF Activate
<1>5. CASE Bind(s)
    BY <1>5 DEF Bind
<1>6. CASE OnEnd(s)
    BY <1>6 DEF OnEnd
<1>7. CASE Retire(s)
    BY <1>7 DEF Retire
<1> QED BY <1>1, <1>2, <1>3, <1>4, <1>5, <1>6, <1>7

\* The sweep ends exactly the bound sessions of its technician.
LEMMA SweepBinds ==
    ASSUME BindingInv, Sweep
    PROVE  BindingInv'
BY DEF BindingInv, ActiveIsBound, sessions, Sweep, SweepFinds, SweepEnds, SweepRetires

\* Every step keeps the binding invariant.
LEMMA BindingStep ==
    ASSUME BindingInv, [Next]_vars
    PROVE  BindingInv'
<1>1. CASE UNCHANGED <<sessions, handler>>
    BY <1>1 DEF BindingInv, ActiveIsBound, sessions
<1>2. CASE Customer
    BY <1>2, CustomerBinds
<1>3. CASE EventLoop
    BY <1>3, EventLoopBinds DEF EventLoop
<1>4. CASE Sweep
    BY <1>4, SweepBinds
<1>5. CASE Restart
    BY <1>5 DEF Restart, Loaded, BindingInv, ActiveIsBound
<1> QED BY <1>1, <1>2, <1>3, <1>4, <1>5 DEF Next, vars, Tick, WindowCloses

\* Every active session can be ended by the sweep: no interleaving of approvals, requests,
\* Ends and sweeps leaves one that session_tech does not hold (set_session before
\* bind_session; in the other order a sweep in between would leave one).
THEOREM SessionsBound == Spec => []ActiveIsBound
<1>1. Init => BindingInv
    BY DEF Init, BindingInv, ActiveIsBound
<1>2. BindingInv /\ [Next]_vars => BindingInv'
    BY BindingStep
<1>3. BindingInv => ActiveIsBound
    BY DEF BindingInv
<1> QED BY <1>1, <1>2, <1>3, PTL DEF Spec

-----------------------------------------------------------------------------
(* The requests that wait. *)

\* No technician waits twice, and no more wait than may.
Distinct(queue) ==
    \A i, j \in DOMAIN queue : Dialer[queue[i]] = Dialer[queue[j]] => i = j

QueueOK(queue) == queue \in Seq(Sessions) /\ Len(queue) <= MaxPending /\ Distinct(queue)

LEMMA NothingWaits == QueueOK(<<>>)
BY ConsentAssumption DEF QueueOK, Distinct

LEMMA RetainedFits ==
    ASSUME NEW queue, QueueOK(queue), NEW kept \in SUBSET Sessions
    PROVE  /\ QueueOK(Retained(queue, kept))
           /\ \A i \in DOMAIN Retained(queue, kept) : Retained(queue, kept)[i] \in kept
<1>1. queue \in Seq(Sessions)
    BY DEF QueueOK
<1>2. PICK part : part = Retained(queue, kept)
    OBVIOUS
<1>3. Kept(part, queue, kept, Len(queue))
    BY <1>1, <1>2, RetainedKeeps
<1>4. PICK at : /\ part \in Seq(kept) /\ at \in [DOMAIN part -> 1 .. Len(queue)]
                /\ Len(part) <= Len(queue)
                /\ \A i \in DOMAIN part : part[i] = queue[at[i]]
                /\ \A i, j \in DOMAIN part : i < j => at[i] < at[j]
    BY <1>3 DEF Kept
<1>5. /\ \A i \in DOMAIN part : part[i] \in kept /\ at[i] \in DOMAIN queue
      /\ \A i, j \in DOMAIN part : i # j => at[i] # at[j]
    <2>1. \A i \in DOMAIN part : part[i] \in kept /\ at[i] \in DOMAIN queue /\ i \in Nat
        BY <1>1, <1>4
    <2>2. ASSUME NEW i \in DOMAIN part, NEW j \in DOMAIN part, i # j PROVE at[i] # at[j]
        <3>1. at[i] \in Nat /\ at[j] \in Nat /\ (i < j \/ j < i)
            BY <1>4, <2>1, <2>2
        <3> QED BY <1>4, <3>1
    <2> QED BY <2>1, <2>2
<1>6. part \in Seq(Sessions)
    BY <1>4
<1>7. Len(part) <= MaxPending
    BY <1>1, <1>4, ConsentAssumption DEF QueueOK
<1>8. Distinct(part)
    BY <1>4, <1>5 DEF QueueOK, Distinct
<1> QED BY <1>2, <1>5, <1>6, <1>7, <1>8 DEF QueueOK

LEMMA WithoutTechFits ==
    ASSUME NEW queue, QueueOK(queue), NEW t
    PROVE  /\ QueueOK(WithoutTech(queue, t))
           /\ \A i \in DOMAIN WithoutTech(queue, t) : Dialer[WithoutTech(queue, t)[i]] # t
<1> DEFINE kept == {s \in Sessions : Dialer[s] # t}
<1>1. kept \in SUBSET Sessions /\ \A s \in kept : Dialer[s] # t
    OBVIOUS
<1>2. WithoutTech(queue, t) = Retained(queue, kept)
    BY DEF WithoutTech
<1> HIDE DEF kept
<1> QED BY <1>1, <1>2, RetainedFits

\* The oldest makes room for the newest.
LEMMA RecordedFits ==
    ASSUME QueueOK(pending), NEW s \in Sessions
    PROVE  QueueOK(Recorded(s))
<1> DEFINE others == WithoutTech(pending, Dialer[s])
           rest == IF Len(others) >= MaxPending THEN Tail(others) ELSE others
<1>1. /\ QueueOK(others)
      /\ \A i \in DOMAIN others : Dialer[others[i]] # Dialer[s]
    BY WithoutTechFits
<1>2. Recorded(s) = Append(rest, s)
    BY DEF Recorded
<1> HIDE DEF others
<1>3. MaxPending \in Nat /\ MaxPending # 0
    BY ConsentAssumption
<1>4. /\ rest \in Seq(Sessions) /\ Len(rest) < MaxPending /\ Distinct(rest)
      /\ \A i \in DOMAIN rest : Dialer[rest[i]] # Dialer[s]
    <2>1. CASE Len(others) >= MaxPending
        <3>1. /\ others \in Seq(Sessions) /\ others # <<>> /\ Len(others) = MaxPending
            BY <1>1, <1>3, <2>1 DEF QueueOK
        <3>2. /\ rest = Tail(others) /\ rest \in Seq(Sessions) /\ Len(rest) = Len(others) - 1
              /\ \A i \in DOMAIN rest : i + 1 \in DOMAIN others /\ rest[i] = others[i + 1]
            BY <2>1, <3>1
        <3>3. \A i \in DOMAIN rest : i \in Nat
            BY <3>2
        <3> HIDE DEF rest
        <3>4. Distinct(rest)
            <4>1. ASSUME NEW i \in DOMAIN rest, NEW j \in DOMAIN rest,
                         Dialer[rest[i]] = Dialer[rest[j]]
                  PROVE  i = j
                <5>1. i + 1 = j + 1
                    BY <1>1, <3>2, <4>1 DEF QueueOK, Distinct
                <5> QED BY <3>3, <5>1
            <4> QED BY <4>1 DEF Distinct
        <3>5. \A i \in DOMAIN rest : Dialer[rest[i]] # Dialer[s]
            BY <1>1, <3>2
        <3> QED BY <1>3, <3>1, <3>2, <3>4, <3>5
    <2>2. CASE ~(Len(others) >= MaxPending)
        BY <1>1, <1>3, <2>2 DEF QueueOK
    <2> QED BY <2>1, <2>2
<1> HIDE DEF rest
<1>5. PICK all : all = Append(rest, s)
    OBVIOUS
<1>6. /\ all \in Seq(Sessions) /\ Len(all) = Len(rest) + 1 /\ all[Len(all)] = s
      /\ \A i \in DOMAIN all : i = Len(all) \/ (i \in DOMAIN rest /\ all[i] = rest[i])
    BY <1>4, <1>5
<1>7. Len(all) <= MaxPending
    BY <1>3, <1>4, <1>6
<1>8. Distinct(all)
    BY <1>4, <1>6 DEF Distinct
<1> QED BY <1>2, <1>5, <1>6, <1>7, <1>8 DEF QueueOK

\* What the decisions and the event loop keep besides the store.
PlacesInv ==
    /\ QueueOK(pending) /\ armed \in BOOLEAN
    /\ session \in [Sessions -> {"none", "active", "denied", "ended"}]
    /\ bound \subseteq Sessions
    /\ handler \in {Idle} \cup [at : {"ask", "supersede", "activate", "bind", "retire"},
                                session : Sessions]
    /\ sweep \in {Idle} \cup [at : {"end", "retire"}, tech : Techs]
    /\ failures \in 0 .. MaxMishaps /\ restarts \in 0 .. MaxMishaps

\* A write of the file fails within the bound.
LEMMA SavesAreCounted ==
    ASSUME PlacesInv, NEW tier, NEW ok, Save(tier, ok)
    PROVE  failures' \in 0 .. MaxMishaps
BY ConsentAssumption DEF PlacesInv, Save

\* A decision for a request keeps the queue it was taken from.
LEMMA DecisionKeepsPlaces ==
    ASSUME PlacesInv, NEW s \in Sessions, NEW queue, QueueOK(queue), NEW g, NEW ok \in BOOLEAN,
           ApproveRequest(s, queue, g, ok)
    PROVE  /\ QueueOK(pending') /\ armed' \in BOOLEAN
           /\ session' \in [Sessions -> {"none", "active", "denied", "ended"}]
           /\ bound' \subseteq Sessions
           /\ failures' \in 0 .. MaxMishaps
<1>1. QueueOK(WithoutTech(queue, Dialer[s]))
    BY WithoutTechFits
<1>2. failures' \in 0 .. MaxMishaps
    <2>1. UNCHANGED failures \/ \E tier : Save(tier, ok)
        BY DEF ApproveRequest, StoreApprove
    <2> QED BY <2>1, SavesAreCounted DEF PlacesInv
<1> QED BY <1>1, <1>2 DEF ApproveRequest, PlacesInv, sessions

LEMMA CustomerKeepsPlaces ==
    ASSUME PlacesInv, Customer
    PROVE  PlacesInv'
<1> USE DEF PlacesInv
<1>0. QueueOK(pending)
    OBVIOUS
<1>1. ASSUME NEW s \in Sessions, NEW answer \in Answers, NEW ok \in BOOLEAN,
             Approve(s, answer[1], answer[2], ok)
      PROVE  PlacesInv'
    <2>1. ApproveRequest(s, pending, NewGrant(answer[1], answer[2]), ok)
        BY <1>1 DEF Approve
    <2>2. UNCHANGED <<handler, sweep, restarts>>
        BY <1>1 DEF Approve
    <2> QED BY <1>0, <2>1, <2>2, DecisionKeepsPlaces DEF QueueOK, Distinct
<1>2. ASSUME NEW s \in Sessions, Deny(s) PROVE PlacesInv'
    <2>1. QueueOK(Retained(pending, Sessions \ {s}))
        BY RetainedFits
    <2>2. QueueOK(pending')
        BY <1>2, <2>1 DEF Deny
    <2> QED BY <1>2, <2>2 DEF Deny, QueueOK, Distinct
<1>3. ASSUME NEW ok \in BOOLEAN, Arm(ok) PROVE PlacesInv'
    <2>1. UNCHANGED <<handler, sweep, restarts>>
        BY <1>3 DEF Arm
    <2>2. CASE armed' = TRUE /\ UNCHANGED <<pending, sessions, failures>>
        BY <2>1, <2>2 DEF sessions, QueueOK, Distinct
    <2>3. CASE \E s \in Sessions : ApproveRequest(s, pending, NewGrant("three_hours", TRUE), ok)
        <3>0. PICK s \in Sessions : \E g : ApproveRequest(s, pending, g, ok)
            BY <2>3
        <3>1. PICK g : ApproveRequest(s, pending, g, ok)
            BY <3>0
        <3>2. /\ QueueOK(pending') /\ armed' \in BOOLEAN
              /\ session' \in [Sessions -> {"none", "active", "denied", "ended"}]
              /\ bound' \subseteq Sessions
              /\ failures' \in 0 .. MaxMishaps
            BY <1>0, <3>1, DecisionKeepsPlaces
        <3> QED BY <2>1, <3>2 DEF QueueOK, Distinct
    <2> QED BY <1>3, <2>2, <2>3 DEF Arm
<1>4. ASSUME NEW t \in Techs, NEW ok \in BOOLEAN, Revoke(t, ok) PROVE PlacesInv'
    <2>1. QueueOK(WithoutTech(pending, t))
        BY WithoutTechFits
    <2>2. failures' \in 0 .. MaxMishaps
        BY <1>4, SavesAreCounted DEF Revoke
    <2>3. QueueOK(pending')
        BY <1>4, <2>1 DEF Revoke
    <2> QED BY <1>4, <2>2, <2>3 DEF Revoke, sessions, QueueOK, Distinct
<1> QED BY <1>1, <1>2, <1>3, <1>4 DEF Customer

LEMMA EventLoopKeepsPlaces ==
    ASSUME PlacesInv, EventLoop
    PROVE  PlacesInv'
<1> USE DEF PlacesInv
<1>0. QueueOK(pending)
    OBVIOUS
<1> DEFINE Places == {Idle} \cup [at : {"ask", "supersede", "activate", "bind", "retire"},
                                  session : Sessions]
<1>1. \A s \in Sessions :
        /\ At("ask", s) \in Places /\ At("supersede", s) \in Places
        /\ At("activate", s) \in Places /\ At("bind", s) \in Places /\ At("retire", s) \in Places
    BY DEF At
<1>2. Idle \in Places /\ \A s \in Sessions : /\ Follows("supersede", s) \in Places
                                             /\ Follows("activate", s) \in Places
                                             /\ Follows("bind", s) \in Places
    BY <1>1, StepsFollow
<1> HIDE DEF Places
<1>3. ASSUME NEW s \in Sessions, OnRequest(s) PROVE PlacesInv'
    <2>1. handler' \in Places
        BY <1>1, <1>3 DEF OnRequest
    <2> QED BY <1>3, <2>1 DEF OnRequest, sessions, Places, QueueOK, Distinct
<1>4. ASSUME NEW s \in Sessions, NEW ok \in BOOLEAN, Ask(s, ok) PROVE PlacesInv'
    <2>1. handler' \in Places /\ UNCHANGED <<sweep, restarts>>
        BY <1>2, <1>4 DEF Ask
    <2>2. QueueOK(Recorded(s))
        BY RecordedFits
    <2>3. CASE UNCHANGED <<store, pending, armed, sessions, failures>>
        BY <2>1, <2>3 DEF sessions, Places, QueueOK, Distinct
    <2>4. CASE ApproveRequest(s, Recorded(s), NewGrant("three_hours", TRUE), ok)
        <3>1. PICK g : ApproveRequest(s, Recorded(s), g, ok)
            BY <2>4
        <3>2. /\ QueueOK(pending') /\ armed' \in BOOLEAN
              /\ session' \in [Sessions -> {"none", "active", "denied", "ended"}]
              /\ bound' \subseteq Sessions
              /\ failures' \in 0 .. MaxMishaps
            BY <2>2, <3>1, DecisionKeepsPlaces
        <3> QED BY <2>1, <3>2 DEF Places, QueueOK, Distinct
    <2>5. CASE pending' = Recorded(s) /\ UNCHANGED <<store, armed, sessions, failures>>
        <3>1. QueueOK(pending')
            BY <2>2, <2>5
        <3> QED BY <2>1, <2>5, <3>1 DEF sessions, Places, QueueOK, Distinct
    <2> QED BY <1>4, <2>3, <2>4, <2>5 DEF Ask
<1>5. ASSUME NEW s \in Sessions, Supersede(s) \/ Activate(s) \/ Bind(s) PROVE PlacesInv'
    <2>1. handler' \in Places
        BY <1>2, <1>5 DEF Supersede, Activate, Bind
    <2>2. /\ session' \in [Sessions -> {"none", "active", "denied", "ended"}]
          /\ bound' \subseteq Sessions
        BY <1>5 DEF Supersede, Activate, Bind
    <2>3. UNCHANGED <<pending, armed, sweep, failures, restarts>>
        BY <1>5 DEF Supersede, Activate, Bind
    <2> QED BY <2>1, <2>2, <2>3 DEF Places, QueueOK, Distinct
<1>6. ASSUME NEW s \in Sessions, OnEnd(s) PROVE PlacesInv'
    <2>1. QueueOK(Retained(pending, Sessions \ {s}))
        BY RetainedFits
    <2>2. QueueOK(pending') /\ handler' \in Places
        BY <1>1, <1>6, <2>1 DEF OnEnd
    <2> QED BY <1>6, <2>2 DEF OnEnd, Places, QueueOK, Distinct
<1>7. ASSUME NEW s \in Sessions, Retire(s) PROVE PlacesInv'
    <2>1. handler' \in Places
        BY <1>2, <1>7 DEF Retire
    <2> QED BY <1>7, <2>1 DEF Retire, sessions, Places, QueueOK, Distinct
<1> QED BY <1>3, <1>4, <1>5, <1>6, <1>7 DEF EventLoop

LEMMA PlacesStep ==
    ASSUME PlacesInv, [Next]_vars
    PROVE  PlacesInv'
<1>1. CASE Sweep
    BY <1>1 DEF PlacesInv, sessions, Sweep, SweepFinds, SweepEnds, SweepRetires, QueueOK, Distinct
<1>2. CASE Tick \/ WindowCloses \/ UNCHANGED vars
    BY <1>2 DEF PlacesInv, sessions, Tick, WindowCloses, vars, QueueOK, Distinct
<1>3. CASE Restart
    <2>1. QueueOK(pending')
        BY <1>3, NothingWaits DEF Restart, Loaded
    <2>2. /\ armed' = FALSE /\ bound' = {} /\ handler' = Idle /\ sweep' = Idle
          /\ session' \in [Sessions -> {"none", "active", "denied", "ended"}]
        BY <1>3 DEF Restart, Loaded
    <2>3. failures' \in 0 .. MaxMishaps /\ restarts' \in 0 .. MaxMishaps
        BY <1>3, ConsentAssumption DEF PlacesInv, Restart
    <2> QED BY <2>1, <2>2, <2>3 DEF PlacesInv, QueueOK, Distinct
<1> QED BY <1>1, <1>2, <1>3, CustomerKeepsPlaces, EventLoopKeepsPlaces DEF Next

LEMMA PlacesInvariant == Spec => []PlacesInv
<1>1. ASSUME Init PROVE PlacesInv
    <2>1. QueueOK(pending)
        BY <1>1, NothingWaits DEF Init
    <2>2. /\ armed = FALSE /\ bound = {} /\ handler = Idle /\ sweep = Idle
          /\ session = [s \in Sessions |-> "none"] /\ failures = 0 /\ restarts = 0
        BY <1>1 DEF Init
    <2>3. session \in [Sessions -> {"none", "active", "denied", "ended"}] /\ armed \in BOOLEAN
        BY <2>2
    <2>4. failures \in 0 .. MaxMishaps /\ restarts \in 0 .. MaxMishaps
        BY <2>2, ConsentAssumption
    <2> QED BY <2>1, <2>2, <2>3, <2>4 DEF PlacesInv
<1> QED BY <1>1, PlacesStep, PTL DEF Spec

\* Types, and the two bounds on what waits: no technician has two requests waiting, and
\* never more wait than MAX_PENDING, however they dial (record_pending_locked).
THEOREM ConsentTypeHolds == Spec => []TypeOK
<1>1. StoreInv /\ PlacesInv => TypeOK
    BY DEF StoreInv, PlacesInv, QueueOK, Distinct, TypeOK
<1> QED BY <1>1, StoreInvariant, PlacesInvariant, PTL

-----------------------------------------------------------------------------
(* Rights. *)

\* Rights do not grow where no grant is added and the clock does not go back.
LEMMA RightsShrink ==
    ASSUME NEW t \in Techs, now \in Nat, now' \in Nat, now' >= now,
           \A g \in {persistent[t], ephemeral[t]} :
             g = NoGrant \/ (g.scope = "three_hours" => g.until \in Nat),
           {persistent'[t], ephemeral'[t]} \subseteq {persistent[t], ephemeral[t], NoGrant}
    PROVE  Rights(t)' \subseteq Rights(t)
<1>1. \A g : IsLive(g)' => IsLive(g) \/ ~(g \in {persistent[t], ephemeral[t]})
    BY DEF IsLive, NoGrant
<1>2. ~IsLive(NoGrant)'
    BY DEF IsLive, NoGrant
<1>3. LiveGrants(t)' \subseteq LiveGrants(t)
    BY <1>1, <1>2 DEF LiveGrants
<1> QED BY <1>3 DEF Rights

LEMMA RightsInv ==
    ASSUME StoreInv, NEW t \in Techs
    PROVE  /\ now \in Nat
           /\ \A g \in {persistent[t], ephemeral[t]} :
                g = NoGrant \/ (g.scope = "three_hours" => g.until \in Nat)
BY ConsentAssumption DEF StoreInv, GrantsTyped, GrantIn

\* A decision gives rights to the technician it was made for only, answers their request
\* and closes the window.
LEMMA DecisionDecides ==
    ASSUME StoreInv, PlacesInv, NEW s \in Sessions, NEW queue, QueueOK(queue), NEW g,
           NEW ok \in BOOLEAN, ApproveRequest(s, queue, g, ok), now' = now,
           IsPending(s) \/ armed, NEW t \in Techs
    PROVE  Rights(t)' \subseteq Rights(t) \/ Decided(t)
<1>1. /\ \A i \in DOMAIN WithoutTech(queue, Dialer[s]) :
            Dialer[WithoutTech(queue, Dialer[s])[i]] # Dialer[s]
    BY WithoutTechFits
<1>2. CASE ok /\ t = Dialer[s]
    <2>1. /\ pending' = WithoutTech(queue, Dialer[s])
          /\ session' = [session EXCEPT ![s] = "active"] /\ armed' = FALSE
        BY <1>2 DEF ApproveRequest
    <2>2. ~IsPending(s)'
        BY <1>1, <2>1 DEF IsPending
    <2>3. session'[s] = "active"
        BY <2>1 DEF PlacesInv
    <2> QED BY <1>2, <2>1, <2>2, <2>3 DEF Decided
<1>3. CASE ~ok \/ t # Dialer[s]
    <2>1. {persistent'[t], ephemeral'[t]} \subseteq {persistent[t], ephemeral[t], NoGrant}
        <3>1. /\ persistent \in [Techs -> GrantIn(Standing)]
              /\ ephemeral \in [Techs -> GrantIn({"once"})]
            BY DEF StoreInv, GrantsTyped
        <3> QED BY <1>3, <3>1 DEF ApproveRequest, StoreApprove, Drops, Save
    <2>2. now \in Nat /\ now' \in Nat /\ now' >= now
        BY RightsInv
    <2> QED BY <2>1, <2>2, RightsInv, RightsShrink
<1> QED BY <1>2, <1>3

\* A step that adds no grant.
LEMMA NoGrantAdded ==
    ASSUME StoreInv, NEW t \in Techs, now' = now \/ now' = now + 1,
           persistent'[t] \in {persistent[t], NoGrant}, ephemeral'[t] \in {ephemeral[t], NoGrant}
    PROVE  Rights(t)' \subseteq Rights(t)
BY RightsInv, RightsShrink

LEMMA RightsStep ==
    ASSUME StoreInv, PlacesInv, [Next]_vars, NEW t \in Techs
    PROVE  Rights(t)' \subseteq Rights(t) \/ Decided(t) \/ restarts' # restarts
<1> DEFINE Done == Rights(t)' \subseteq Rights(t) \/ Decided(t) \/ restarts' # restarts
<1>0. /\ QueueOK(pending)
      /\ persistent \in [Techs -> GrantIn(Standing)]
      /\ ephemeral \in [Techs -> GrantIn({"once"})]
      /\ restarts \in Nat
    BY ConsentAssumption DEF PlacesInv, StoreInv, GrantsTyped
<1>1. ASSUME UNCHANGED <<persistent, ephemeral>>, now' = now \/ now' = now + 1 PROVE Done
    BY <1>1, NoGrantAdded
<1>2. ASSUME NEW s \in Sessions, NEW answer \in Answers, NEW ok \in BOOLEAN,
             Approve(s, answer[1], answer[2], ok)
      PROVE  Done
    <2>1. /\ ApproveRequest(s, pending, NewGrant(answer[1], answer[2]), ok)
          /\ IsPending(s) /\ now' = now
        BY <1>2 DEF Approve
    <2> QED BY <1>0, <2>1, DecisionDecides
<1>3. ASSUME NEW ok \in BOOLEAN, Arm(ok) PROVE Done
    <2>1. CASE UNCHANGED store
        BY <1>1, <1>3, <2>1 DEF Arm, store
    <2>2. ASSUME NEW s \in Sessions, pending # <<>>, s = Head(pending),
                 ApproveRequest(s, pending, NewGrant("three_hours", TRUE), ok)
          PROVE  Done
        <3>1. 1 \in DOMAIN pending /\ pending[1] = s
            BY <1>0, <2>2 DEF QueueOK
        <3>2. IsPending(s) /\ now' = now
            BY <1>3, <3>1 DEF IsPending, Arm
        <3> QED BY <1>0, <2>2, <3>2, DecisionDecides
    <2> QED BY <1>3, <2>1, <2>2 DEF Arm
<1>4. ASSUME NEW k \in Techs, NEW ok \in BOOLEAN, Revoke(k, ok) PROVE Done
    <2>1. /\ persistent'[t] \in {persistent[t], NoGrant}
          /\ ephemeral'[t] \in {ephemeral[t], NoGrant} /\ now' = now
        BY <1>0, <1>4 DEF Revoke, Drops
    <2> QED BY <2>1, NoGrantAdded
<1>5. ASSUME NEW s \in Sessions, Deny(s) PROVE Done
    BY <1>1, <1>5 DEF Deny, store
<1>6. CASE Customer
    BY <1>2, <1>3, <1>4, <1>5, <1>6 DEF Customer
<1>7. ASSUME NEW s \in Sessions, NEW ok \in BOOLEAN, Ask(s, ok) PROVE Done
    <2>1. CASE UNCHANGED store
        BY <1>1, <1>7, <2>1 DEF Ask, store
    <2>2. CASE armed /\ ApproveRequest(s, Recorded(s), NewGrant("three_hours", TRUE), ok)
        <3>1. QueueOK(Recorded(s)) /\ now' = now
            BY <1>0, <1>7, RecordedFits DEF Ask
        <3> QED BY <2>2, <3>1, DecisionDecides
    <2> QED BY <1>7, <2>1, <2>2 DEF Ask
<1>8. ASSUME NEW k \in Techs, ephemeral' = Drops(ephemeral, k), UNCHANGED <<persistent, now>>
      PROVE  Done
    <2>1. persistent'[t] = persistent[t] /\ ephemeral'[t] \in {ephemeral[t], NoGrant}
        BY <1>0, <1>8 DEF Drops
    <2> QED BY <1>8, <2>1, NoGrantAdded
<1>9. ASSUME NEW s \in Sessions, Retire(s) PROVE Done
    <2>1. Dialer[s] \in Techs
        BY ConsentAssumption
    <2> QED BY <1>8, <1>9, <2>1 DEF Retire
<1>10. CASE EventLoop
    <2>1. ASSUME NEW s \in Sessions,
                 OnRequest(s) \/ Supersede(s) \/ Activate(s) \/ Bind(s) \/ OnEnd(s)
          PROVE  Done
        BY <1>1, <2>1 DEF OnRequest, Supersede, Activate, Bind, OnEnd, store
    <2> QED BY <1>7, <1>9, <1>10, <2>1 DEF EventLoop
<1>11. CASE Sweep
    <2>1. ASSUME NEW k \in Techs, SweepFinds(k) \/ SweepEnds(k) PROVE Done
        BY <1>1, <2>1 DEF SweepFinds, SweepEnds, store
    <2>2. ASSUME NEW k \in Techs, SweepRetires(k) PROVE Done
        BY <1>8, <2>2 DEF SweepRetires
    <2> QED BY <1>11, <2>1, <2>2 DEF Sweep
<1>12. CASE Tick \/ WindowCloses \/ UNCHANGED vars
    BY <1>1, <1>12 DEF Tick, WindowCloses, vars, store
<1>13. CASE Restart
    BY <1>0, <1>13 DEF Restart
<1> QED BY <1>6, <1>10, <1>11, <1>12, <1>13 DEF Next

\* A technician's rights grow by the customer's decisions only, for any technicians, dials,
\* answers, mishaps and interleaving: by an answer to a request of theirs that waits, or by
\* a window the customer has armed, which it closes; or by a start, from the file.
THEOREM RightsGrow == Spec => RightsGrowByDecision
<1>1. ASSUME StoreInv, PlacesInv, [Next]_vars
      PROVE  [\A t \in Techs :
                Rights(t)' \subseteq Rights(t) \/ Decided(t) \/ restarts' # restarts]_vars
    BY <1>1, RightsStep
<1> QED BY <1>1, StoreInvariant, PlacesInvariant, PTL DEF Spec, RightsGrowByDecision

=============================================================================
