----------------------------- MODULE CecConsent -----------------------------
(***************************************************************************)
(* The customer's side of remote support: the consent store                *)
(* (crates/allmystuff-cec-consent), the requests waiting for a decision,   *)
(* the armed approval window and the support sessions (node/src/cec.rs),   *)
(* with the handlers of node/src/mesh.rs that drive them.                  *)
(*                                                                         *)
(* Every operation of Cec holds one lock, so an action is what happens     *)
(* under one lock.  The event loop's handler of a Request or an End takes  *)
(* the lock several times: `handler' says which session it is at and what  *)
(* comes next.  So does the consent sweep (`sweep').  Window commands run  *)
(* in between.                                                             *)
(***************************************************************************)
EXTENDS Retain, FiniteSets, SequencesExt

CONSTANTS Techs,        \* technicians, by canonical id
          Sessions,     \* session ids; each dial mints its own
          Dialer,       \* [Sessions -> Techs]: who dialed
          Answers,      \* the answers a customer gives: scope and control or view only
          MaxPending,   \* requests kept waiting (64 in the code)
          GrantSpan,    \* a three-hour grant, in ticks of the clock
          MaxTime,      \* bound: ticks
          MaxMishaps    \* bound: failed writes of the store and restarts of the node, together

ASSUME ConsentAssumption ==
    /\ Dialer \in [Sessions -> Techs]
    /\ Answers \subseteq {"once", "three_hours", "forever"} \X BOOLEAN
    /\ MaxPending \in Nat \ {0} /\ GrantSpan \in Nat \ {0}
    /\ MaxTime \in Nat /\ MaxMishaps \in Nat

VARIABLES persistent,  \* [Techs -> grant], ConsentStore::persistent
          ephemeral,   \* [Techs -> grant], ConsentStore::ephemeral
          disk,        \* [Techs -> grant], the file
          now,         \* the wall clock
          pending,     \* Seq(Sessions), CecInner::pending, oldest first
          armed,       \* support_approval_until is set and still ahead
          session,     \* [Sessions -> state], CecInner::sessions
          bound,       \* the sessions session_tech holds, each with its dialer
          handler, sweep,       \* where the event loop and the sweep are
          failures, restarts    \* the bounded counters

store    == <<persistent, ephemeral, disk>>
sessions == <<session, bound>>
vars == <<store, now, pending, armed, sessions, handler, sweep, failures, restarts>>

Standing == {"three_hours", "forever"}   \* ApprovalScope::persists
NoGrant  == [scope |-> "none", control |-> FALSE, until |-> 0]

\* A grant the customer makes now; only a three-hour grant has a deadline.
NewGrant(scope, control) ==
    [scope |-> scope, control |-> control,
     until |-> IF scope = "three_hours" THEN now + GrantSpan ELSE 0]

GrantIn(scopes) ==
    {NoGrant} \cup [scope : scopes, control : BOOLEAN, until : 0 .. MaxTime + GrantSpan]

Idle == [at |-> "idle"]
At(step, s) == [at |-> step, session |-> s]

\* A once grant is never in the persistent tier nor in the file.
GrantsTyped ==
    /\ persistent \in [Techs -> GrantIn(Standing)] /\ disk \in [Techs -> GrantIn(Standing)]
    /\ ephemeral \in [Techs -> GrantIn({"once"})]
    /\ now \in 0 .. MaxTime

\* Types; no technician has two requests waiting.
TypeOK ==
    /\ GrantsTyped
    /\ pending \in Seq(Sessions) /\ Len(pending) <= MaxPending
    /\ \A i, j \in DOMAIN pending : Dialer[pending[i]] = Dialer[pending[j]] => i = j
    /\ armed \in BOOLEAN
    /\ session \in [Sessions -> {"none", "active", "denied", "ended"}]
    /\ bound \subseteq Sessions
    /\ handler \in {Idle} \cup [at : {"ask", "supersede", "activate", "bind", "retire"}, session : Sessions]
    /\ sweep \in {Idle} \cup [at : {"end", "retire"}, tech : Techs]
    /\ failures \in 0 .. MaxMishaps /\ restarts \in 0 .. MaxMishaps

\* What a start of the node makes of the file (Cec::new, ConsentStore::load).
Loaded(file) ==
    /\ persistent' = file /\ ephemeral' = [t \in Techs |-> NoGrant]
    /\ pending' = <<>> /\ armed' = FALSE
    /\ session' = [s \in Sessions |-> "none"] /\ bound' = {}
    /\ handler' = Idle /\ sweep' = Idle

Init ==
    /\ disk = [t \in Techs |-> NoGrant]
    /\ persistent = disk /\ ephemeral = disk
    /\ now = 0 /\ pending = <<>> /\ armed = FALSE
    /\ session = [s \in Sessions |-> "none"] /\ bound = {}
    /\ handler = Idle /\ sweep = Idle
    /\ failures = 0 /\ restarts = 0

-----------------------------------------------------------------------------
(* What the store says. *)

IsLive(g) == g.scope # "none" /\ (g.scope = "three_hours" => now < g.until)

LiveGrants(t) == {g \in {persistent[t], ephemeral[t]} : IsLive(g)}

\* Capability::covers: control implies screen view.
Rights(t) ==
    (IF LiveGrants(t) # {} THEN {"view"} ELSE {})
        \cup (IF \E g \in LiveGrants(t) : g.control THEN {"control"} ELSE {})

HasStanding(t) == \E g \in LiveGrants(t) : g.scope \in Standing

IsPending(s) == \E i \in DOMAIN pending : pending[i] = s

\* knows_technician: a waiting request or a grant, live or lapsed.
Knows(t) ==
    \/ \E s \in Sessions : Dialer[s] = t /\ IsPending(s)
    \/ persistent[t] # NoGrant \/ ephemeral[t] # NoGrant

WithoutTech(queue, t) == Retained(queue, {s \in Sessions : Dialer[s] # t})

Drops(grants, t) == [grants EXCEPT ![t] = NoGrant]

\* One write of the whole persistent tier.  It succeeds, or fails and leaves the file.
Save(tier, ok) ==
    /\ disk' = IF ok THEN tier ELSE disk
    /\ IF ok THEN UNCHANGED failures
       ELSE failures + restarts < MaxMishaps /\ failures' = failures + 1

\* mutant: an approval that could not be saved stays in memory.
ApproveKeepsUnsaved(t, g, ok) ==
    IF g.scope \in Standing
    THEN /\ persistent' = [persistent EXCEPT ![t] = g]
         /\ ephemeral' = Drops(ephemeral, t)
         /\ Save([persistent EXCEPT ![t] = g], ok)
    ELSE /\ ok
         /\ persistent' = Drops(persistent, t)
         /\ ephemeral' = [ephemeral EXCEPT ![t] = g]
         /\ UNCHANGED <<disk, failures>>

\* mutant: a new decision replaces the old one in its own tier only.
ApproveOwnTier(t, g, ok) ==
    IF g.scope \in Standing
    THEN /\ persistent' = IF ok THEN [persistent EXCEPT ![t] = g] ELSE persistent
         /\ UNCHANGED ephemeral
         /\ Save([persistent EXCEPT ![t] = g], ok)
    ELSE /\ ok
         /\ ephemeral' = [ephemeral EXCEPT ![t] = g]
         /\ UNCHANGED <<persistent, disk, failures>>

\* ConsentStore::approve: the grant replaces the technician's grants of both tiers; only
\* a standing one is saved, and a failed save restores both tiers.
StoreApprove(t, g, ok) ==
    IF g.scope \in Standing
    THEN /\ Save([persistent EXCEPT ![t] = g], ok)
         /\ IF ok THEN /\ persistent' = [persistent EXCEPT ![t] = g]
                       /\ ephemeral' = Drops(ephemeral, t)
            ELSE UNCHANGED <<persistent, ephemeral>>
    ELSE /\ ok
         /\ persistent' = Drops(persistent, t)
         /\ ephemeral' = [ephemeral EXCEPT ![t] = g]
         /\ UNCHANGED <<disk, failures>>

-----------------------------------------------------------------------------
(* Decisions. *)

\* mutant: an armed window stays open after the request it let in.
ApproveKeepsWindow(s, queue, g, ok) ==
    /\ StoreApprove(Dialer[s], g, ok)
    /\ IF ok THEN /\ pending' = WithoutTech(queue, Dialer[s])
                  /\ session' = [session EXCEPT ![s] = "active"]
                  /\ bound' = bound \cup {s}
                  /\ UNCHANGED armed
       ELSE pending' = queue /\ UNCHANGED <<sessions, armed>>

\* approve_request_locked on a session that is still open; `queue' is the pending list.
ApproveRequest(s, queue, g, ok) ==
    /\ StoreApprove(Dialer[s], g, ok)
    /\ IF ok THEN /\ pending' = WithoutTech(queue, Dialer[s])
                  /\ session' = [session EXCEPT ![s] = "active"]
                  /\ bound' = bound \cup {s}
                  /\ armed' = FALSE
       ELSE pending' = queue /\ UNCHANGED <<sessions, armed>>

Open(s) == session[s] \notin {"denied", "ended"}

\* cec_approve: the customer picks a scope and may narrow the request to viewing.
Approve(s, scope, control, ok) ==
    /\ IsPending(s) /\ Open(s)
    /\ ApproveRequest(s, pending, NewGrant(scope, control), ok)
    /\ UNCHANGED <<now, handler, sweep, restarts>>

\* cec_deny.
Deny(s) ==
    /\ IsPending(s)
    /\ pending' = Retained(pending, Sessions \ {s})
    /\ session' = [session EXCEPT ![s] = "denied"]
    /\ armed' = FALSE
    /\ UNCHANGED <<store, now, bound, handler, sweep, failures, restarts>>

\* arm_support: approves the oldest request, or opens the window for the next one.
Arm(ok) ==
    /\ \/ pending = <<>> /\ ok /\ armed' = TRUE /\ UNCHANGED <<store, pending, sessions, failures>>
       \/ \E s \in Sessions :
              /\ pending # <<>> /\ s = Head(pending) /\ Open(s)
              /\ ApproveRequest(s, pending, NewGrant("three_hours", TRUE), ok)
    /\ UNCHANGED <<now, handler, sweep, restarts>>

\* cec_revoke: the requests go first, and memory goes even when the save fails.
Revoke(t, ok) ==
    /\ pending' = WithoutTech(pending, t)
    /\ persistent' = Drops(persistent, t) /\ ephemeral' = Drops(ephemeral, t)
    /\ IF persistent[t] # NoGrant THEN Save(Drops(persistent, t), ok)
       ELSE ok /\ UNCHANGED <<disk, failures>>
    /\ UNCHANGED <<now, armed, sessions, handler, sweep, restarts>>

Customer ==
    \E ok \in BOOLEAN :
        \/ \E s \in Sessions, answer \in Answers : Approve(s, answer[1], answer[2], ok)
        \/ \E s \in Sessions : ok /\ Deny(s)
        \/ Arm(ok)
        \/ \E t \in Techs : Revoke(t, ok)

-----------------------------------------------------------------------------
(* handle_cec_control.  A Request is repeated until it is answered, so it may come at    *)
(* any time; so may the End of a dial its technician gave up.                            *)

\* A session already decided is answered again and nothing changes here.
OnRequest(s) ==
    /\ handler = Idle /\ session[s] \notin {"active", "denied"}
    /\ handler' = At(IF HasStanding(Dialer[s]) THEN "supersede" ELSE "ask", s)
    /\ UNCHANGED <<store, now, pending, armed, sessions, sweep, failures, restarts>>

\* mutant: a full list grows.
RecordedUnbounded(s) == Append(WithoutTech(pending, Dialer[s]), s)

\* record_pending_locked: a redial takes the place of the technician's older request, a
\* full list loses its oldest.
Recorded(s) ==
    LET others == WithoutTech(pending, Dialer[s])
    IN Append(IF Len(others) >= MaxPending THEN Tail(others) ELSE others, s)

\* record_or_approve_armed.
Ask(s, ok) ==
    /\ handler = At("ask", s) /\ handler' = Idle
    /\ IF ~Open(s) \/ session[s] = "active"
       THEN ok /\ UNCHANGED <<store, pending, armed, sessions, failures>>
       ELSE IF armed
       THEN ApproveRequest(s, Recorded(s), NewGrant("three_hours", TRUE), ok)
       ELSE ok /\ pending' = Recorded(s) /\ UNCHANGED <<store, armed, sessions, failures>>
    /\ UNCHANGED <<now, sweep, restarts>>

\* mutant: the session is bound before it is made active.
BindFirst == <<"supersede", "bind", "activate">>

\* The three locks of an automatic approval: end_other_sessions, set_session, bind_session.
AutoApproval == <<"supersede", "activate", "bind">>

Follows(step, s) ==
    LET i == CHOOSE k \in DOMAIN AutoApproval : AutoApproval[k] = step
    IN IF i = Len(AutoApproval) THEN Idle ELSE At(AutoApproval[i + 1], s)

Supersede(s) ==
    /\ handler = At("supersede", s) /\ handler' = Follows("supersede", s)
    /\ LET stale == {o \in Sessions \ {s} : session[o] = "active"}
       IN /\ session' = [o \in Sessions |-> IF o \in stale THEN "ended" ELSE session[o]]
          /\ bound' = bound \ stale
    /\ UNCHANGED <<store, now, pending, armed, sweep, failures, restarts>>

Activate(s) ==
    /\ handler = At("activate", s) /\ handler' = Follows("activate", s)
    /\ session' = [session EXCEPT ![s] = "active"]
    /\ UNCHANGED <<store, now, pending, armed, bound, sweep, failures, restarts>>

Bind(s) ==
    /\ handler = At("bind", s) /\ handler' = Follows("bind", s)
    /\ bound' = bound \cup {s}
    /\ UNCHANGED <<store, now, pending, armed, session, sweep, failures, restarts>>

\* End, first lock: set_session to ended.
OnEnd(s) ==
    /\ handler = Idle /\ handler' = At("retire", s)
    /\ session' = [session EXCEPT ![s] = "ended"]
    /\ bound' = bound \ {s}
    /\ pending' = Retained(pending, Sessions \ {s})
    /\ UNCHANGED <<store, now, armed, sweep, failures, restarts>>

\* End, second lock: retire_once.
Retire(s) ==
    /\ handler = At("retire", s) /\ handler' = Idle
    /\ ephemeral' = Drops(ephemeral, Dialer[s])
    /\ UNCHANGED <<persistent, disk, now, pending, armed, sessions, sweep, failures, restarts>>

EventLoop ==
    \E s \in Sessions :
        \/ OnRequest(s) \/ (\E ok \in BOOLEAN : Ask(s, ok))
        \/ Supersede(s) \/ Activate(s) \/ Bind(s)
        \/ OnEnd(s) \/ Retire(s)

-----------------------------------------------------------------------------
(* spawn_cec_consent_sweep, for a technician with a live route here. *)

\* A screen route without the right to view, or a drive route, admitted under an earlier
\* decision, without the right to control.
SweepFinds(t) ==
    /\ sweep = Idle /\ Knows(t) /\ Rights(t) # {"view", "control"}
    /\ sweep' = [at |-> "end", tech |-> t]
    /\ UNCHANGED <<store, now, pending, armed, sessions, handler, failures, restarts>>

\* end_sessions_for, after the routes are down.
SweepEnds(t) ==
    /\ sweep = [at |-> "end", tech |-> t] /\ sweep' = [at |-> "retire", tech |-> t]
    /\ LET theirs == {s \in bound : Dialer[s] = t}
       IN /\ session' = [s \in Sessions |-> IF s \in theirs THEN "none" ELSE session[s]]
          /\ bound' = bound \ theirs
    /\ UNCHANGED <<store, now, pending, armed, handler, failures, restarts>>

SweepRetires(t) ==
    /\ sweep = [at |-> "retire", tech |-> t] /\ sweep' = Idle
    /\ ephemeral' = Drops(ephemeral, t)
    /\ UNCHANGED <<persistent, disk, now, pending, armed, sessions, handler, failures, restarts>>

Sweep == \E t \in Techs : SweepFinds(t) \/ SweepEnds(t) \/ SweepRetires(t)

-----------------------------------------------------------------------------
(* The clock, the window and restarts. *)

Tick ==
    /\ now < MaxTime /\ now' = now + 1
    /\ UNCHANGED <<store, pending, armed, sessions, handler, sweep, failures, restarts>>

\* SUPPORT_APPROVAL_WINDOW has passed; the first reader clears the field.
WindowCloses ==
    /\ armed /\ armed' = FALSE
    /\ UNCHANGED <<store, now, pending, sessions, handler, sweep, failures, restarts>>

Restart ==
    /\ failures + restarts < MaxMishaps /\ restarts' = restarts + 1
    /\ Loaded(disk)
    /\ UNCHANGED <<disk, now, failures>>

Next == Customer \/ EventLoop \/ Sweep \/ Tick \/ WindowCloses \/ Restart

Spec == Init /\ [][Next]_vars

-----------------------------------------------------------------------------
(* Properties. *)

\* A technician has one grant, whatever order once, three-hour and forever decisions,
\* failed saves, revocations and restarts come in (ConsentStore::approve).
OneGrant == \A t \in Techs : persistent[t] = NoGrant \/ ephemeral[t] = NoGrant

\* Nothing is held as a standing grant that a restart would forget: every standing grant
\* in memory is the one in the file (ConsentError::Persist, save).
StandingIsSaved == \A t \in Techs : persistent[t] \in {NoGrant, disk[t]}

\* What a technician may do grows only by a decision for a request of theirs, made while
\* it waited or while the window was armed, and that decision closes the window; or by a
\* restart, which brings back the file.  No request, lapse, sweep, failed save or late
\* End gives a right (approve_request_locked, record_or_approve_armed, arm_support).
Decided(t) ==
    /\ \E s \in Sessions : /\ Dialer[s] = t /\ (IsPending(s) \/ armed)
                           /\ session'[s] = "active" /\ ~IsPending(s)'
    /\ ~armed'

RightsGrowByDecision ==
    [][\A t \in Techs : Rights(t)' \subseteq Rights(t) \/ Decided(t) \/ restarts' # restarts]_vars

\* The sweep can end every session: a session is active only while session_tech holds it,
\* but for the instant between set_session and bind_session; no sweep in between loses it.
ActiveIsBound ==
    \A s \in Sessions : session[s] = "active" => s \in bound \/ handler = At("bind", s)

\* A decision replaces the ones before it for good: a restart gives nobody more than they
\* had (ConsentStore::approve, "a new decision replaces any prior one in either tier").
RestartNeverWidens ==
    [][restarts' # restarts => \A t \in Techs : Rights(t)' \subseteq Rights(t)]_vars

=============================================================================
