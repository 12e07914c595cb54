----------------------------- MODULE RemoteInput -----------------------------
(***************************************************************************)
(* A viewer's keys on this machine: the leases and queues of the injector  *)
(* (node/src/input_inject.rs), its worker for the native desktop and the   *)
(* one for Wayland, with the captured desktops that one binds routes to    *)
(* (node/src/wayland_input.rs), and the routes that begin and end them     *)
(* (node/src/mesh.rs).                                                     *)
(*                                                                         *)
(* Callers hold short locks, the worker is a thread of its own, and so is  *)
(* each capture.  What the worker does between its look at a lease and the *)
(* injection reads nothing that a caller writes: the two are one step.     *)
(* Mouse buttons are keys; motion only chooses the screen.                 *)
(***************************************************************************)
EXTENDS Naturals, FiniteSets, Sequences

CONSTANTS Controls,      \* input routes that end here, all of one viewer
          Codes,         \* the physical keys of the viewer's keyboard
          Modifier,      \* the one of them that makes a chord
          SteadyFaces,   \* does a key inject the same with and without the modifier?
          Captures,      \* desktop sessions, each of a screen of its own and opened once
          LocalEnds,     \* does the user of this machine disconnect routes himself?
          Refusing,      \* the backends that may refuse an event
          EventCap,      \* INPUT_QUEUE_CAP
          MaxLeases      \* bound: routes begun

ASSUME InputAssumption ==
    /\ Modifier \in Codes /\ SteadyFaces \in BOOLEAN /\ LocalEnds \in BOOLEAN
    /\ Refusing \subseteq {"native", "wayland"}
    /\ EventCap \in Nat \ {0} /\ MaxLeases \in Nat /\ 0 \notin Captures

VARIABLES backend,     \* which worker runs on this machine
          admitted,    \* the routes that are active in the session
          stopping,    \* routes that ended, their StopMedia still to be carried out
          lease,       \* Injector::leases: the generation of each route's lease, or 0
          minted,      \* next_generation
          posting,     \* leases cancelled, their release not queued yet
          rejecting,   \* reject_input_backend tasks
          events,      \* the bounded queue
          releases,    \* the unbounded one
          worker,      \* where the worker's loop is
          held,        \* [generation -> SUBSET (code, key)]: KeyTracker
          down,        \* [desktop -> SUBSET key]: what the system has as pressed
          waiting,     \* [generation -> Seq]: events held until a capture is there
          flushing,    \* the generations whose events are still to be tried
          current,     \* [Controls -> generation or 0]: whose keys a route's state has
          failed,      \* generations whose backend has failed
          desktop,     \* [Controls -> capture or 0]: RouteState::binding
          capture      \* [Captures -> how far its life is]

routes  == <<admitted, stopping>>
leases  == <<lease, minted, posting>>
keys    == <<held, down>>
wayland == <<waiting, flushing, current, failed, desktop>>
inputVars == <<backend, routes, leases, rejecting, events, releases, worker, keys, wayland,
               capture>>

Generations == 1 .. MaxLeases
Desk        == 0                       \* the native desktop

Key   == Codes \X {"face", "cap"}
Event == [control : Controls, lease : Generations, code : Codes, kind : {"down", "up"}]
    \cup [control : Controls, lease : Generations, code : Captures, kind : {"move"}]

\* Only the generations that have a lease, or had one, hold keys or wait for a capture.
InputTypeOK ==
    /\ backend \in {"native", "wayland"} /\ worker \in {"off", "drain", "take", "flush"}
    /\ admitted \cup stopping \subseteq Controls /\ minted \in 0 .. MaxLeases
    /\ lease \in [Controls -> 0 .. minted]
    /\ posting \cup releases \cup rejecting \subseteq Controls \X (1 .. minted)
    /\ events \in Seq(Event) /\ Len(events) <= EventCap
    /\ held \in [Generations -> SUBSET (Codes \X Key)]
    /\ down \in [Captures \cup {Desk} -> SUBSET Key]
    /\ waiting \in [Generations -> Seq(Event)] /\ flushing \subseteq 1 .. minted
    /\ current \in [Controls -> 0 .. minted] /\ failed \subseteq 1 .. minted
    /\ desktop \in [Controls -> Captures \cup {0}]
    /\ capture \in [Captures -> {"none", "live", "dead", "lifting", "over"}]

InputInit ==
    /\ backend \in {"native", "wayland"} /\ worker = "off"
    /\ admitted = {} /\ stopping = {} /\ minted = 0 /\ lease = [r \in Controls |-> 0]
    /\ posting = {} /\ rejecting = {} /\ events = <<>> /\ releases = {}
    /\ held = [g \in Generations |-> {}] /\ down = [d \in Captures \cup {Desk} |-> {}]
    /\ waiting = [g \in Generations |-> <<>>] /\ flushing = {}
    /\ current = [r \in Controls |-> 0] /\ failed = {} /\ desktop = [r \in Controls |-> 0]
    /\ capture = [c \in Captures |-> "none"]

-----------------------------------------------------------------------------
(* The routes (mesh.rs), the leases and the queues (Injector).                           *)

Live(g) == \E r \in Controls : lease[r] = g

\* The release of the lease that r has, if it has one.
Cancelled(r) == {<<q, lease[q]>> : q \in {p \in {r} : lease[p] # 0}}

\* begin_route, at the activation of the route: the lease before it is cancelled.
BeginControl(r) ==
    /\ minted < MaxLeases /\ minted' = minted + 1
    /\ admitted' = admitted \cup {r}
    /\ lease' = [lease EXCEPT ![r] = minted + 1]
    /\ posting' = posting \cup Cancelled(r)
    /\ UNCHANGED <<backend, stopping, rejecting, events, releases, worker, keys, wayland, capture>>

\* The viewer's Teardown, or its restart: the session ends the route with a StopMedia.
EndControl(r) ==
    /\ r \in admitted /\ admitted' = admitted \ {r}
    /\ stopping' = stopping \cup {r}
    /\ UNCHANGED <<backend, leases, rejecting, events, releases, worker, keys, wayland, capture>>

\* disconnect: the route is torn down here, and its media stopped without a StopMedia.
DisconnectControl(r) ==
    /\ LocalEnds
    /\ r \in admitted /\ admitted' = admitted \ {r}
    /\ UNCHANGED <<backend, stopping, leases, rejecting, events, releases, worker, keys, wayland,
                   capture>>

\* reject_input_backend: only the incarnation that failed is ended.
RejectControl(p) ==
    /\ p \in rejecting /\ rejecting' = rejecting \ {p}
    /\ LET ends == {r \in admitted : p = <<r, lease[r]>>}
       IN admitted' = admitted \ ends /\ stopping' = stopping \cup ends
    /\ UNCHANGED <<backend, leases, events, releases, worker, keys, wayland, capture>>

\* StopMedia: release_route cancels the lease.
StopControl(r) ==
    /\ r \in stopping /\ stopping' = stopping \ {r}
    /\ lease' = [lease EXCEPT ![r] = 0]
    /\ posting' = posting \cup Cancelled(r)
    /\ UNCHANGED <<backend, admitted, minted, rejecting, events, releases, worker, keys, wayland,
                   capture>>

\* mutant: one bounded queue for events and releases.
PostRelease_Bounded(p) ==
    /\ p \in posting /\ posting' = posting \ {p}
    /\ releases' = IF worker = "off" \/ Len(events) >= EventCap THEN releases
                   ELSE releases \cup {p}
    /\ UNCHANGED <<backend, routes, lease, minted, rejecting, events, worker, keys, wayland,
                   capture>>

\* The release is queued; without a worker nothing is held.
PostRelease(p) ==
    /\ p \in posting /\ posting' = posting \ {p}
    /\ releases' = IF worker = "off" THEN releases ELSE releases \cup {p}
    /\ UNCHANGED <<backend, routes, lease, minted, rejecting, events, worker, keys, wayland,
                   capture>>

Admits(r) == r \in admitted \cup stopping /\ lease[r] # 0 /\ Len(events) < EventCap

\* An input frame: apply, past the gates that it may have passed before the route ended.  The
\* first one starts the worker.
Frame(r, code, kind) ==
    /\ Admits(r)
    /\ events' = Append(events, [control |-> r, lease |-> lease[r], code |-> code, kind |-> kind])
    /\ worker' = IF worker = "off" THEN "drain" ELSE worker
    /\ UNCHANGED <<backend, routes, leases, rejecting, releases, keys, wayland, capture>>

\* Without a route, without a lease and with a full queue it is dropped.
FrameDropped(r) == ~Admits(r) /\ UNCHANGED inputVars

-----------------------------------------------------------------------------
(* The keys of one incarnation (KeyTracker).                                             *)

Chord(pressed) == \E p \in pressed : p[1] = Modifier

\* resolve: a chord takes the keycap, plain typing the typist's character.
Resolve(pressed, code) ==
    <<code, IF Chord(pressed) /\ code # Modifier /\ ~SteadyFaces THEN "cap" ELSE "face">>

Others(pressed, code) == {p \in pressed : p[1] # code}

Press(pressed, code) == Others(pressed, code) \cup {<<code, Resolve(pressed, code)>>}

\* release: the key that its keydown pressed.
Released(pressed, code) ==
    IF \E p \in pressed : p[1] = code THEN {p[2] : p \in pressed \ Others(pressed, code)}
    ELSE {Resolve(pressed, code)}

Held(g) == {p[2] : p \in held[g]}

-----------------------------------------------------------------------------
(* The native worker (run_injector).                                                     *)

\* release_native_route for all that is queued.
DrainNative ==
    LET gone == {p[2] : p \in releases}
    IN /\ backend = "native" /\ worker = "drain" /\ worker' = "take"
       /\ releases' = {}
       /\ down' = [down EXCEPT ![Desk] = @ \ UNION {Held(g) : g \in gone}]
       /\ held' = [g \in Generations |-> IF g \in gone THEN {} ELSE held[g]]
       /\ UNCHANGED <<backend, routes, leases, rejecting, events, wayland, capture>>

\* The next event, if its lease is active still: the tracker changes first, and remains so when
\* the system refuses the event.
TakeNative(refused) ==
    LET e == Head(events)
        g == e.lease
        typed == Live(g) /\ e.kind # "move"
    IN /\ backend = "native" /\ worker = "take" /\ worker' = "drain"
       /\ events # <<>> /\ events' = Tail(events)
       /\ refused => Live(g) /\ "native" \in Refusing
       /\ rejecting' = rejecting \cup {p \in {<<e.control, g>>} : refused}
       /\ held' = CASE typed /\ e.kind = "down" -> [held EXCEPT ![g] = Press(@, e.code)]
                    [] typed /\ e.kind = "up"   -> [held EXCEPT ![g] = Others(@, e.code)]
                    [] OTHER                    -> held
       /\ down' = CASE typed /\ ~refused /\ e.kind = "down" ->
                         [down EXCEPT ![Desk] = @ \cup {Resolve(held[g], e.code)}]
                    [] typed /\ ~refused /\ e.kind = "up" ->
                         [down EXCEPT ![Desk] = @ \ Released(held[g], e.code)]
                    [] OTHER -> down
       /\ UNCHANGED <<backend, routes, leases, releases, wayland, capture>>

\* recv_timeout, on either backend.
TakeNothing ==
    /\ worker = "take" /\ events = <<>>
    /\ flushing' = {g \in Generations : waiting[g] # <<>>}
    /\ worker' = IF flushing' = {} THEN "drain" ELSE "flush"
    /\ UNCHANGED <<backend, routes, leases, rejecting, events, releases, keys, waiting, current,
                   failed, desktop, capture>>

-----------------------------------------------------------------------------
(* The worker for Wayland (run_wayland_injector, wayland_input.rs).                      *)

\* Injector::release_route for the routes rs: what their states hold is lifted where it went
\* down, and the states are gone.
Lift(rs) ==
    /\ down' = [d \in DOMAIN down |->
          LET there == {r \in rs : desktop[r] = d /\ current[r] # 0}
          IN down[d] \ UNION {Held(current[r]) : r \in there}]
    /\ held' = [g \in Generations |-> IF g \in {current[r] : r \in rs} THEN {} ELSE held[g]]
    /\ desktop' = [r \in Controls |-> IF r \in rs THEN 0 ELSE desktop[r]]

\* A release clears the state of its own generation only.
DrainWayland ==
    LET gone == {p[2] : p \in releases}
        mine == {r \in Controls : <<r, current[r]>> \in releases}
    IN /\ backend = "wayland" /\ worker = "drain" /\ worker' = "take"
       /\ releases' = {}
       /\ Lift(mine)
       /\ current' = [r \in Controls |-> IF r \in mine THEN 0 ELSE current[r]]
       /\ failed' = failed \ gone
       /\ waiting' = [g \in Generations |-> IF g \in gone THEN <<>> ELSE waiting[g]]
       /\ UNCHANGED <<backend, routes, leases, rejecting, events, flushing, capture>>

\* The incarnation fails: its keys are lifted, what waits is dropped and the route rejected.
Fails(r, g, released) ==
    /\ Lift(released)
    /\ current' = [q \in Controls |-> IF q \in released THEN 0 ELSE current[q]]
    /\ failed' = failed \cup {g} /\ waiting' = [waiting EXCEPT ![g] = <<>>]
    /\ rejecting' = rejecting \cup {<<r, g>>}

QueuedTo(w) == UNION {{g} \X (1 .. Len(w[g])) : g \in Generations}

\* The next event joins those that wait, all of which are then tried; too many fail the route.
TakeWayland ==
    LET e == Head(events)
        g == e.lease
        full == Cardinality(QueuedTo(waiting)) >= EventCap
    IN /\ backend = "wayland" /\ worker = "take"
       /\ events # <<>> /\ events' = Tail(events)
       /\ \/ /\ ~Live(g) \/ g \in failed
             /\ worker' = "drain"
             /\ UNCHANGED <<wayland, keys, rejecting>>
          \/ /\ Live(g) /\ g \notin failed /\ full
             /\ worker' = "drain"
             /\ Fails(e.control, g, {r \in {e.control} : current[r] = g})
             /\ UNCHANGED flushing
          \/ /\ Live(g) /\ g \notin failed /\ ~full
             /\ waiting' = [waiting EXCEPT ![g] = Append(@, e)]
             /\ flushing' = {h \in Generations : waiting'[h] # <<>>} /\ worker' = "flush"
             /\ UNCHANGED <<current, failed, desktop, keys, rejecting>>
       /\ UNCHANGED <<backend, routes, leases, releases, capture>>

Registered == {c \in Captures : capture[c] = "live"}

\* find_binding and the choice before it: motion asks for its screen; a key stays where the
\* route's keys are, while that session is alive, and else needs the only session there is.
Targets(r, e) ==
    CASE e.kind = "move" -> {e.code} \cap Registered
      [] e.kind # "move" /\ desktop[r] # 0 /\ capture[desktop[r]] \in {"live", "lifting"} ->
            {desktop[r]}
      [] OTHER -> IF Cardinality(Registered) = 1 THEN Registered ELSE {}

\* The old state's release fails: its session is dead and it holds keys.
Unreleasable(r, c) ==
    desktop[r] \notin {0, c} /\ capture[desktop[r]] = "dead" /\ held[current[r]] # {}

Flushing(g) == backend = "wayland" /\ worker = "flush" /\ g \in flushing

Tried(g, over) ==
    /\ flushing' = IF over THEN flushing \ {g} ELSE flushing
    /\ worker' = IF flushing' = {} THEN "drain" ELSE "flush"
    /\ UNCHANGED <<backend, routes, leases, events, releases, capture>>

\* The lease has ended: its events are not replayed.
FlushDrops(g) ==
    LET mine == {r \in Controls : current[r] = g}
    IN /\ Flushing(g) /\ ~Live(g)
       /\ Lift(mine)
       /\ current' = [r \in Controls |-> IF r \in mine THEN 0 ELSE current[r]]
       /\ waiting' = [waiting EXCEPT ![g] = <<>>]
       /\ Tried(g, TRUE) /\ UNCHANGED <<rejecting, failed>>

\* The state of an older incarnation of the route is released first.
FlushReplaces(g) ==
    LET r == Head(waiting[g]).control
    IN /\ Flushing(g) /\ Live(g) /\ current[r] \notin {0, g}
       /\ Lift({r})
       /\ current' = [current EXCEPT ![r] = g]
       /\ Tried(g, FALSE) /\ UNCHANGED <<rejecting, failed, waiting>>

\* wayland_input::Injector::apply, done: on another desktop than before the old one's keys are
\* lifted, and only what is held on this one is remembered.
FlushApplies(g, c) ==
    LET e == Head(waiting[g])
        r == e.control
        left == IF desktop[r] \in {0, c} THEN {} ELSE held[g]
        kept == held[g] \ left
    IN /\ Flushing(g) /\ Live(g) /\ current[r] \in {0, g}
       /\ c \in Targets(r, e) /\ ~Unreleasable(r, c)
       /\ held' = [held EXCEPT ![g] = CASE e.kind = "down" -> Press(kept, e.code)
                                        [] e.kind = "up"   -> Others(kept, e.code)
                                        [] OTHER           -> kept]
       /\ down' = [d \in DOMAIN down |->
                     CASE d = c /\ e.kind = "down" -> down[d] \cup {Resolve(kept, e.code)}
                       [] d = c /\ e.kind = "up"   -> down[d] \ Released(kept, e.code)
                       [] d # c /\ d = desktop[r]    -> down[d] \ {p[2] : p \in left}
                       [] OTHER                    -> down[d]]
       /\ desktop' = [desktop EXCEPT ![r] = c] /\ current' = [current EXCEPT ![r] = g]
       /\ waiting' = [waiting EXCEPT ![g] = Tail(@)]
       /\ Tried(g, waiting'[g] = <<>>) /\ UNCHANGED <<rejecting, failed>>

\* No session at all yet: the events wait.
FlushWaits(g) ==
    LET e == Head(waiting[g])
    IN /\ Flushing(g) /\ Live(g) /\ current[e.control] \in {0, g}
       /\ Targets(e.control, e) = {} /\ Registered = {}
       /\ current' = [current EXCEPT ![e.control] = g]
       /\ Tried(g, TRUE) /\ UNCHANGED <<rejecting, keys, failed, desktop, waiting>>

\* Any other error, and a wait of ten seconds: the route's keys are lifted and it is rejected.
FlushFails(g) ==
    LET e == Head(waiting[g])
        r == e.control
    IN /\ Flushing(g) /\ Live(g) /\ current[r] \in {0, g}
       /\ \/ Targets(r, e) = {}
          \/ \E c \in Targets(r, e) : Unreleasable(r, c)
          \/ "wayland" \in Refusing
       /\ Fails(r, g, {r})
       /\ Tried(g, TRUE)

-----------------------------------------------------------------------------
(* The captures (video.rs, Registration).                                                *)

OpenCapture(c) ==
    /\ backend = "wayland" /\ capture[c] = "none"
    /\ capture' = [capture EXCEPT ![c] = "live"]
    /\ UNCHANGED <<backend, routes, leases, rejecting, events, releases, worker, keys, wayland>>

\* The compositor ends the session, and with it what was pressed in it.
SessionDies(c) ==
    /\ capture[c] = "live" /\ capture' = [capture EXCEPT ![c] = "dead"]
    /\ down' = [down EXCEPT ![c] = {}]
    /\ UNCHANGED <<backend, routes, leases, rejecting, events, releases, worker, held, wayland>>

\* The guard is dropped: the entry goes under the registry's lock ...
Unregister(c) ==
    /\ capture[c] = "live" /\ capture' = [capture EXCEPT ![c] = "lifting"]
    /\ UNCHANGED <<backend, routes, leases, rejecting, events, releases, worker, keys, wayland>>

\* ... and the states bound to it under the worker's, before the session is closed.
LiftCapture(c) ==
    /\ capture[c] \in {"lifting", "dead"} /\ capture' = [capture EXCEPT ![c] = "over"]
    /\ Lift({r \in Controls : desktop[r] = c})
    /\ UNCHANGED <<backend, routes, leases, rejecting, events, releases, worker, waiting, flushing,
                   current, failed>>

-----------------------------------------------------------------------------
Routes ==
    \/ \E r \in Controls : \/ BeginControl(r) \/ EndControl(r) \/ DisconnectControl(r)
                           \/ StopControl(r) \/ FrameDropped(r)
    \/ \E p \in rejecting : RejectControl(p)
    \/ \E p \in posting : PostRelease(p)
    \/ \E r \in Controls : \/ \E k \in Codes : Frame(r, k, "down") \/ Frame(r, k, "up")
                           \/ \E c \in Captures : Frame(r, c, "move")

Worker ==
    \/ DrainNative \/ DrainWayland \/ TakeNothing \/ TakeWayland
    \/ \E refused \in BOOLEAN : TakeNative(refused)
    \/ \E g \in flushing : \/ FlushDrops(g) \/ FlushReplaces(g) \/ FlushWaits(g) \/ FlushFails(g)
                           \/ \E c \in Captures : FlushApplies(g, c)

Desktops ==
    \E c \in Captures : OpenCapture(c) \/ SessionDies(c) \/ Unregister(c) \/ LiftCapture(c)

InputNext == Routes \/ Worker \/ Desktops

InputSpec == InputInit /\ [][InputNext]_inputVars

-----------------------------------------------------------------------------
(* Properties.                                                                           *)

HoldersOn(d) ==
    IF d = Desk THEN Generations ELSE {current[r] : r \in {q \in Controls : desktop[q] = d}}

Wanted(g) == \E r \in admitted \cup stopping : lease[r] = g

Due(g) == \E p \in posting \cup releases : p[2] = g

(* A key that is pressed on a desktop of this machine is remembered by an    *)
(* incarnation that has the lease of a route, or whose release is on its     *)
(* way: no drain, desktop change, capture end or failure forgets it.         *)
NoKeyForgotten ==
    \A d \in DOMAIN down : \A k \in down[d] :
        \E g \in HoldersOn(d) \ {0} : k \in Held(g) /\ (Live(g) \/ Due(g))

(* That incarnation is of a route that goes on, or its release is on its     *)
(* way: nothing the viewer pressed stays down when its route is over.        *)
NoKeyStuck ==
    \A d \in DOMAIN down : \A k \in down[d] :
        \E g \in HoldersOn(d) \ {0} : k \in Held(g) /\ (Wanted(g) \/ Due(g))
=============================================================================
