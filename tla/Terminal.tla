------------------------------ MODULE Terminal ------------------------------
(***************************************************************************)
(* The shells this machine hosts (node/src/terminal.rs TerminalHost) and   *)
(* the viewers' routes onto them (node/src/mesh.rs start_terminal_host).   *)
(* Viewers share a shell; the last one to leave arms a timer that ends it. *)
(*                                                                         *)
(* The shells and the routes' map onto them have a lock each, so that      *)
(* opening, detaching and stopping are several steps: the control loop,    *)
(* the user's disconnect, the pumps and the timers interleave with them.   *)
(* The control loop itself finishes one message before the next.           *)
(* A shell's own thread takes its sizes in their order from a queue they   *)
(* share with the keystrokes, so that any of them may find it full.        *)
(* A screen's columns and rows are one number here; keystrokes, output and *)
(* this machine's own windows (the loopback route) are left out.           *)
(***************************************************************************)
EXTENDS Integers, FiniteSets, FiniteSetsExt

CONSTANTS Viewers,      \* the terminal routes sourced here
          MaxShells,    \* bound: session ids, 1 .. MaxShells
          Cap,          \* MAX_LOCAL_SESSIONS
          Sizes,        \* what a viewer's window can show
          Placeholder,  \* TERM_INIT_COLS x TERM_INIT_ROWS
          MaxTimers,    \* bound: timers asleep when a shell is opened or attached to
          MaxLeaving    \* bound: detaches and stops under way together

ASSUME TerminalAssumption ==
    /\ MaxShells \in Nat \ {0} /\ Cap \in Nat \ {0} /\ MaxTimers \in Nat
    /\ MaxLeaving \in Nat
    /\ Sizes \subseteq Nat \ {0} /\ Placeholder \in Nat \ {0}

VARIABLES shells,   \* TerminalHost::sessions
          mapped,   \* TerminalHost::route_to_session, 0 without an entry
          minted,   \* TerminalHost::next_session: ids handed out
          timers,   \* idle reapers that sleep, per session id
          routes,   \* the routes the session table has as active
          claims,   \* Mesh::term_pumps
          pumps,    \* pumps that run, with the shell each listens to
          opening,  \* opens between two of their locks
          leaving   \* detaches and stops between two of their locks

termVars == <<shells, mapped, minted, timers, routes, claims, pumps, opening, leaving>>

ShellIds == 1 .. MaxShells
AnySize  == Sizes \cup {Placeholder}

\* A session: the attached routes and their sizes (0: not attached); last_size, which the
\* viewers are told.
\* owed: that size was not sent to the child, whose control queue was full.
\* over: its child has ended although the session is still listed.
Shell   == [wants : [Viewers -> AnySize \cup {0}], size : AnySize, owed : BOOLEAN, over : BOOLEAN]
NoShell == [wants |-> [v \in Viewers |-> 0], size |-> 0, owed |-> FALSE, over |-> TRUE]

\* over: the shell it listens to has ended, which it will be told.
Pump    == [route : Viewers, to : ShellIds, over : BOOLEAN]
Opening == [route : Viewers, shell : ShellIds, next : {"insert", "map"}]
Leaving == [route : Viewers, shell : ShellIds, next : {"drop", "kill", "forget"},
            loop : BOOLEAN]   \* in the control loop?

Listed == {s \in ShellIds : shells[s] # NoShell}
Attached(sh) == {v \in Viewers : sh.wants[v] # 0}

TermTypeOK ==
    /\ shells \in [ShellIds -> Shell \cup {NoShell}]
    /\ mapped \in [Viewers -> ShellIds \cup {0}]
    /\ minted \in 0 .. MaxShells
    /\ timers \in [ShellIds -> Nat]
    /\ routes \subseteq Viewers /\ claims \subseteq Viewers
    /\ pumps \subseteq Pump /\ opening \subseteq Opening /\ leaving \subseteq Leaving
    /\ Cardinality(opening) <= 1

TermInit ==
    /\ shells = [s \in ShellIds |-> NoShell] /\ mapped = [v \in Viewers |-> 0]
    /\ minted = 0 /\ timers = [s \in ShellIds |-> 0]
    /\ routes = {} /\ claims = {} /\ pumps = {} /\ opening = {} /\ leaving = {}

-----------------------------------------------------------------------------
(* Sizes. *)

\* reconcile_size: the least any attached viewer can show.
ReconcileSize(wants) ==
    LET shown == {wants[v] : v \in Viewers} \ {0}
    IN IF shown = {} THEN Placeholder ELSE Min(shown)

\* PtySession::reconcile, which makes one of these: the child is sent the size, even one it
\* had before, or its queue is full.  The viewers are told of the size in either case.
Reconcile(sh) ==
    LET told == [sh EXCEPT !.size = ReconcileSize(sh.wants)]
    IN {[told EXCEPT !.owed = FALSE], [told EXCEPT !.owed = @ \/ told.size # sh.size]}

\* Shell s becomes one of these.
Becomes(s, outcomes) == \E sh \in outcomes : shells' = [shells EXCEPT ![s] = sh]

Wants(sh, v, size) == [sh EXCEPT !.wants[v] = size]

\* The child of s ends: whoever listens will be told.
Told(s) == {IF p.to = s THEN [p EXCEPT !.over = TRUE] ELSE p : p \in pumps}

\* The control loop is in the middle of a message.
Loop == opening # {} \/ \E d \in leaving : d.loop

Busy(v) == \E o \in opening : o.route = v

-----------------------------------------------------------------------------
(* start_terminal_host, TerminalHost::open. *)

\* A session that is listed is joined at its size of the moment.
Attach(v, s) ==
    /\ s \in Listed
    /\ Becomes(s, Reconcile(Wants(shells[s], v, ReconcileSize(shells[s].wants))))
    /\ opening' = opening \cup {[route |-> v, shell |-> s, next |-> "map"]}
    /\ claims' = claims \cup {v}
    /\ pumps' = pumps \cup {[route |-> v, to |-> s, over |-> FALSE]}
    /\ UNCHANGED <<mapped, minted, timers, leaving>>

\* One that is not, or none named: a shell is started if there are not too many.
Create(v, s) ==
    /\ Cardinality(Listed) < Cap
    /\ opening' = opening \cup {[route |-> v, shell |-> s, next |-> "insert"]}
    /\ claims' = claims \cup {v}
    /\ UNCHANGED <<shells, mapped, timers, pumps, leaving>>

\* Too many: the route is disconnected.
TooMany(v) ==
    /\ Cardinality(Listed) >= Cap
    /\ UNCHANGED <<shells, mapped, minted, timers, claims, pumps, opening>>

\* The first part of `stop' for a route: which shell it maps to.
Stops(v) ==
    IF mapped[v] = 0 THEN {}
    ELSE {[route |-> v, shell |-> mapped[v], next |-> "kill", loop |-> FALSE]}

\* StartMedia; one that finds the route's claim taken is a duplicate.
StartHost(v, named) ==
    /\ \A s \in ShellIds : timers[s] < MaxTimers
    /\ v \notin claims /\ ~Loop
    /\ \/ routes' = routes \cup {v} /\ Attach(v, named)
       \/ /\ routes' = routes \cup {v} /\ named \in ShellIds \ Listed
          /\ Create(v, named) /\ UNCHANGED minted
       \/ /\ routes' = routes \cup {v} /\ named = 0 /\ minted < MaxShells
          /\ Create(v, minted + 1) /\ minted' = minted + 1
       \/ /\ named \notin Listed /\ TooMany(v)
          /\ routes' = routes \ {v} /\ leaving' = leaving \cup Stops(v)

InsertShell(o) ==
    /\ o \in opening /\ o.next = "insert"
    /\ shells' = [shells EXCEPT ![o.shell] =
                    Wants([NoShell EXCEPT !.over = FALSE, !.size = Placeholder], o.route, Placeholder)]
    /\ opening' = (opening \ {o}) \cup {[o EXCEPT !.next = "map"]}
    /\ pumps' = Told(o.shell) \cup {[route |-> o.route, to |-> o.shell, over |-> FALSE]}
    /\ UNCHANGED <<mapped, minted, timers, routes, claims, leaving>>

MapRoute(o) ==
    /\ o \in opening /\ o.next = "map"
    /\ mapped' = [mapped EXCEPT ![o.route] = o.shell]
    /\ opening' = opening \ {o}
    /\ UNCHANGED <<shells, minted, timers, routes, claims, pumps, leaving>>

-----------------------------------------------------------------------------
(* TerminalHost::detach, resize, stop, close; the timer. *)

\* detach takes the route off the map first ...
Unmaps(v, loop) ==
    /\ Cardinality(leaving) < MaxLeaving
    /\ mapped' = [mapped EXCEPT ![v] = 0]
    /\ leaving' = leaving \cup
         (IF mapped[v] = 0 THEN {}
          ELSE {[route |-> v, shell |-> mapped[v], next |-> "drop", loop |-> loop]})

\* The session without the route that leaves.
Without(d) == Wants(shells[d.shell], d.route, 0)

\* mutant: nobody else is on the map, which the other lock guards.
LastOnMap(d) == \A w \in Viewers : mapped[w] # d.shell

LastLeaves(d) == Attached(Without(d)) = {}

\* mutant: those who stay are not given the room of the one who left.
Unfitted(d) == {Without(d)}

Remaining(d) == IF Attached(Without(d)) = {} THEN {Without(d)} ELSE Reconcile(Without(d))

\* ... and the viewer off the shell then; the last one arms the timer.
Drop(d) ==
    /\ d \in leaving /\ d.next = "drop"
    /\ leaving' = leaving \ {d}
    /\ IF d.shell \notin Listed THEN UNCHANGED <<shells, timers>>
       ELSE /\ Becomes(d.shell, Remaining(d))
            /\ timers' = [timers EXCEPT ![d.shell] = IF LastLeaves(d) THEN @ + 1 ELSE @]
    /\ UNCHANGED <<mapped, minted, routes, claims, pumps, opening>>

\* close: the shell is killed ...
Kill(d) ==
    /\ d \in leaving /\ d.next = "kill"
    /\ leaving' = (leaving \ {d}) \cup {[d EXCEPT !.next = "forget"]}
    /\ shells' = [shells EXCEPT ![d.shell] = NoShell]
    /\ pumps' = Told(d.shell)
    /\ UNCHANGED <<mapped, minted, timers, routes, claims, opening>>

\* ... and every route onto it forgotten.
Forget(d) ==
    /\ d \in leaving /\ d.next = "forget"
    /\ leaving' = leaving \ {d}
    /\ mapped' = [v \in Viewers |-> IF mapped[v] = d.shell THEN 0 ELSE mapped[v]]
    /\ UNCHANGED <<shells, minted, timers, routes, claims, pumps, opening>>

\* arm_idle_reaper, an hour later.
ReaperFires(s) ==
    /\ timers[s] > 0 /\ timers' = [timers EXCEPT ![s] = @ - 1]
    /\ IF s \in Listed /\ Attached(shells[s]) = {}
       THEN shells' = [shells EXCEPT ![s] = NoShell] /\ pumps' = Told(s)
       ELSE UNCHANGED <<shells, pumps>>
    /\ UNCHANGED <<mapped, minted, routes, claims, opening, leaving>>

\* Both locks are held.
Resize(v, size) ==
    /\ v \in routes /\ mapped[v] \in Listed
    /\ Becomes(mapped[v], Reconcile(Wants(shells[mapped[v]], v, size)))
    /\ UNCHANGED <<mapped, minted, timers, routes, claims, pumps, opening, leaving>>

-----------------------------------------------------------------------------
(* What ends a route. *)

\* StopMedia: the viewer's Teardown, or a reap of its machine; same loop as StartMedia.
StopMedia(v) ==
    /\ v \in routes /\ ~Loop
    /\ routes' = routes \ {v} /\ claims' = claims \ {v}
    /\ Unmaps(v, TRUE)
    /\ UNCHANGED <<shells, minted, timers, pumps, opening>>

\* Mesh::disconnect, of the host's user.
Disconnect(v) ==
    /\ v \in routes /\ Cardinality(leaving) < MaxLeaving
    /\ routes' = routes \ {v} /\ leaving' = leaving \cup Stops(v)
    /\ UNCHANGED <<shells, mapped, minted, timers, claims, pumps, opening>>

\* The shell's program ends.
ShellExits(s) ==
    /\ s \in Listed /\ ~shells[s].over
    /\ shells' = [shells EXCEPT ![s].over = TRUE]
    /\ pumps' = Told(s)
    /\ UNCHANGED <<mapped, minted, timers, routes, claims, opening, leaving>>

\* pump_term_attach, loopback included: there is output, or the end of the shell.
PumpEnds(p) ==
    /\ p \in pumps /\ ~Busy(p.route)
    /\ pumps' = pumps \ {p} /\ claims' = claims \ {p.route}
    /\ UNCHANGED <<shells, minted, timers, opening>>

\* Nobody is attached on this route any more.
PumpDetached(p) == PumpEnds(p) /\ mapped[p.route] = 0 /\ UNCHANGED <<mapped, routes, leaving>>

\* The shell ended: the route is disconnected.
PumpExits(p) ==
    /\ PumpEnds(p) /\ p.over /\ mapped[p.route] # 0
    /\ Cardinality(leaving) < MaxLeaving
    /\ routes' = routes \ {p.route} /\ UNCHANGED mapped
    /\ leaving' = leaving \cup (IF p.route \in routes THEN Stops(p.route) ELSE {})

\* The viewer cannot be reached for TERM_SEND_PATIENCE.
PumpGivesUp(p) ==
    /\ PumpEnds(p) /\ ~p.over /\ mapped[p.route] # 0
    /\ Unmaps(p.route, FALSE) /\ UNCHANGED routes

-----------------------------------------------------------------------------
TermNext ==
    \/ \E v \in Viewers : \/ \E n \in ShellIds \cup {0} : StartHost(v, n)
                          \/ \E size \in Sizes : Resize(v, size)
                          \/ StopMedia(v) \/ Disconnect(v)
    \/ \E o \in opening : InsertShell(o) \/ MapRoute(o)
    \/ \E d \in leaving : Drop(d) \/ Kill(d) \/ Forget(d)
    \/ \E s \in ShellIds : ReaperFires(s) \/ ShellExits(s)
    \/ \E p \in pumps : PumpDetached(p) \/ PumpExits(p) \/ PumpGivesUp(p)

TermSpec == TermInit /\ [][TermNext]_termVars

-----------------------------------------------------------------------------
\* A shell that nobody is attached to does not live for ever: a timer that will end it is
\* asleep, however many viewers leave at once, come back, or end the shell while another
\* one opens it (detach and arm_idle_reaper, close, open; two locks).
NoShellForgotten ==
    \A s \in Listed : Attached(shells[s]) = {} => timers[s] > 0

\* The size the viewers of a shell are told fits every window attached and is that of the
\* smallest of them, whoever joins, resizes or leaves at the two locks.  It says nothing of
\* the child, which is owed that size while its queue is full (reconcile, try_send).
ToldSizeFits ==
    \A s \in Listed : Attached(shells[s]) # {} =>
        /\ \A v \in Attached(shells[s]) : shells[s].size <= shells[s].wants[v]
        /\ \E v \in Attached(shells[s]) : shells[s].size = shells[s].wants[v]

=============================================================================
