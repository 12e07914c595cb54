------------------------------ MODULE VideoPipe ------------------------------
(***************************************************************************)
(* The viewer's half of a compressed picture: the encoded units of one     *)
(* route from the daemon's pipe to the window that decodes them            *)
(* (node/src/mesh.rs deliver_video_au, node/src/video_handoff.rs).         *)
(*                                                                         *)
(* A unit is an entry (it decodes alone) or a delta on the unit before it. *)
(* Whatever breaks the chain puts up a fence that only an entry lifts, and *)
(* a worker asks the sender for one until it comes.  The pipe's task, the  *)
(* worker, the spawned requests and the window's commands interleave.      *)
(*                                                                         *)
(* A unit's number is given by its lag, 0 for the newest unit sent: the    *)
(* code compares numbers by their wrapping difference, which is the same.  *)
(* An encoder refreshes in one of two ways: `reset' streams send an entry, *)
(* `gradual' ones deltas that repair the picture over several units.  The  *)
(* daemon, the sender and the native decoder are outside.                  *)
(***************************************************************************)
EXTENDS Integers, SequencesExt

CONSTANTS Room,         \* units the hand-off queue holds (64 MiB in the code)
          KeyedEntries, \* does the wire's key bit mark every entry (H.264: yes)?
          MaxLag,       \* bound: a unit that is later than this is lost
          MaxSnags      \* bound: lost, torn, late and repeated units, route changes and
                        \* window claims and requests, together

ASSUME VideoAssumption ==
    /\ Room \in Nat \ {0}
    /\ KeyedEntries \in BOOLEAN
    /\ MaxLag \in Nat /\ MaxSnags \in Nat

VARIABLES gradual,   \* AuRecovery of the stream, told by every unit
          owed,      \* the sender's next unit is an entry
          echo,      \* a unit that may still arrive, late or again
          pending,   \* the newest unit, while it waits behind a discontinuity event
          mark,      \* video_au_in_sequences: lag of the last unit accepted, or NoMark
          tip,       \* what the window was last given: "fresh" nothing, "mark" the marked
                     \* unit, "other" another one
          started,   \* video_in_stats: did the route show a unit?
          awaiting,  \* video_awaiting_entry: the fence of the route
          asks,      \* [Asker -> state of its request]
          quiet,     \* VideoRefreshGate::last is less than VIDEO_REFRESH_QUIET ago
          inflight,  \* VideoRefreshGate::inflight
          pane,      \* the window's VideoWatcher
          snags

videoVars == <<gradual, owed, echo, pending, mark, tip, started, awaiting, asks, quiet,
               inflight, pane, snags>>

Unit == [lag : 0 .. MaxLag, entry : BOOLEAN]
NoUnit == [lag |-> -1, entry |-> FALSE]
NoMark == -1
None == "none"

Newest(isEntry) == [lag |-> 0, entry |-> isEntry]

\* worker: ensure_clean_video_entry's loop; task: a spawned request_refresh; wave: a
\* spawned request_video_recovery of a gradual stream.
Asker == {"worker", "task", "wave"}

\* A queued unit follows what the window was given before it, or it does not.
Packet == [entry : BOOLEAN, follows : BOOLEAN]

\* `stale' is how many queued units are older than MAX_RESIDENCE.
Pane == [open : BOOLEAN, queue : Seq(Packet), stale : 0 .. Room, fence : BOOLEAN,
         converging : BOOLEAN]

FreshPane(open) == [open |-> open, queue |-> <<>>, stale |-> 0, fence |-> FALSE,
                    converging |-> FALSE]

VideoTypeOK ==
    /\ gradual \in BOOLEAN /\ owed \in BOOLEAN
    /\ echo \in Unit \cup {NoUnit} /\ pending \in {NoUnit, Newest(TRUE), Newest(FALSE)}
    /\ mark \in {NoMark} \cup 0 .. 2 * MaxSnags + MaxLag
    /\ tip \in {"fresh", "mark", "other"}
    /\ {started, awaiting, quiet, inflight} \subseteq BOOLEAN
    /\ asks \in [Asker -> {None, "due", "sent", "resting"}]
    /\ pane \in Pane /\ Len(pane.queue) <= Room /\ pane.stale <= Len(pane.queue)
    /\ snags \in 0 .. MaxSnags

\* An accepted route whose encoder starts, as encoders do, with an entry.
VideoInit ==
    /\ gradual \in BOOLEAN
    /\ owed = TRUE /\ echo = NoUnit /\ pending = NoUnit
    /\ mark = NoMark /\ tip = "fresh" /\ started = FALSE /\ awaiting = FALSE
    /\ asks = [a \in Asker |-> None]
    /\ quiet = FALSE /\ inflight = FALSE
    /\ pane = FreshPane(TRUE)
    /\ snags = 0

Snag == snags < MaxSnags /\ snags' = snags + 1

-----------------------------------------------------------------------------
(* Asking for an entry. *)

Spawn(a) == IF asks[a] = None THEN [asks EXCEPT ![a] = "due"] ELSE asks

\* mutant: one request goes out and no worker stands behind it.
AskedOnce(now) == IF now THEN Spawn("task") ELSE asks

\* ensure_clean_video_entry: one worker per route; with `now' it asks at once.
Ensured(now) ==
    IF asks["worker"] # None THEN asks
    ELSE [asks EXCEPT !["worker"] = IF now THEN "due" ELSE "resting"]

\* mark_video_discontinuity.  `was' is the fence before, `soft' the known refresh mode.
Discontinuity(was, soft, request) ==
    IF request /\ soft
    THEN awaiting' = was /\ asks' = Spawn("wave")
    ELSE awaiting' = TRUE /\ asks' = IF was THEN asks ELSE Ensured(request)

Soft == gradual /\ mark # NoMark

-----------------------------------------------------------------------------
(* VideoHandoff. *)

KeyBit(p) == KeyedEntries /\ p.entry

\* What is left of the queue from its i-th unit on.
From(i) ==
    LET rest == SubSeq(pane.queue, i, Len(pane.queue))
    IN IF i = 1 THEN rest ELSE [rest EXCEPT ![1].follows = FALSE]

\* From the newest entry in the queue on, if that suffix is fresh and leaves room for one
\* more unit; else nothing.
FreshSuffix ==
    LET keys == {i \in DOMAIN pane.queue : KeyBit(pane.queue[i])}
        k == Max(keys)
    IN IF keys # {} /\ k > pane.stale /\ Len(pane.queue) - k + 2 <= Room
       THEN From(k) ELSE <<>>

\* mutant: the oldest unit makes way, whatever the rest builds on.
YieldedOldest(p) ==
    IF pane.fence \/ Len(pane.queue) < 2 THEN <<p>> ELSE Append(From(2), p)

\* push_h264 once the queue has to give way: what it holds next, <<>> to put up the fence.
Yielded(p) ==
    IF ~KeyBit(p) /\ ~pane.fence /\ FreshSuffix # <<>> THEN Append(FreshSuffix, p)
    ELSE IF KeyBit(p) \/ gradual THEN <<[p EXCEPT !.follows = @ /\ pane.queue = <<>>]>>
    ELSE <<>>

Gives == pane.fence \/ pane.stale > 0 \/ Len(pane.queue) = Room

\* Nothing is queued without a window, nor a delta of a reset stream behind the fence.
Bars(p) == ~pane.open \/ (pane.fence /\ ~gradual /\ ~KeyBit(p))

Pushed(p) ==
    IF Bars(p) THEN pane
    ELSE IF ~Gives THEN [pane EXCEPT !.queue = Append(@, p)]
    ELSE LET kept == Yielded(p)
         IN [pane EXCEPT !.queue = kept, !.stale = 0, !.fence = kept = <<>>,
                         !.converging = IF Len(kept) = 1 THEN ~KeyBit(p) ELSE @]

\* Did the push break the chain, so that the route must recover?
Breaks(to) == (to.fence /\ ~pane.fence) \/ (to.converging /\ ~pane.converging)

-----------------------------------------------------------------------------
(* deliver_video_au: `high' is the mark, counted from the unit sent last. *)

\* mutant: a gap is taken for the next unit.
ObserveLoosely(u, high) == IF high = u.lag THEN "drop" ELSE "accept"

\* observe_au_sequence
Observe(u, high) ==
    LET ahead == high - u.lag
    IN CASE high = NoMark -> "accept"
         [] high # NoMark /\ ahead = 0 -> "drop"
         [] high # NoMark /\ ahead # 0 /\ (ahead = 1 \/ u.entry) -> "accept"
         [] OTHER -> IF ahead > 1 THEN "gap" ELSE "drop"

\* should_hold_video_sample
Holds(u) == (awaiting \/ ~started) /\ ~u.entry

\* A unit nobody holds back reaches the window, or is dropped there.
Hand(u, high) ==
    LET p == [entry |-> u.entry,
              follows |-> tip = "fresh" \/ (tip = "mark" /\ high - u.lag = 1)]
        to == Pushed(p)
    IN /\ pane' = to
       /\ tip' = IF Bars(p) \/ to.queue = <<>> THEN "other" ELSE "mark"
       /\ started' = TRUE
       /\ quiet' = (quiet /\ ~awaiting)   \* VideoRefreshGate::recovered
       /\ IF Breaks(to) THEN Discontinuity(FALSE, gradual, TRUE)
          ELSE awaiting' = FALSE /\ UNCHANGED asks

\* A unit that is marked and not handed on.
Withheld ==
    /\ tip' = IF tip = "mark" THEN "other" ELSE tip
    /\ UNCHANGED <<started, quiet, pane>>

DeliverUnit(u, high) ==
    LET seen == Observe(u, high)
    IN /\ mark' = IF seen = "drop" THEN high ELSE u.lag
       /\ \/ /\ seen = "gap"
             /\ Discontinuity(awaiting, gradual, TRUE)
             /\ Withheld
          \/ /\ seen = "drop"
             /\ asks' = IF u.entry /\ awaiting THEN Spawn("task") ELSE asks
             /\ UNCHANGED <<tip, started, awaiting, quiet, pane>>
          \/ /\ seen = "accept" /\ Holds(u)
             /\ awaiting' = TRUE
             /\ asks' = IF awaiting THEN asks ELSE Ensured(TRUE)
             /\ Withheld
          \/ seen = "accept" /\ ~Holds(u) /\ Hand(u, high)
       /\ UNCHANGED <<gradual, inflight>>

-----------------------------------------------------------------------------
(* The stream. *)

Older(lag, units) == IF lag = NoMark THEN lag ELSE lag + units

Echo(units) ==
    IF echo = NoUnit \/ echo.lag + units > MaxLag THEN NoUnit
    ELSE [echo EXCEPT !.lag = @ + units]

Untouched == UNCHANGED <<gradual, tip, started, quiet, inflight, pane>>

\* The sender's next unit, an entry if one is owed.
Sends == pending = NoUnit /\ owed' = FALSE

Arrive ==
    /\ Sends
    /\ DeliverUnit(Newest(owed), Older(mark, 1))
    /\ echo' = Echo(1)
    /\ UNCHANGED <<pending, snags>>

\* The unit is lost, delayed, or arrives and will do so again.
Stray ==
    /\ Sends /\ Snag
    /\ \/ /\ echo' = Echo(1) \/ echo' = Newest(owed)
          /\ mark' = Older(mark, 1)
          /\ Untouched /\ UNCHANGED <<awaiting, asks>>
       \/ /\ echo' = Newest(owed)
          /\ DeliverUnit(Newest(owed), Older(mark, 1))
    /\ UNCHANGED pending

ArriveLate ==
    /\ echo # NoUnit /\ pending = NoUnit
    /\ DeliverUnit(echo, mark)
    /\ echo' = NoUnit
    /\ UNCHANGED <<owed, pending, snags>>

\* accept_paced_fragment: fragments are missing and the unit is dropped whole.
Torn ==
    /\ Sends /\ Snag
    /\ Discontinuity(awaiting, Soft, TRUE)
    /\ mark' = Older(mark, 1) /\ echo' = Echo(1)
    /\ Untouched /\ UNCHANGED pending

\* The daemon's queue dropped a unit and says so before the one that follows
\* (handle_video_discontinuity: the node need not ask if that one is an entry).
Shed ==
    /\ Sends /\ Snag
    /\ Discontinuity(awaiting, Soft, ~owed)
    /\ pending' = Newest(owed)
    /\ mark' = Older(mark, 2) /\ echo' = Echo(2)
    /\ Untouched

Follow ==
    /\ pending # NoUnit
    /\ DeliverUnit(pending, mark)
    /\ pending' = NoUnit
    /\ UNCHANGED <<owed, echo, snags>>

\* release_video_lanes, and the same route offered and accepted again: the state of the
\* route goes, the window's queue and the worker stay.
Rebound ==
    /\ Snag
    /\ owed' = TRUE /\ echo' = NoUnit /\ pending' = NoUnit
    /\ mark' = NoMark /\ started' = FALSE /\ awaiting' = FALSE
    /\ tip' = IF tip = "mark" THEN "other" ELSE tip
    /\ quiet' = FALSE /\ inflight' = FALSE
    /\ UNCHANGED <<gradual, asks, pane>>

-----------------------------------------------------------------------------
(* The requests. *)

\* VideoRefreshGate::begin, or the request counts as made by another.
Begin(a) ==
    IF inflight \/ quiet
    THEN /\ asks' = [asks EXCEPT ![a] = IF a = "worker" THEN "resting" ELSE None]
         /\ UNCHANGED <<quiet, inflight>>
    ELSE /\ asks' = [asks EXCEPT ![a] = "sent"]
         /\ quiet' = TRUE /\ inflight' = TRUE

\* The worker ends once no entry is awaited; it looks and leaves under one lock.
Ask(a) ==
    /\ asks[a] = "due"
    /\ IF a = "worker" /\ ~awaiting
       THEN asks' = [asks EXCEPT ![a] = None] /\ UNCHANGED <<quiet, inflight>>
       ELSE Begin(a)
    /\ UNCHANGED <<gradual, owed, echo, pending, mark, tip, started, awaiting, pane, snags>>

\* The request reached the sender (Refresh makes it owe an entry) or ran out of time;
\* VideoRefreshFlight is dropped either way.
Answered(a, delivered) ==
    /\ asks[a] = "sent"
    /\ inflight' = FALSE
    /\ asks' = [asks EXCEPT ![a] = IF a = "worker" THEN "resting" ELSE None]
    /\ owed' = (owed \/ (delivered /\ a # "wave"))
    /\ UNCHANGED <<gradual, echo, pending, mark, tip, started, awaiting, quiet, pane, snags>>

\* VIDEO_CLEAN_ENTRY_RETRY is over.
Rested ==
    /\ asks["worker"] = "resting"
    /\ asks' = [asks EXCEPT !["worker"] = "due"]
    /\ UNCHANGED <<gradual, owed, echo, pending, mark, tip, started, awaiting, quiet, inflight,
                   pane, snags>>

QuietEnds ==
    /\ quiet /\ quiet' = FALSE
    /\ UNCHANGED <<gradual, owed, echo, pending, mark, tip, started, awaiting, asks, inflight,
                   pane, snags>>

-----------------------------------------------------------------------------
(* The window. *)

PaneOnly == UNCHANGED <<gradual, owed, echo, pending, mark, started, awaiting, quiet, inflight>>

\* video_watch: a new claim starts with an empty queue.
Watch ==
    /\ Snag /\ pane' = FreshPane(TRUE) /\ tip' = "fresh"
    /\ PaneOnly /\ UNCHANGED asks

\* video_unwatch by the claim's owner (any other one is ignored).
Unwatch ==
    /\ pane.open /\ pane' = FreshPane(FALSE)
    /\ PaneOnly /\ UNCHANGED <<tip, asks, snags>>

\* video_poll: take_batch empties the queue and leaves the fence.
Poll ==
    /\ pane.queue # <<>>
    /\ pane' = [pane EXCEPT !.queue = <<>>, !.stale = 0, !.converging = FALSE]
    /\ PaneOnly /\ UNCHANGED <<tip, asks, snags>>

\* The window did not poll for MAX_RESIDENCE.
Stall ==
    /\ \E k \in pane.stale + 1 .. Len(pane.queue) : pane' = [pane EXCEPT !.stale = k]
    /\ PaneOnly /\ UNCHANGED <<tip, asks, snags>>

\* A window whose decoder was rebuilt asks for an entry itself.
WindowAsks ==
    /\ pane.open /\ Snag
    /\ asks' = Spawn("task")
    /\ PaneOnly /\ UNCHANGED <<tip, pane>>

-----------------------------------------------------------------------------
VideoNext ==
    \/ Arrive \/ Stray \/ ArriveLate \/ Torn \/ Shed \/ Follow
    \/ Rebound
    \/ \E a \in Asker : Ask(a) \/ \E delivered \in BOOLEAN : Answered(a, delivered)
    \/ Rested
    \/ QuietEnds
    \/ Watch \/ Unwatch \/ Poll \/ Stall \/ WindowAsks

(***************************************************************************)
(* Fairness.  The sender streams on, the worker's clock ticks, and its     *)
(* requests do not fail for ever.  Windows need not poll.                  *)
(***************************************************************************)
VideoFairness ==
    /\ WF_videoVars(Arrive)
    /\ WF_videoVars(Follow)
    /\ \A a \in Asker : /\ WF_videoVars(Ask(a))
                        /\ WF_videoVars(Answered(a, TRUE) \/ Answered(a, FALSE))
    /\ SF_videoVars(Answered("worker", TRUE))
    /\ WF_videoVars(Rested)
    /\ WF_videoVars(QuietEnds)

VideoSpec == VideoInit /\ [][VideoNext]_videoVars /\ VideoFairness

-----------------------------------------------------------------------------
\* A window never decodes a delta on the wrong picture: each unit that waits for it is an
\* entry or follows the unit it was given before, however units are lost, late or
\* repeated, the queue overflows, or the route is offered anew (deliver_video_au,
\* push_h264).  Gradual streams are exempt: their deltas go on past a gap by design.
PictureIsWhole ==
    gradual \/ \A i \in DOMAIN pane.queue : pane.queue[i].entry \/ pane.queue[i].follows

Fenced == awaiting \/ pane.fence

\* A picture does not stay frozen: once the route or its queue wait for an entry, one
\* comes, though requests are coalesced, fail, or bring an entry that is lost again
\* (ensure_clean_video_entry against the gate of request_refresh).
PictureReturns == (pane.open /\ Fenced) ~> (~pane.open \/ ~Fenced)

=============================================================================
