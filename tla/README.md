# AllMyStuff in TLA+

TLA+ specifications of the parts of AllMyStuff whose correctness depends on order:
who may capture a screen or a microphone, when that ends, and who said so; how a picture
survives lost units; who owns a machine; what a fleet's replicas of files, canvas and
storage plan agree on; what a transfer, a shell, an update and a viewer's keys leave behind;
what a support dial promises to both its ends. TLC checks the specifications on small
instances; TLAPS proves their safety properties for every value of the constants.

    tlc -config session.cfg MCSession        # likewise for the other runs below
    tlapm RouteLinkProofs.tla

Line numbers are those of the commit this directory sits beside; `PROJECT.json` maps each
definition to the lines it models.

## 1. The system

A node is one machine. Its process (`node/`) talks to a mesh daemon over a local socket;
the daemon carries control messages and media lanes to other nodes. Windows (`gui/`) and
the command line are clients of the node.

| component | state | operations | interacts by |
|---|---|---|---|
| route table `crates/allmystuff-session` | records by route id, insertion order, peers | offer, expire, teardown, prune, reap a peer, one handler per control message | returns effects (`Send`, `StartMedia`, `StopMedia`, ...) |
| route engine `node/src/mesh.rs` | table, capture pumps, lanes, boot ids, switch guards | `connect`, `disconnect`, `handle_channel`, `process_effects`, timers | control messages, media frames, effects |
| support consent `node/src/cec.rs`, `crates/allmystuff-cec-consent` | grants in memory and file, pending requests, armed window, sessions | approve, deny, arm, revoke, Request/Approve/Deny/End, sweep | commands, control messages, the engine's gates |
| support dial, in `node/src/mesh.rs` | the dial's task and the one before it, the technician's sessions, the customer's requests | dial, link, cancel, Request, Approve, Deny, End, KVM ready | requests and answers over the daemon |
| ownership `ownership.rs` | owner, fleet key, claim mode, members, pending claims | claim, confirm, hand over the key, release, leave, kick | control messages, the daemon's signed roster |
| fleet files `fleetfiles.rs` | current versions, ledger, outbound queues, bodies, begun transfers | capture, queue, send, commit, acknowledge, reconcile, materialize | working files, a database, control messages |
| canvas `canvas.rs`, storage plan `storage_plan.rs` | records with stamps, tombstones, epoch; policy, allocations, intents | local edit, merge, barrier, purge, digest | control messages, presence |
| operations log `operations.rs`, file transfers | records with a phase and an attempt; the staging folder | begin, advance, cancel, commit, roll back, restart | commands, requests to the other device |
| terminals `terminal.rs` | shells, viewers by route, idle timers | attach, detach, resize, close, reap | the engine's effects, timers |
| updater `crates/allmystuff-updater` | the installed binaries, their hash-bound versions, the manifest of a staged release, the running images | check, stage, apply, launch | a release feed, files that several processes share |
| input injection `input_inject.rs`, `wayland_input.rs` | a lease per control route, events and releases queued to a worker, held keys, captured desktops | begin, apply, release, register and drop a capture | threads: callers, the worker, captures |
| picture hand-off `video_handoff.rs` and its feeder | sequence mark, fences, requests for an entry, the window's queue | deliver, gap, fence, ask, push, poll | the daemon's units, windows |

Three kinds of concurrency run through all of it. A node handles inbound events **one at a
time** (`while let Some(value) = rx.recv().await`, mesh.rs 3459); commands of windows and
timers are **tasks of their own** and run whenever an event's handler awaits; and every
node sees the others only through **messages** that the daemon may lose, repeat, or deliver
over several networks out of order.

### What is hard, and what makes each part right

* **Route table.** A route's id is computed from its endpoints, so all offers of a route
  share one record: an old message speaks about the new offer. Right means: media exactly
  for live routes; pruning never touches a live one; a peer's end ends its routes however
  its id is spelled.
* **Route engine.** The record changes under a lock and the capture starts or stops after
  awaits. Right means: no capture without a live route, no live route without its
  capture, no capture that stays when the viewer, its consent, or its machine is gone.
* **Consent.** Two tiers of grants and a file whose write may fail; an automatic approval
  in three locks against a sweep in three locks; retransmitted requests. Right means:
  rights grow by decisions only, what is granted for good is on disk, and every active
  session can be found and ended.
* **Support dial.** A Request is sent again until its one answer comes; cancellation, a newer
  dial and a timeout race with that answer. Right means: a dial that the customer has decided
  is not put to him again, a KVM is announced only to a technician whose wait is over, and a dial
  that waits has its task.
* **Ownership.** One owner although claims race; confirmations and keys are lost, late or
  repeated. Right means: a claim admits once, a key held is one's own or the owner's, a
  founder is not adopted.
* **Canvas and storage plan.** Replicas under last-writer-wins with tombstones, purges,
  caps and ranks. Right means: a stamp names one record, nothing from before a purge comes
  back, an explicit choice stands, and all copies agree once edits stop.
* **Fleet files.** Hashing, replacing a file and recording its version are separate steps,
  on threads that take the same lock again and again; a crash may fall in between, replies
  are missed. Right means: the row is the newest version known, what an entry of the queue is
  held for stays held, what is out of date stays so.
* **Operations.** The task, a cancel in two steps and the node's restart meet on one
  record, whose writes may fail. Right means: the record tells what is at the destination.
* **Terminals.** Two maps under two locks, an idle timer against a re-attach. Right means:
  no shell is forgotten, and the size its viewers are told fits all of them.
* **Input.** Callers, the injector's worker and captures run side by side; events wait in queues
  while their route ends, its id is taken up again, or the desktop they are for goes away.
  Right means: nothing the viewer pressed stays pressed when his route is over.
* **Picture hand-off.** Loss, reordering and overflow against a fence that only an entry
  lifts. Right means: no delta on the wrong picture, and no picture frozen for ever.
* **Updates.** A window, a command line and a service bring each other to a release through
  one manifest, with downloads that overtake each other and crashes between a binary and
  its marker. Right means: no binary that has its marker goes back to an older release.

`PROJECT.json` lists every component with what is modelled of it and, under `hazards`,
each place where one of these difficulties bites.

## 2. Modules

    RouteRules                 rules of one record        (session/src/lib.rs)
      |- Session               one node's table           -> implements RouteLife
      |- RouteLink             two nodes, engine, channel -> implements CaptureLease
           |- RouteLinkProofs
    VideoPipe                  the viewer's encoded units, fences and requests
    Retain                     the members of a queue that are kept
      |- Session, CecConsent
    CecConsent                 the customer's side of remote support
      |- CecConsentProofs
    Ownership                  claims, fleet keys, partings
    Stamps                     Lamport stamps
      |- Canvas                the Files canvas
      |- StoragePlan           policy, allocations, device intents
      |- FleetFiles            versions, ledgers, bodies, working files
    Transfer                   a file transfer and its record in the operations log
    Terminal                   the shells a machine hosts
    Updater                    the halves of an installation and their releases
      |- HostProofs            of Transfer, Terminal and Updater
    SupportDial                a technician's dials and the customer's answers
    RemoteInput                a viewer's keys: leases, queues, trackers, desktops

    MCSession  = Session | Transfer | Terminal | Updater  what one machine keeps for itself
      |- SessionProofs         of Session and of the four together (with HostProofs)
    MCLink     = RouteLink | VideoPipe | SupportDial      what two machines do together
      |- LinkProofs            of VideoPipe, SupportDial and of the three (with RouteLinkProofs)
    MCFleet    = Ownership | Canvas | StoragePlan | FleetFiles
      |- FleetProofs           of each of the four and of the four together
    MCSupport  = CecConsent | RemoteInput                 a technician at work
      |- RemoteInputProofs     of RemoteInput and of the two (with CecConsentProofs)
    MCCecConsent                                          CecConsent alone
    FiniteFacts                finite sets and queues, for all the proofs but RouteLink's

The MC modules with a `|` put components side by side that share no state a step of the
other could see. Their variable `subject` says which one a behaviour is about; the others
keep their first states. The state space is the sum of the parts and not their product,
every property of a part is checked on the part's own behaviours, and each part's own
specification (`TransferSpec`, `CanvasFairSpec`, ...) can be run alone.

**RouteRules** has no state. It states what each control message and local call does to one
`LiveRoute` and which effects it returns. `tag` is the only field the code does not have:
it marks which offer a record came from.

**Session** is `Session` of the session crate: `table` is `routes`, `order` is
`route_order`, `term` is `term_session`. `running` is what the engine's media would be if it
did each effect at once. One action per operation: `Offer`, `SetTermSession`, `ExpireOffer`,
`Teardown`, `Prune`, `ReapPeer`, `HandleOffer/Accept/Reject/Teardown`. `OnRefresh` changes no
record and is left to the rules. `AutoAccept` and `ReofferLive` are the two settings the
media promise depends on: the backend always accepts automatically, and a window does
not wire a route that its catalog shows (`store.svelte.ts`).

**RouteLife** is what the table promises: media starts when a route goes live, runs while it
is, stops in the step that ends it. **CaptureLease** is what the user of a machine is
promised about a screen or microphone: captured only under a lease that was already held,
and released together with it.

**RouteLink** puts two nodes around one capture route. `Source` owns the screen or
microphone, `Sink` shows it. The correspondence:

| model | code |
|---|---|
| `route[n]` | the record in node n's `Session` |
| `capture` | the source's pump (`audio.rs`, `video.rs` start_capture/stop) |
| `todo[n]` | the effects the event's handler has still to do, after an await (`process_effects`) |
| `unsent[n]` | control messages of commands, before their send reaches the daemon |
| `net[n]` | control messages on their way to n |
| `boot`, `seen` | `boot_id`, `peer_boots` |
| `held[n]` | `VideoSwitchGuards::pending`, a quarantined picture close |
| `Connect`, `Disconnect`, `Send`, `SendFails` | `connect_term_scoped`, `disconnect`, the sends |
| `ExpireOffer`, `ConsentSweep`, `CommitQuarantined` | the three timer tasks |
| `Receive` | one message in `handle_channel`, up to the first await |
| `Continue` | `process_effects` after an await |
| `Nack` | `nack_dead_route`, `nack_dead_lane`, `handle_dead_lane` |
| `Reboot`, `Reconnect`, `NetworkReset` | process restart; event stream re-subscribed; `prune_unjoined_peers` |

An action is the code between two awaits. Abstractions:

* Between the re-check of a route and `start_media` there is no await; a preemption of the
  thread there by another thread is not modelled. At this grain `StopMedia`'s branch
  for a successor that is live already is unreachable and is left out.
* Times are choices. `early` stands for VIDEO_SWITCH_TEARDOWN_GUARD, `mature` for the age
  a liveness report must have; a commit of the quarantine or an expiry may come at any time.
* `disconnect` waits out the local guard of a fresh picture before it acts: a later
  `Disconnect`.
* NACKs and reports are rate-limited by having at most one on its way.
* The consent gate and sweep are one boolean here; CecConsent has the grants. The sweep of
  this module looks at pictures, as the code's does at screens.
* Presence is sent at bring-up, network reset and as an answer; adverts that repeat a boot
  id on file change nothing here.

**CecConsent** is the customer's side. An action is what happens under one lock of `Cec`;
`handler` and `sweep` say which lock of the event loop's handler and of the consent sweep
comes next, and window commands run in between.

| model | code |
|---|---|
| `persistent`, `ephemeral`, `disk` | the two tiers of `ConsentStore` and its file |
| `pending`, `armed`, `session`, `bound` | `CecInner::pending`, `support_approval_until`, `sessions`, `session_tech` |
| `Approve`, `Deny`, `Arm`, `Revoke` | `cec_approve`, `cec_deny`, `device_support_local`, `cec_revoke` |
| `OnRequest`, `Ask`, `Supersede`, `Activate`, `Bind` | `handle_cec_control`, Request |
| `OnEnd`, `Retire` | `handle_cec_control`, End |
| `SweepFinds`, `SweepEnds`, `SweepRetires` | `spawn_cec_consent_sweep` |

Abstractions: which routes a technician has is not tracked, so the sweep may find any
known technician who lacks a right (the code needs a live screen or drive route: fewer
behaviours). A request always asks for control, as dials do, and the customer may narrow
it. The armed window closes at any time. `purge_expired` has no caller. A write of the
file is all or nothing (temporary file and rename, `persist.rs`).

**VideoPipe** is the viewer's half of a compressed picture. The lag of a unit stands for its
number; lags grow by one with each unit sent.

| model | code |
|---|---|
| `mark` | `video_au_in_sequences` (`observe_au_sequence`) |
| `awaiting`, `started` | `video_awaiting_entry`, the route's entry in `video_in_stats` |
| `pane` | the window's `VideoWatcher` with its `VideoHandoff` |
| `asks["worker"]`, `["task"]`, `["wave"]` | `ensure_clean_video_entry`'s loop, a spawned `request_refresh`, a spawned `request_video_recovery` |
| `quiet`, `inflight` | `VideoRefreshGate` |
| `Arrive`, `Stray`, `ArriveLate`, `Follow` | `deliver_video_au` of the next, a lost, a late, a held-back unit |
| `Torn`, `Shed`, `Rebound` | `accept_paced_fragment` with a hole, `handle_video_discontinuity`, `release_video_lanes` and the route offered anew |
| `Watch`, `Unwatch`, `Poll`, `Stall`, `WindowAsks` | `video_watch`, `video_unwatch`, `video_poll`, a window that is slow, `video_refresh` |

The queue's limit is counted in units, not bytes. The native decoder and the pass-through
of other codecs are outside; `KeyedEntries` says that the wire's key bit marks every entry,
which holds for H.264.

**Ownership** numbers the machines and the fleet keys. An ownership message is handled in one
step, since nothing is awaited between its look at the record and its change.

| model | code |
|---|---|
| `owner`, `claimMode`, `fleetKey`, `minted`, `members` | `Persisted` and `Inner` of `ownership.rs` |
| `pending` | `Mesh::pending_claims` |
| `signed`, `evicted`, `founders` | the daemon's signed roster of the fleet's closed network (external) |
| `SetClaimable`, `SendClaim`, `Leave`, `Kick` | `set_claimable`, `claim`, `fleet_leave`, `fleet_kick` |
| `OnClaim`, `OnClaimed`, `OnFleetKey`, `OnRelease`, `OnDeparted` | the ownership messages in `handle_channel` |
| `Appear`, `SelfEvicted`, `Reload` | a presence frame, the daemon's verdict, `load` after a restart |

A presence frame hands the key over again only when it is `fresh`, of a boot or to a session
that have not met (`new_boot || !known`, mesh.rs 4721). When that is so is left open: any frame
may be fresh and none need be, and no property says that a lost hand-off is repeated.

**Canvas**, **StoragePlan** and **FleetFiles** share **Stamps**, the pair of counter and actor
that all three order their records by.

| model | code |
|---|---|
| `ApplyLocal`, `PurgeTombstones` | `apply_local_batch`, `purge_tombstones` with their broadcasts |
| `ReceivePatch`, `ReceiveBarrier`, `ReceiveDigest` | `merge_at_epoch`, `apply_barrier`, `reconcile_canvas_digest` and their callers |
| `PresenceOfNewBoot`, `PresenceOfKnown` | the full document, the digest that presence causes |
| `SetPolicy`, `SetAllocation`, `EnsureDefaultAllocation`, `SetDeviceIntent` | the commands on the plan |
| `Merge`, `ReconcileDigest`, `AnswerRequest` | `merge` with its authorisation, `reconcile_storage_digest`, `SyncRequest` |
| `tasks` | captures between their locks, and a deletion between its two |
| `Hash`, `Mint` | `capture` up to the lock, and under it |
| `Place`, `Ensure`, `Insert`, `Announce` | the rest of `replicate_fleetfiles_change`: `persist_mutation_content` and the targets; for each the two locks of `queue_for`; `queue_metadata` |
| `SendMetadata`, `BeginFile`, `CommitFile`, `RemoveFile`, `RecordDelete` | the drain of the queues and the receiver's `begin_file`, `commit_file`, `apply_delete` |
| `PullLedger`, `PushLedger` | `reconcile_fleetfiles_ledger` |
| `Materialize`, `RestartFiles` | `fleetfiles_materialize`, a restart with `start_watcher` |

A record's content is its stamp; a canvas record also carries the epoch it was born in, and
a file's body is its hash. Directories, which go the way of deletions, and the byte sizes
of bodies are left out; every device has one allocation. A request and its reply are one
step whose reply may be missed. Captures, up to `Gate` at a time, run beside the event loop and
beside each other, and every step of another thread may come between two of their locks. The
event loop itself handles one message after the other, so that it takes none while it is
between the two locks of a deletion (`Listens`). `overtaken` is history: the devices on which a
deletion was recorded over a newer version (finding 7). `commit_file` places the body and
records the version in one step; a restart may fall between the file and the record.

**Transfer** is `file_transfer_start` with its record in the log.

| model | code |
|---|---|
| `op`, `attempt` | `OperationRecord::phase`, the open attempt |
| `job`, `cancel` | `file_transfer_jobs` and the flag in it |
| `step`, `at`, `outcome` | where the task stands, the item, what it will report |
| `area`, `staged`, `placed`, `taken` | the destination: staging folder, items in it, items renamed, others' entries |
| `AskCancel`, `MarkCancelling` | the two steps of `file_transfer_cancel` |
| `RestartNode` | `Operations::open` after a restart |

A request to the other device is done, refused, or unanswered with or without its effect. A
write of the log, every phase, the progress, the attempt and the outcome, is done or fails
and leaves the log as it was (SQLite).

**Terminal** is `TerminalHost` with `start_terminal_host`. The shells and the map of routes onto
them have a lock each, so `opening` and `leaving` hold what is between two locks.

| model | code |
|---|---|
| `shells`, `mapped`, `minted` | `sessions`, `route_to_session`, `next_session` |
| `size`, `owed` of a shell | `last_size`, which the viewers are told; was the child not sent it, its queue being full? |
| `timers` | the tasks of `arm_idle_reaper` that sleep |
| `claims`, `pumps` | `Mesh::term_pumps`, the tasks of `pump_term_attach` |
| `StartHost`, `InsertShell`, `MapRoute` | `start_terminal_host`, `open` |
| `Unmaps`, `Drop` / `Stops`, `Kill`, `Forget` | `detach` / `stop` and `close` |
| `PumpDetached`, `PumpExits`, `PumpGivesUp` | the ends of a pump |

**SupportDial** is one technician and one customer, with dials numbered in the order they are
made.

| model | code |
|---|---|
| `task` | where `cec_dial_node` stands, and the task it spawned |
| `state`, `stopped` | the technician's session of a dial, the flag in `dial_cancel` |
| `verdict`, `waiting` | the customer's session of a dial, the request in its pending list |
| `standing`, `ready` | the technician's standing grant, `kvm_support_ready` |
| `wire` | Request, Approve, Deny and End on their way |
| `Dial`, `Linked`, `CancelDial`, `SendRequest`, `GiveUp` | `cec_dial_node`, `cec_cancel_dial` |
| `ApproveDial`, `DenyDial`, `Lapse`, `SweepDials` | `cec_approve`, `cec_deny`, `cec_revoke`, the consent sweep |
| `TakeRequest`, `TakeApprove`, `TakeDeny`, `TakeEnd` | `handle_cec_control` |

The sender of a message may learn that it was taken, or not, whether it was or not. What the
grants are and how they are kept is CecConsent's. A word more than `OnWire` on the wire is sent
in place of another, so that no send is ever refused by the bound.

**Updater** numbers the releases; a release and the hash of the binary it holds are one number.

| model | code |
|---|---|
| `latest` | what the release feed offers (external) |
| `installed`, `marker` | the binaries, the version files bound to a hash |
| `image`, `errand`, `reach` | the running process of each half, what it does about updates, the binaries it finds |
| `manifest` | `pending.json` |
| `torn` | history: the binaries replaced without a marker of their own |
| `Check`, `StageRelease`, `StagingFails` | `check_now`, `update_now`, `stage_release` |
| `ApplyNow`, `Apply`, `ApplyFails`, `Launch` | `apply_now`, `apply_pending`, a start |
| `EndsBeforeMarker`, `EndsBeforeManifest`, `EndsInManifest`, `Reinstall` | a process ends between two writes, or in one; someone else installs |

**RemoteInput** has one viewer's control routes, under ids that are used again.

| model | code |
|---|---|
| `admitted`, `stopping` | the routes `inbound_media_ok` passes, the `StopMedia` effects not carried out yet |
| `lease`, `minted`, `posting` | `Injector::leases`, `next_generation`; a release between the two locks |
| `events`, `releases`, `worker` | the two channels, where the worker's loop is |
| `held`, `down` | `KeyTracker::pressed` of each generation; what the system has as pressed |
| `waiting`, `flushing`, `current`, `failed`, `desktop` | `pending`, the round over it, `current`, `failed`, `RouteState::binding` |
| `capture` | a captured desktop: registered, dead, unregistered, over |
| `BeginControl`, `EndControl`, `DisconnectControl`, `RejectControl`, `StopControl` | `begin_route`, a Teardown, `disconnect`, `reject_input_backend`, `release_route` |
| `PostRelease`, `Frame`, `FrameDropped` | `send` |
| `DrainNative`, `TakeNative`, `TakeNothing` | `run_injector` |
| `DrainWayland`, `TakeWayland`, `FlushDrops`, `FlushReplaces`, `FlushApplies`, `FlushWaits`, `FlushFails` | `run_wayland_injector`, `wayland_input::Injector::apply` |
| `OpenCapture`, `SessionDies`, `Unregister`, `LiftCapture` | `register`, the compositor, `Registration::drop` |

A key is a physical code and one of two faces, the keycap's and the typist's; `SteadyFaces` says
that they are the same. Mouse buttons are keys, motion only chooses the screen. A round over
the waiting events may go from one incarnation to the next and back, which the worker does
not; their steps are about different routes.

Each half has one process. A download holds what it wants from its check to its staging;
`apply_pending` runs under a lock and is one step unless its process ends in it.

## 3. Runs

| run | question | result | bounds |
|---|---|---|---|
| `session` | Does a machine keep its own promises: media exactly for live routes, a true record of a transfer, no forgotten shell, no binary that goes back? | holds, 1,067,530 states | routes: 3 routes, a peer under 2 spellings of its id, history of 1 (22,765 states); transfer: 2 items, 3 troubles (9,727); shells: 2 viewers, 1 shell id, 2 timers, 2 leaving, 1 size and the placeholder (931,930); updates: 2 halves, 3 releases, 1 wreck |
| `link_safety` | Is the screen captured exactly under a live route? Does a dial mean what both sides see? | holds, 3,173,516 states | 2 offers, 1 mishap, every fault of RouteLink, where a message is lost by never coming; 2 dials, 2 words on the wire, any number of restarts, sweeps and lapses |
| `link_live` | Does an unwanted or unconsented capture end, and a picture come back? | holds, 302,208 states | 1 offer, 2 mishaps among losses, lapses and restarts; queue of 2 units, lag of 2, 2 snags |
| `cec_consent` | Do rights grow by decisions only, can every session be ended, and is every key that is down remembered? | holds, 2,218,751 states | 2 technicians, 3 dials, decisions for once, 1 tick, 1 failed save or restart; 1 control route begun twice and ended from both sides, 1 key, 2 captured desktops that may refuse events, queues of 1 |
| `fleet` | Do a fleet's machines agree on owner and key, and come to agree on canvas, plan and files, without losing a choice on the way? | holds, 251,609 states | 3 machines, 2 keys, 2 claims; 2 devices with 2 edits, 2 purges or plan edits, 1 fault each; 2 writes of a file, counters up to 2, 1 capture at a time |
| `orphan_audio` | The same as `link_safety` for sound | violated | 1 offer, no fault |
| `reap_live` | Does a new boot id end only dead routes? | violated | 1 offer, 1 network reset |
| `cec_resurrect` | Does a decision replace the ones before it for good? | violated | consent as in `cec_consent`, with every scope of a decision |
| `stuck_key` | When the controlled machine itself ends a control route, is anything left pressed? | violated | 1 route, 2 keys |
| `claim_conscript` | Is a machine that has founded a fleet safe from a claim? | violated | 3 machines, 2 keys, 2 claims |
| `stale_copy` | Does content known to be out of date stay so? | violated | 2 devices, 1 path, 2 writes, 1 upset |
| `late_delete` | Does a late older version leave the winner alone? | violated | 2 devices, 1 path, 3 writes, no fault |

**Properties.** Each is commented in its module, and most span several steps of several actors.

* Routes: `PruneTakesOldestCompleted` (pruning takes the oldest completed routes),
  `BoundTermSurvivesOffers` (no repeated offer takes a shell from its route),
  `NoMediaWithReapedMachine` (a peer is reaped under every spelling of its id),
  `ImplementsLife`; `NoOrphanCapture`, `LiveRouteStreams`, `NoSecondStart`, `ImplementsLease`
  (capture and record agree through all awaits); `UnwantedCaptureEnds` and
  `CaptureEndsWithConsent` (liveness).
* Support: `StandingIsSaved`, `ActiveIsBound`, `RightsGrowByDecision`; `OnlyOpenDialsWait` (while the
  customer's session of a dial says approved, denied or ended, the dial does not wait for him),
  `KvmAwaitsTechnician`, `WaitingDialIsDriven`; `NoKeyForgotten` (whatever is pressed on a desktop
  is remembered by a lease or by one whose release is on its way). `NoKeyStuck` says more, that
  the lease's route still runs or is about to stop: violated in `stuck_key`, and proved for a
  machine that ends no route itself.
* Picture: `PictureIsWhole` (no delta is decoded on the wrong picture), `PictureReturns`
  (liveness).
* One machine: `OutcomeIsTrue` (a transfer's record tells what is at the destination; one that
  could not be finished says of what was placed that it was being committed),
  `NoShellForgotten`, `ToldSizeFits` (of what the viewers are told, not of the child),
  `NeverRollsBack`.
* Fleet: `KeyFollowsOwner`, `OneAdmissionPerClaim`; `StampNamesOneRecord`,
  `NothingFromBeforeThePurge`, `DocumentNeverGoesBack`, `CanvasConverges`;
  `ExplicitChoiceStands`, `ManagersPlanReachesAll`; `WinnerIsNewest`, `StampNamesOneVersion`,
  `HeldBodyStays` (what an entry of the queue is held for stays, from the moment the entry is
  there), `LedgersConverge`. `WinnerIsNewest`, `StampNamesOneVersion` and `LedgersConverge` speak
  of devices that are not in `overtaken`: `late_delete` shows how a device gets there, with
  `WinnerNeverGoesBack`, which has no such exception.
* Types: `HostTypeOK` (which includes `OrderMatchesTable`: the history queue and the map of
  routes agree), `LinkShapesOK`, `FleetTypeOK`, `SupportTypeOK`.

**Why the bounds are enough.**

* Routes interact in the table only through the order of history and the reaping of a peer:
  three routes with a history of one give a route to prune, one to keep and one alive in
  between; routes are interchangeable, hence the symmetry. Two spellings of one peer are what
  a reap must see as one and a Reject as two; the proofs are for any peers.
* In RouteLink two offers give an old and a new incarnation under one id, and a mishap is a
  repeated delivery, a restart, a reset or a relink. `link_live` allows two mishaps, so
  that a restart and a repeated message meet. For safety a lost message is one that stays under
  way: `link_safety` delivers in any order, or never; `link_live` takes messages away.
* In CecConsent two technicians, one of whom dials twice, with one place in the pending
  list, give redial, eviction and supersession. Dials of one technician are alike, hence the
  symmetry. A decision for once is enough for the locks to interleave; the other scopes, whose
  grants are saved and run out, are in `cec_resurrect` and in the proofs, which are for all.
* One control route with two leases has an old and a new incarnation under one id; a second
  route shares nothing with it but the desktop and the queue's length. With queues of one a
  release meets a full queue and an event that waits. One key is the modifier and is pressed,
  repeated and lifted; a second one matters where a modifier changes what a key means, which
  `SteadyFaces` excludes. Two desktops are one a route leaves for
  another, and an ambiguity for a key that names none. The proof covers any number.
* Two dials are one and its successor, whose cancellation replaces the first one's; the proof
  covers any number of dials and words.
* A transfer of two items has a first that is placed when the second fails; three troubles
  are a failure, a failed rollback of it and a restart. A shell's id is used again
  after its end, by either of two viewers, while two timers of earlier detachments sleep.
* Two halves, one that applies for the other and one that only starts, and three releases let a
  slow download of the second arrive after the third is installed. Services differ from
  the command line only in what they may leave out; the proof covers them.
* Two writes of a file and counters up to two give an edit and its deletion, or edits on both
  devices, under way together with every step of the other device; a device's own watcher event
  for a deletion it receives is enough to overtake it. Two captures at a time or a third write
  are in the proofs, which are for any number; `late_delete` has three writes.
* The third machine of the fleet is the second owner in a race of two claims. Two
  replicas are enough for a merge in either order with a stale copy on its way;
  with three, a copy would reach the second by the third, which is a late message.
* A queue of two units overflows while one is shown; a lag of two is a lost unit and the one
  held back behind it.

The failing run of each finding keeps only the faults its trace needs.

**Deadlock** is checked in `session`, `cec_consent` and `cec_resurrect`. The others bound their
offers, edits or messages and may come to rest.

**Fairness** is stated only for what the program or the daemon does by itself. No user's action,
no restart and no loss is fair.

* RouteLink (`FairSpec`): weak fairness for a handler that has effects left (a task that is
  ready runs), the event loop, the consent sweep and the quarantine's timer. A refused
  frame is refused again as long as the capture runs, so its NACK is sent over and over:
  weak fairness for `Nack`, and strong fairness for the receipt of a Reject, that is, not
  every one of infinitely many NACKs is lost. Nothing else is assumed to arrive: the
  Teardown of the viewer may be lost.
* VideoPipe: the source keeps sending and the worker keeps asking (weak fairness for `Arrive`,
  `Follow`, `Ask`, the answers and the ends of waits); not every one of the retry worker's
  requests is lost (strong fairness for its delivery). A window need not poll.
* MCFleet: presence frames keep coming between every two machines (strong fairness), of the
  messages between two of them one is delivered in the end, a device goes on capturing,
  finishing and draining its queues (weak). This is an assumption about the environment:
  presence is sent when something happens, not on a heartbeat (mesh.rs 3652-3657, 4393-4396),
  and a drain or a digest runs when a frame comes (4786-4790). The convergence properties say
  what devices that keep meeting come to; devices that fall silent stay as they are.
* SupportDial, Updater, Transfer, Terminal and RemoteInput are checked for safety only.

**Settings.** `KeyedEntries` (VideoPipe) says that the wire's key bit marks every entry; `SteadyFaces`,
`Refusing` and `LocalEnds` (RemoteInput) say that a key injects the same with and without a
modifier, which backends may refuse an event, and whether this machine disconnects routes. The
passing runs take the values under which the code keeps its promise (`LocalEnds` is TRUE: a
machine may end routes itself, and Wayland desktops may refuse); section 4 says what happens otherwise.

**Mutants.** Each property of a passing run has a mutant beside the definition it
mutates (`\* mutant: ...`): a plausible slip in that code which breaks the property.

## 4. Findings

1. `orphan_audio`: after the awaited Accept, `process_effects` re-checks a picture route and
   not a sound route (mesh.rs 9911-9931): a disconnect in between leaves the microphone on.
2. `reap_live`: the boot id refreshed by a network reset makes untouched peers reap healthy
   routes (mesh.rs 13305 against 4661-4677).
3. `cec_resurrect`: Approve Once over a standing grant is not saved, so a restart brings the
   old grant back (consent lib.rs 219-231).
4. `stuck_key`: `disconnect` stops everything a route runs but its input, so that a machine whose
   user, or whose consent sweep, ends a technician's route keeps the keys he held
   (mesh.rs 7994-8042 against input_inject.rs 144 and mesh.rs 10035).
5. `claim_conscript`: a machine in claim mode that adopts another one stays in claim mode, and
   is then adopted itself although it owns a fleet (ownership.rs 262 against 149).
6. `stale_copy`: a device that holds a newer version's metadata and still the old file announces
   the old content as the newest at its next start (fleetfiles.rs 1886 against
   docs/FLEETFILES-IMPLEMENTATION.md:75).
7. `late_delete`: `apply_delete` checks the row under one lock and writes it under another; an
   edit captured in between is overwritten by the older deletion (fleetfiles.rs 2202-2241
   against docs/FLEETFILES-IMPLEMENTATION.md:108). The device that was overtaken counts on from
   MAX(counter) of its rows (1896-1906) and may mint a stamp that it has minted before; and once
   its newer version is known everywhere the ledgers are equal while the rows differ.

Smaller disagreements, seen while modelling and not turned into runs.

Routes and consent:

* `bring_up` replaces the session when the link to the daemon comes back and keeps the captures
  (mesh.rs 3502): `orphan_audio.cfg` with `Picture = TRUE`, `Relinked = {source}` and
  `MaxMishaps = 1` shows a capture without a record.
* mesh.rs 3685-3687 says a re-connect mints a fresh route id; ids are computed from the
  endpoints, so a late Accept meets the re-offered record.
* An offer made over an active route overwrites its record; when that offer is then
  rejected or expires, the old media keeps running. Windows avoid it (`ReofferLive = FALSE`
  in `session`); `link_safety` allows re-offers by the viewer, which captures nothing.
* cec.rs 491-495 speaks of "one live support session at a time": an approval by prompt ends
  no other session. mesh.rs 9388 says "this same technician" of a call that ends every
  technician's session.
* `cec_revoke` returns before its teardown if the save fails (mesh.rs 8880), and leaves the
  session listed as active. Its End carries an empty session id and ends no session at the
  technician (mesh.rs 8887).

Support dial:

* A superseded dial whose Approve was lost, and whose standing grant lapses, gets no answer and
  sends its Request for ever; once a newer dial replaced `dial_cancel` it cannot be
  cancelled (mesh.rs 8655).
* A dial that times out tells the customer nothing, and its request stays approvable, against
  the comment at 8683-8685. With a standing grant a Request that comes after its End
  makes the ended session active again (9387). A late Deny overwrites any state (9500).
* A cancelled dial comes back into the customer's list if its End was lost and a Request of it
  comes late, and any dial does after the customer's restart or a sweep has taken its session
  (9449).

Fleet:

* `apply_directory` has the gap of finding 7 too (fleetfiles.rs 2166-2200).
* `queue_for` makes sure of the body under one lock and inserts the entry under another (1536-1545).
  An acknowledgement of the last other entry of that body (1822-1832), or a reclaim, takes it
  in between, and the new entry then fails its target's whole batch until the body comes back.
* A key hand-off that is lost is repeated only when the device appears with a new boot or to a
  new session of its owner (mesh.rs 4721), while the comment there calls it self-healing.
* A watcher's overflow is only logged (mesh.rs 3367). A refusal at the head of a queue stops its
  drain, and two full stores can pin each other's queues.
* When a member's patch of the plan is lost, every probe makes the manager push its own plan and
  nobody asks the member for its, until a peer restarts (mesh.rs 20713 against 4779, "patches
  lost during that partition still heal").
* The canvas' actor falls back to "local" (mesh.rs 19397-19400), one name for several devices.

Picture:

* A late copy of an entry unit moves the sequence mark back, against mesh.rs 1955-1957.
* The fence (video_handoff.rs 29) reads the raw key bit, which HEVC and AV1 streams do not set
  (video_decode.rs 82): with `KeyedEntries = FALSE` `PictureReturns` fails.
* In gradual mode the request for recovery is made once and is silently coalesced within a
  second.

Transfer:

* A cancel between the creation of the staging folder and the next step returns before the
  cleaning up, against docs/OPERATION-PROMISE.md:279. The flag and the record of a cancel are
  two steps; between them a record can be left in "cancelling" until a restart.
* A rename whose answer is lost is reported as "rolled back" while the item stays.
* If the last write of the log fails the command reports an error (mesh.rs 15966) and the record
  says "committing"; the next start makes it "failed" although every item was placed
  (`RestartNode`; `doubt` is that exception). The log in memory that `load` falls back to when
  its file cannot be opened is not modelled.

Terminal:

* The size of a shell is sent with `try_send`: while its queue is full the child keeps another
  size than `last_size`, which the viewers are told and which the doc comment calls "last pushed
  to the PTY" (terminal.rs 146-149), until the next reconcile sends it again (159).
* The generation of an idle timer is always 1, so that the timer of an earlier detachment ends a
  shell detached again less than an hour ago (terminal.rs 558-561 against 140-142).
* `StopMedia` clears `term_pumps` while the old pump still waits; a route offered again under
  the same id gets two (mesh.rs 14472-14477). A host's own `disconnect` stops a shell that
  others share (against 10037-10042); during an open it leaves a viewer nobody is
  (8010). A viewer of a shell whose program has ended gets no Exit.

Input:

* A held key that repeats under a modifier pressed after it, on a layout whose characters are not
  the keycaps', is remembered under its new resolution only, and the first one stays down
  (input_inject.rs 904-912 against 880): `NoKeyForgotten` fails with `SteadyFaces = FALSE`.
* The native worker forgets a key before the system has taken its keyup (413-420), while the
  Wayland one keeps it for the teardown ("a failed keyup remains held for teardown to retry"):
  `NoKeyForgotten` fails with `Refusing = {"native"}`.

Shares:

* Records of what arrived are kept by the sender's device (mesh.rs 9664), records of what was
  granted by the person who owns it (9641, "so both ends agree on me").
  `person_for_node` (shares.rs 145) takes the first record that lists a device, which may be
  an empty one: a grant made later to the person's other record is then never consulted,
  against mesh.rs 9775-9777.
* A failed save of a revocation is ignored (shares.rs 413); a repeated grant may add a device
  without saving (212-223).

Updates:

* Two processes with an old claim on the launch check can both win it (lib.rs 1466-1495 against
  1458). `stage_release` overwrites what another half had staged (1677-1690 against 50-55).
* A binary whose marker was not written can be rolled back by an older manifest (842-893
  against 53); `torn` is that exception.
* A service whose binary another half replaced finds nothing to fetch and keeps its old image
  (1170 and 1263, "always current").

## 5. Proofs

All theorems hold for every value of the constants that the named assumptions admit: any
number of routes, machines, dials, keys, files and bounds. What the assumptions ask beyond types
is that some sets are finite (a node's routes, the devices of a canvas and the mutations of a
batch, paths, the devices and volumes of a plan), as any machine's are. Where a theorem has a
hypothesis about a setting it is named below, and a run or section 4 shows what happens without it.

An invariant that a run checks is seldom inductive. Each proof module names the strengthening it
needs and proves it as one lemma per operation, with one step per conjunct the operation
can disturb.

**Compositions.** Four of the proof modules extend the MC module whose run checks their
properties. They first prove each part for its own specification, then that a behaviour of the
composition is one of each part's or a stutter (`PartsOfHost`, `LinkParts`, `PartsOfFleet`,
`PartsOfSupport`), and so that the types of all parts hold in what TLC runs: `HostTypesHold`,
`LinkShapesHold`, `FleetTypesHold`, `SupportTypesHold`.

**RouteLinkProofs.** `LinkTypeOK` is for every setting. `NoOrphan`, `LiveStreams`,
`SingleStart` and `Implements` are for a *viewed picture*: a picture route that its sink
offers, at a source whose daemon link stays up (`ViewedPicture`); the run `orphan_audio`, and its
variant of section 4, show what happens outside. The three safety properties are inductive only
together and with two more facts:

    CaptureInv == TypeOK /\ ViewerOffers /\ NoOrphanCapture /\ LiveRouteStreams /\ NoSecondStart

`TypeOK` fixes the shapes a handler's plan can have (an Accept comes before its Start).
`ViewerOffers` says the source's record is never outbound, so that no Accept starts media
there and no failed send tears its record down silently. `NoOrphanCapture` is needed for
`NoSecondStart` (an Accept-and-Start plan is made only when the record was not active, so
nothing was captured), and `NoSecondStart` for the step in which `Continue` starts.
The proof has one lemma per group of actions at the source (`SourceCommand`, `SourceTimer`,
`SourceReceive`, `SourceContinue`, `SourceEnding`), and one for steps that do not touch the
source's view. `Implements` shows that record and capture move together in one of the ways
CaptureLease allows.

**SessionProofs.** Under `NodeSettings` (`AutoAccept`, not `ReofferLive`)
`MediaFollowsRoutes` proves that media runs for exactly the active routes, `TableImplements`
that every step is one of RouteLife or a stutter, and `ReapedIsSilent` that nothing runs with a
machine after it is reaped. Each rule's outcome is classified once (`RuleOutcomes`), and one
route's move lifted to the table (`UpdateMoves`). `TableTypeHolds` and `OldestGoFirst` are for
every setting. They rest on `TableInv`: the history queue lists the routes of the table, each
once, and so the oldest completed routes are the ones that go. `BoundTermStays` needs only that
no live route is offered again.

**LinkProofs.** SupportDial's three properties and types, for any set of dials and any size of the
wire. `DialInv` adds that the wire is finite (its size is in the type), that a dial not
yet linked is unknown to the customer, and that under a standing grant nobody is asked.
`PostedFits` and `LeftFits` say once what sending and taking do to the wire. Of VideoPipe
`PictureStaysWhole`, for any queue, lag and number of snags:

    PictureInv == FlagsOK /\ AsksOK /\ Fits(pane) /\ ChainHolds /\ PictureIsWhole

`ChainHolds` is what connects the sequence mark with the window: while deltas are let through, the
unit marked last is the one the window has, or its fence is up, or nobody watches. `FromFits`,
`SuffixFits` and `PushedFits` say once what a queue is after units are dropped from its
front and one is added at its end.

**CecConsentProofs.** `GrantsStayTyped`, `OneGrantEach`, `StandingSaved` rest on `StoreInv`,
their conjunction: neither tier's content is inductive alone, because an approval drops
from one what it adds to the other. `SessionsBound` rests on `BindingInv`, which follows the
event loop through the three locks of an automatic approval. `PlacesInv` is where the two tasks
stand and that the pending list has no technician twice and is within `MaxPending`;
with `StoreInv` it gives `ConsentTypeHolds` and `RightsGrow`: a decision gives rights to
the technician it was made for only (`DecisionDecides`), and every other step but a restart adds
no grant and does not set the clock back (`NoGrantAdded`).

**HostProofs.** *Terminal*: `TermInv` says that at most one open is between its two locks and that
every shell's told size fits; `NoShellIsForgotten`, `ToldSizesAlwaysFit` and `TermTypeHolds`
hold for any number of viewers, shells and sleeping timers, and any number of sizes dropped by
full queues. *Transfer*: `OutcomeHolds` and
`TransferTypeHolds`, for any number of items and troubles, failed writes of the log among them. `TransferInv` says where the phase
of the record may be for each step of the task (`PhaseFollowsTask`), that items are placed in
their order and taken back in reverse (`PlacedInOrder`), that nothing is left without a
record, and that the report a task is about to make is true already (`ReportIsTrue`).
*Updater*: `NeverRolledBack` and `UpdaterTypeHolds`, for any set of halves, services
included, and any number of releases. The type alone is not inductive enough: `BoundOrFresh`
says a binary is bound to its marker, or was never replaced, or is in `torn`. Then what a
half believes of a bound binary is what it is, and what it finds behind is older than the
manifest (`BehindIsOlder`).

**RemoteInputProofs.** `InputTypeHolds` is for every setting (`ShapeInv`: nothing is of a lease not
minted yet, and outside of a flush there is nothing to try). `KeysRemembered` is for
`InputSettings`, a key that means the same with and without a modifier and a native desktop that
takes every event; Wayland ones may refuse, and either end may end a route. `KeyInv` follows a key
from the desktop where it is down to the generation that holds it (`DownIsHeld`) and from there to
the lease or the release that answers for it (`HeldIsAnswered`). `HaveOwners` says there
is *some* assignment of generations to routes that all queues agree with: the model does not
keep one, and the code does not either. `KeysLifted` adds `~LocalEnds`, and proves for that
case the property that `stuck_key` refutes.

**FleetProofs.**

* *Ownership*: `OwnershipInv` adds to `KeyFollowsOwner` that a key in use is recorded at its holder,
  is handed down only by one who has held it, and that nobody has held one not minted; and to
  `OneAdmissionPerClaim` that a claim waited for has been sent and not been confirmed.
* *FleetFiles*: `QueuedBodiesStay`, `FilesTypeHolds`, `WinnersAreNewest` and
  `StampsNameOneVersion` have no hypothesis on how the threads of a device interleave. The
  invariant of the last two, `LedgerInv`, says that a stamp names one content in all ledgers
  (`LedgersAgree`), because its author, unless it is in `overtaken`, has it in its own ledger and
  counts on from there (`AuthorsRemember`); and that whatever is queued, on its way or
  between two locks is in some ledger, or of an author in `overtaken` (`Traced`). A row that a
  deletion replaces without overtaking anybody is older than the deletion or the same.
* *StoragePlan*: `ExplicitChoicesStand`, and in `PlanTypeHolds` that no merge outgrows the caps.
  `PlanInv` adds that plans on their way are finite, so that what a merge takes of them can be
  counted.
* *Canvas*: `StampsNameOneRecord`, `PurgesStand`, `DocumentsNeverGoBack`, `CanvasTypeHolds`.
  `CanvasInv` says that no record, wherever it is, has a counter its author has not reached
  (`AuthorLeads`) or its reader has not seen (`ReaderKnows`), so that a new stamp is new
  everywhere; and that documents and patches hold records of their own epoch only.

**FiniteFacts** has what these proofs need of finite sets and queues: least and greatest elements,
images, and what `Retained` computes. The provers here cannot use an induction rule for an
arbitrary property; these facts are proved from a least counterexample instead (`LeastNatural`,
from the well-foundedness of `<`).

**Only model-checked:** all liveness (`UnwantedCaptureEnds`, `CaptureEndsWithConsent`,
`PictureReturns`, `CanvasConverges`, `ManagersPlanReachesAll`,
`LedgersConverge`): fairness and ENABLED are out of the prover's reach. Every other property of a
passing run is a theorem, the capture's for a viewed picture as the run checks it.
`OneGrantEach` states its fact (`OneGrant`) by proof only: no run repeats it.

## 6. Plan

Done, in this order: the rules of a record, the table and its promise, the link of two nodes and
its lease, the customer's consent; ownership, canvas, storage plan, fleet files; the picture;
transfers and shells; the support dial; the updater; the viewer's keys.

Next:

1. **Shares**: grant, vouching of siblings, revocation and their relay to the fleet.
2. That the halves of an installation catch up in the end: a liveness property of Updater, whose
   state graph is too large for a run beside the others.
3. Drive mounts and their recovery; several routes on one lane.

Proofs to add: that each subject of the compositions keeps its safety properties there too (the
type theorems show how); the capture theorems for a sound route with the re-check it lacks; that
Canvas, StoragePlan and FleetFiles implement one replicated map of stamped records, of which
`StampNamesOneRecord` and `WinnerIsNewest` are the invariant part.

## 7. Not modelled

Person-to-person shares; capture, codecs and decoding; the clipboard; drive
mounts, remote files and sites; the platform's service managers and the verification of a
download; the sockets to daemon and windows; graph, inventory and protocol types; the windows
themselves. Each is in `PROJECT.json` with its reason. The mesh daemon is external: it appears
as the channels `net`, `wire` and the posts between machines with their faults, and as the
signed roster of Ownership.
