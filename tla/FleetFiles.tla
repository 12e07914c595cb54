------------------------------ MODULE FleetFiles ------------------------------
(***************************************************************************)
(* Fleetfiles (node/src/fleetfiles.rs and its senders and handlers in      *)
(* node/src/mesh.rs): every device keeps the current version of each path  *)
(* and the ledger of all versions it has heard of, in SQLite; the bodies   *)
(* live in the stores of some devices; the working copies of the user are  *)
(* captured by a watcher and replaced by what is received.                 *)
(*                                                                         *)
(* A body stands for its hash, size and kind; Gone is no file, and a       *)
(* tombstone.  Directories go the way of deletions and are left out.  A    *)
(* request and its reply are one step: the reply may be missed, a request  *)
(* that does not arrive changes nothing.  Each device has one allocation   *)
(* of equal-sized bodies.                                                  *)
(***************************************************************************)
EXTENDS Stamps, FiniteSets

CONSTANTS Members,      \* the devices of the fleet, as numbers
          StoreSets,    \* the sets of devices that may have an allocation
          Paths,
          Bodies,       \* contents, as numbers
          Replicas,     \* policy.replicas
          Quota,        \* bodies an allocation has room for
          Gate,         \* permits of fleetfiles_transfer_gate: captures at a time
          MaxInbound,   \* MAX_INBOUND
          MaxWrites,    \* bound: changes the users make
          MaxCounter,   \* bound: counters, no capture begins beyond it
          MaxUpsets     \* bound: restarts, missed replies and broken transfers

ASSUME FilesConstants ==
  /\ Members \subseteq Nat \ {0}
  /\ \A s \in StoreSets : s \subseteq Members
  /\ Bodies \subseteq Nat \ {0} /\ IsFiniteSet(Paths)
  /\ Replicas \in Nat /\ Quota \in Nat /\ Gate \in Nat /\ MaxInbound \in Nat
  /\ MaxWrites \in Nat /\ MaxCounter \in Nat /\ MaxUpsets \in Nat

VARIABLES files,      \* the working copies in the Fleetfiles root
          dirty,      \* paths with a watcher event to come
          tasks,      \* what is between two steps: captures and deletions
          row,        \* path_versions
          history,    \* version_history
          metaQueue,  \* metadata_history_queue
          bodyQueue,  \* content_version_queue
          outbound,   \* outbound-v1: snapshots of bodies that are queued
          bodies,     \* content_replicas: the bodies in the allocation
          inbound,    \* transfers begun and not committed
          stores,     \* devices with an enabled allocation in the storage plan
          unsaved,    \* history: paths the user has changed since the last capture
          overtaken,  \* history: devices that recorded a deletion over a newer version
          writes, upsets   \* how much of each bound is used

filesVars == <<files, dirty, tasks, row, history, metaQueue, bodyQueue, outbound, bodies,
               inbound, stores, unsaved, overtaken, writes, upsets>>

ledger == <<row, history>>

user == <<files, dirty, unsaved>>

queues == <<metaQueue, bodyQueue, outbound>>

bounds == <<stores, writes, upsets>>
-----------------------------------------------------------------------------
Gone == 0

Version == [path : Paths, stamp : Stamp, body : Bodies \cup {Gone}]

NoVersion == [stamp |-> ZeroStamp, body |-> Gone]

Queued == [to : Members, version : Version]

Task == [step : {"hashed", "minted", "placed", "ensured", "delete"}, version : Version,
         peer : Members, left : SUBSET Members]

Transfer == [from : Members, version : Version, materialize : BOOLEAN]

(* The event loop of n handles one message after the other.  Captures and   *)
(* drains run beside it.                                                    *)
Listens(n) == \A t \in tasks[n] : t.step # "delete"

Begin(n, t) == tasks' = [tasks EXCEPT ![n] = @ \cup {t}]

Go(n, t, u) == tasks' = [tasks EXCEPT ![n] = (@ \ {t}) \cup {u}]

End(n, t) == tasks' = [tasks EXCEPT ![n] = @ \ {t}]

(* mutant: versions of one counter are not told apart                       *)
NewerThanRow_Counter(v, r) == r.stamp.counter < v.stamp.counter

NewerThanRow(v, r) == StampLess(r.stamp, v.stamp)

Stale(v, r) == StampLess(v.stamp, r.stamp)

(* append_version_history: INSERT OR IGNORE on (path, counter, actor)       *)
Appended(entries, versions) ==
  entries \cup {v \in versions : \A e \in entries : e.path = v.path => e.stamp # v.stamp}

(* put_version                                                              *)
PutVersion(n, v) ==
  /\ row' = [row EXCEPT ![n][v.path] = [stamp |-> v.stamp, body |-> v.body]]
  /\ history' = [history EXCEPT ![n] = Appended(@, {v})]

(* apply_metadata for each version: the newest of a path becomes its row,   *)
(* all go into the ledger.  A stamp with two contents is refused.           *)
Collides(n, versions) ==
  \E v \in versions : row[n][v.path].stamp = v.stamp /\ row[n][v.path].body # v.body

ApplyMetadata(n, versions) ==
  LET newest(p) == {v \in versions : v.path = p /\ NewerThanRow(v, row[n][p])
                      /\ \A w \in versions : w.path = p => StampLeq(w.stamp, v.stamp)}
  IN  /\ ~Collides(n, versions)
      /\ row' = [row EXCEPT ![n] = [p \in Paths |->
           IF newest(p) = {} THEN @[p]
           ELSE LET v == CHOOSE v \in newest(p) : TRUE IN [stamp |-> v.stamp, body |-> v.body]]]
      /\ history' = [history EXCEPT ![n] = Appended(@, versions)]
-----------------------------------------------------------------------------
(* The user changes or deletes a file.                                      *)
Write(n, p, body) ==
  /\ writes < MaxWrites /\ writes' = writes + 1
  /\ files[n][p] # body
  /\ files' = [files EXCEPT ![n][p] = body]
  /\ dirty' = [dirty EXCEPT ![n] = @ \cup {p}]
  /\ unsaved' = [unsaved EXCEPT ![n] = @ \cup {p}]
  /\ UNCHANGED <<tasks, ledger, queues, bodies, inbound, overtaken, stores, upsets>>

(* mutant: MAX(counter) without the + 1                                     *)
NextCounter_Same(n) == Highest({row[n][p].stamp.counter : p \in Paths} \cup {1})

NextCounter(n) == Highest({row[n][p].stamp.counter : p \in Paths}) + 1

(* capture, on a thread of its own: the file is hashed, then the lock is    *)
(* taken and a version minted if the hash is not the one of the row         *)
Hash(n, p) ==
  LET v == [path |-> p, stamp |-> ZeroStamp, body |-> files[n][p]] IN
  /\ p \in dirty[n] /\ NextCounter(n) <= MaxCounter
  /\ Cardinality({t \in tasks[n] : t.step # "delete"}) < Gate
  /\ dirty' = [dirty EXCEPT ![n] = @ \ {p}]
  /\ Begin(n, [step |-> "hashed", version |-> v, peer |-> n, left |-> {}])
  /\ UNCHANGED <<files, unsaved, ledger, queues, bodies, inbound, overtaken, bounds>>

SameAsRow(n, v) == row[n][v.path] # NoVersion /\ row[n][v.path].body = v.body

Mint(n) ==
  \E t \in tasks[n] :
    LET p == t.version.path
        v == [t.version EXCEPT !.stamp = [counter |-> NextCounter(n), actor |-> n]]
    IN  /\ t.step = "hashed"
        /\ IF SameAsRow(n, t.version)
           THEN End(n, t) /\ UNCHANGED ledger
           ELSE PutVersion(n, v) /\ Go(n, t, [t EXCEPT !.step = "minted", !.version = v])
        /\ unsaved' = [unsaved EXCEPT ![n] =
                         IF files[n][p] = t.version.body THEN @ \ {p} ELSE @]
        /\ UNCHANGED <<files, dirty, queues, bodies, inbound, overtaken, bounds>>

(* persist_verified_content: the stores a body may leave behind, none if it *)
(* does not fit and no history yields.  Bodies of current versions and of   *)
(* queued ones do not yield.                                                *)
Reclaimable(n) ==
  {b \in bodies[n] : /\ \A p \in Paths : row[n][p].body # b
                     /\ \A q \in bodyQueue[n] : q.version.body # b}

(* mutant: the quota is compared before the body is added                   *)
Placements_OneOver(n, b) ==
  IF b \in bodies[n] THEN {bodies[n]}
  ELSE IF Cardinality(bodies[n]) <= Quota THEN {bodies[n] \cup {b}}
  ELSE {(bodies[n] \ {old}) \cup {b} : old \in Reclaimable(n)}

Placements(n, b) ==
  IF b \in bodies[n] THEN {bodies[n]}
  ELSE IF Cardinality(bodies[n]) < Quota THEN {bodies[n] \cup {b}}
  ELSE {(bodies[n] \ {old}) \cup {b} : old \in Reclaimable(n)}

(* replicate_fleetfiles_change after the capture: the body is placed on     *)
(* this device if it has a store, unless the file has changed again; as     *)
(* many stores become targets as the policy still asks for                  *)
Unchanged(n, v) == files[n][v.path] = v.body

LocalStores(n, v) ==
  IF n \notin stores \/ v.body = Gone THEN {bodies[n]}
  ELSE IF v.body \in bodies[n] \/ (Unchanged(n, v) /\ Placements(n, v.body) # {})
  THEN Placements(n, v.body) ELSE {bodies[n]}

Place(n) ==
  \E t \in tasks[n] : \E held \in LocalStores(n, t.version) : \E targets \in SUBSET (stores \ {n}) :
    LET b == t.version.body
        copies == IF Replicas = 0 THEN 1 ELSE Replicas
        needed == IF n \in stores /\ (b = Gone \/ b \in held) THEN copies - 1 ELSE copies
        others == Cardinality(stores \ {n})
    IN  /\ t.step = "minted"
        /\ Cardinality(targets) = IF needed < others THEN needed ELSE others
        /\ bodies' = [bodies EXCEPT ![n] = held]
        /\ Go(n, t, [t EXCEPT !.step = "placed", !.left = targets])
        /\ UNCHANGED <<user, ledger, queues, inbound, overtaken, bounds>>

(* queue_for a target: ensure_outbound_body looks for the body and takes a  *)
(* snapshot if there is none, which fails, and ends the task, when the file *)
(* has changed again; the entry is inserted under another lock              *)
Ensure(n) ==
  \E t \in tasks[n] : \E m \in t.left :
    LET b == t.version.body
        held == b \in {Gone} \cup bodies[n] \cup outbound[n]
    IN  /\ t.step = "placed"
        /\ IF held \/ Unchanged(n, t.version)
           THEN Go(n, t, [t EXCEPT !.step = "ensured", !.peer = m])
           ELSE End(n, t)
        /\ outbound' = [outbound EXCEPT ![n] =
                          IF ~held /\ Unchanged(n, t.version) THEN @ \cup {b} ELSE @]
        /\ UNCHANGED <<user, ledger, metaQueue, bodyQueue, bodies, inbound, overtaken, bounds>>

Insert(n) ==
  \E t \in tasks[n] :
    /\ t.step = "ensured"
    /\ bodyQueue' = [bodyQueue EXCEPT ![n] = @ \cup {[to |-> t.peer, version |-> t.version]}]
    /\ Go(n, t, [t EXCEPT !.step = "placed", !.left = @ \ {t.peer}])
    /\ UNCHANGED <<user, ledger, metaQueue, outbound, bodies, inbound, overtaken, bounds>>

(* then queue_metadata for every device                                     *)
Announce(n) ==
  \E t \in tasks[n] :
    /\ t.step = "placed" /\ t.left = {}
    /\ metaQueue' = [metaQueue EXCEPT ![n] =
                       @ \cup {[to |-> m, version |-> t.version] : m \in Members \ {n}}]
    /\ End(n, t)
    /\ UNCHANGED <<user, ledger, bodyQueue, outbound, bodies, inbound, overtaken, bounds>>
-----------------------------------------------------------------------------
(* Sending.  A reply that is missed leaves the entry queued.                *)
Replied(acked) == upsets' = IF acked THEN upsets ELSE upsets + 1

MayMiss(acked) == acked \/ upsets < MaxUpsets

SendMetadata(n, m, acked) ==
  /\ MayMiss(acked) /\ Replied(acked)
  /\ Listens(m)
  /\ \E q \in metaQueue[n] :
       /\ q.to = m
       /\ ApplyMetadata(m, {q.version})
       /\ metaQueue' = [metaQueue EXCEPT ![n] = IF acked THEN @ \ {q} ELSE @]
  /\ UNCHANGED <<user, tasks, bodyQueue, outbound, bodies, inbound, overtaken, stores, writes>>

(* acknowledge: the snapshot goes with the last entry that needs it         *)
(* mutant: it goes with the first                                           *)
StillQueued_No(queue, body) == FALSE

StillQueued(queue, body) == \E q \in queue : q.version.body = body

Acknowledge(n, m, v) ==
  LET rest == bodyQueue[n] \ {[to |-> m, version |-> v]} IN
  /\ bodyQueue' = [bodyQueue EXCEPT ![n] = rest]
  /\ outbound' = [outbound EXCEPT ![n] = IF StillQueued(rest, v.body) THEN @ ELSE @ \ {v.body}]
  /\ UNCHANGED metaQueue

Answer(n, m, v, acked) ==
  /\ MayMiss(acked) /\ Replied(acked)
  /\ IF acked THEN Acknowledge(n, m, v) ELSE UNCHANGED queues

(* queued_content_source                                                    *)
SourceHeld(n, v) == v.body \in {Gone, files[n][v.path]} \cup bodies[n] \cup outbound[n]

(* pending_for: one body that is not available fails the whole batch        *)
PendingFor(n, m) ==
  IF \A q \in bodyQueue[n] : q.to = m => SourceHeld(n, q.version)
  THEN {q.version : q \in {x \in bodyQueue[n] : x.to = m}} ELSE {}

(* FileBegin: begin_file asks for the body unless it has it; an older       *)
(* version must be in the ledger and is not materialized                    *)
AlreadyHeld(m, v) == v.body \in bodies[m] /\ ~NewerThanRow(v, row[m][v.path])

Wanted(m, v) ==
  /\ v.body # Gone
  /\ ~Collides(m, {v})
  /\ Stale(v, row[m][v.path]) => v \in history[m]

BeginFile(n, m) ==
  /\ Listens(m)
  /\ \E v \in PendingFor(n, m) :
       LET same == {t \in inbound[m] : t.from = n /\ t.version = v} IN
       /\ Wanted(m, v) /\ ~AlreadyHeld(m, v)
       /\ same # {} \/ Cardinality(inbound[m]) < MaxInbound
       /\ inbound' = [inbound EXCEPT ![m] = (@ \ same) \cup
            {[from |-> n, version |-> v, materialize |-> ~Stale(v, row[m][v.path])]}]
  /\ UNCHANGED <<user, tasks, ledger, queues, bodies, overtaken, bounds>>

BeginHeld(n, m, acked) ==
  /\ Listens(m)
  /\ \E v \in PendingFor(n, m) : Wanted(m, v) /\ AlreadyHeld(m, v) /\ Answer(n, m, v, acked)
  /\ UNCHANGED <<user, tasks, ledger, bodies, inbound, overtaken, stores, writes>>

(* FileCommit: commit_file verifies and places the body; under the lock it  *)
(* looks at the row again and replaces file and row, or adds to the ledger  *)
(* mutant: what begin_file has seen decides                                 *)
Superseded_AtBegin(m, t) == ~t.materialize

Superseded(m, t) == ~t.materialize \/ Stale(t.version, row[m][t.version.path])

CommitFile(m, acked) ==
  /\ Listens(m)
  /\ \E t \in inbound[m] : \E held \in Placements(m, t.version.body) :
       LET v == t.version IN
       /\ ~Collides(m, {v})
       /\ inbound' = [inbound EXCEPT ![m] = @ \ {t}]
       /\ bodies' = [bodies EXCEPT ![m] = held]
       /\ IF Superseded(m, t)
          THEN /\ history' = [history EXCEPT ![m] = Appended(@, {v})]
               /\ UNCHANGED <<user, row>>
          ELSE /\ PutVersion(m, v)
               /\ files' = [files EXCEPT ![m][v.path] = v.body]
               /\ dirty' = [dirty EXCEPT ![m] = @ \cup {v.path}]
               /\ unsaved' = [unsaved EXCEPT ![m] = @ \ {v.path}]
       /\ Answer(t.from, m, v, acked)
  /\ UNCHANGED <<tasks, overtaken, stores, writes>>

(* commit_file fails: a lost chunk, a sender that has gone, no room left    *)
CommitFails(m) ==
  \E t \in inbound[m] :
    /\ \/ upsets < MaxUpsets /\ upsets' = upsets + 1
       \/ Placements(m, t.version.body) = {} /\ UNCHANGED upsets
    /\ inbound' = [inbound EXCEPT ![m] = @ \ {t}]
    /\ UNCHANGED <<user, tasks, ledger, queues, bodies, overtaken, stores, writes>>

(* Delete: apply_delete checks, removes the file, then records it           *)
RemoveFile(n, m) ==
  /\ Listens(m)
  /\ \E v \in PendingFor(n, m) :
       /\ v.body = Gone
       /\ ~Collides(m, {v}) /\ ~Stale(v, row[m][v.path])
       /\ files' = [files EXCEPT ![m][v.path] = Gone]
       /\ dirty' = [dirty EXCEPT ![m] =
                       IF files[m][v.path] = Gone THEN @ ELSE @ \cup {v.path}]
       /\ unsaved' = [unsaved EXCEPT ![m] = @ \ {v.path}]
       /\ Begin(m, [step |-> "delete", version |-> v, peer |-> n, left |-> {}])
  /\ UNCHANGED <<ledger, queues, bodies, inbound, overtaken, bounds>>

RecordDelete(m, acked) ==
  /\ \E t \in tasks[m] :
       LET v == t.version IN
       /\ t.step = "delete"
       /\ PutVersion(m, v)
       /\ End(m, t)
       /\ overtaken' = IF Stale(v, row[m][v.path]) \/ Collides(m, {v})
                       THEN overtaken \cup {m} ELSE overtaken
       /\ Answer(t.peer, m, v, acked)
  /\ UNCHANGED <<user, bodies, inbound, stores, writes>>

DeleteSuperseded(n, m, acked) ==
  /\ Listens(m)
  /\ \E v \in PendingFor(n, m) :
       v.body = Gone /\ Stale(v, row[m][v.path]) /\ Answer(n, m, v, acked)
  /\ UNCHANGED <<user, tasks, ledger, bodies, inbound, overtaken, stores, writes>>
-----------------------------------------------------------------------------
(* reconcile_fleetfiles_ledger, at the end of a drain whose queues are      *)
(* empty: the ledgers are compared by digest; n pulls the peer's if it has  *)
(* no fewer entries, then pushes its own if they still differ               *)
Drained(n, m) ==
  /\ \A q \in metaQueue[n] : q.to # m
  /\ m \in stores => \A q \in bodyQueue[n] : q.to # m

Differ(n, m) == history[n] # history[m]

PullLedger(n, m) ==
  /\ n # m /\ Drained(n, m) /\ Differ(n, m)
  /\ Cardinality(history[m]) >= Cardinality(history[n])
  /\ Listens(m)
  /\ ApplyMetadata(n, history[m])
  /\ UNCHANGED <<user, tasks, queues, bodies, inbound, overtaken, bounds>>

PushLedger(n, m) ==
  /\ n # m /\ Drained(n, m) /\ Differ(n, m)
  /\ Cardinality(history[m]) < Cardinality(history[n])
  /\ Listens(m)
  /\ ApplyMetadata(m, history[n])
  /\ UNCHANGED <<user, tasks, queues, bodies, inbound, overtaken, bounds>>

(* fleetfiles_materialize: the winner's body, from the own store or from    *)
(* one that has it, replaces the working copy.  Bound: fetched in one step. *)
Materialize(n, p) ==
  LET b == row[n][p].body IN
  /\ b # Gone /\ files[n][p] # b
  /\ \E m \in Members : b \in bodies[m]
  /\ files' = [files EXCEPT ![n][p] = b]
  /\ dirty' = [dirty EXCEPT ![n] = @ \cup {p}]
  /\ unsaved' = [unsaved EXCEPT ![n] = @ \ {p}]
  /\ UNCHANGED <<tasks, ledger, queues, bodies, inbound, overtaken, bounds>>

(* A restart forgets tasks, transfers and watcher events; start_watcher     *)
(* reports every file there is.  It may fall between the replacement of a   *)
(* file by commit_file and the record of its version.                       *)
RestartFiles(n) ==
  /\ upsets < MaxUpsets /\ upsets' = upsets + 1
  /\ \/ UNCHANGED files
     \/ \E t \in inbound[n] :
          ~Superseded(n, t) /\ files' = [files EXCEPT ![n][t.version.path] = t.version.body]
  /\ tasks' = [tasks EXCEPT ![n] = {}]
  /\ inbound' = [inbound EXCEPT ![n] = {}]
  /\ dirty' = [dirty EXCEPT ![n] = {p \in Paths : files'[n][p] # Gone}]
  /\ unsaved' = [unsaved EXCEPT ![n] = {p \in @ : files'[n][p] = files[n][p]}]
  /\ UNCHANGED <<ledger, queues, bodies, overtaken, stores, writes>>
-----------------------------------------------------------------------------
FilesInit ==
  /\ files = [n \in Members |-> [p \in Paths |-> Gone]]
  /\ dirty = [n \in Members |-> {}]
  /\ tasks = [n \in Members |-> {}]
  /\ row = [n \in Members |-> [p \in Paths |-> NoVersion]]
  /\ history = [n \in Members |-> {}]
  /\ metaQueue = [n \in Members |-> {}]
  /\ bodyQueue = [n \in Members |-> {}]
  /\ outbound = [n \in Members |-> {}]
  /\ bodies = [n \in Members |-> {}]
  /\ inbound = [n \in Members |-> {}]
  /\ stores \in StoreSets
  /\ unsaved = [n \in Members |-> {}]
  /\ overtaken = {}
  /\ writes = 0 /\ upsets = 0

(* a capture on n, from the watcher's event to the queues                   *)
Capture(n) ==
  \/ \E p \in Paths : Hash(n, p)
  \/ Mint(n) \/ Place(n) \/ Ensure(n) \/ Insert(n) \/ Announce(n)

(* a transfer to m, once begun                                              *)
Finish(m) == CommitFile(m, TRUE) \/ CommitFails(m) \/ RecordDelete(m, TRUE)

(* drain_fleetfiles_queue, run on n whenever a presence frame of m arrives: *)
(* the metadata, the bodies, the ledger.  The captures send the first two.  *)
SendBody(n, m) ==
  \/ BeginFile(n, m) \/ BeginHeld(n, m, TRUE)
  \/ RemoveFile(n, m) \/ DeleteSuperseded(n, m, TRUE)

Reconcile(n, m) == PullLedger(n, m) \/ PushLedger(n, m)

Drain(n, m) ==
  \/ SendMetadata(n, m, TRUE)
  \/ (\A q \in metaQueue[n] : q.to # m) /\ SendBody(n, m)
  \/ Reconcile(n, m)

FilesNext ==
  \/ \E n \in Members, p \in Paths, b \in Bodies \cup {Gone} : Write(n, p, b)
  \/ \E n \in Members, p \in Paths : Materialize(n, p)
  \/ \E n \in Members : Capture(n) \/ Finish(n) \/ RestartFiles(n)
  \/ \E n, m \in Members : SendMetadata(n, m, TRUE) \/ SendBody(n, m) \/ Reconcile(n, m)
  \/ \E n, m \in Members :
       \/ SendMetadata(n, m, FALSE) \/ BeginHeld(n, m, FALSE) \/ DeleteSuperseded(n, m, FALSE)
  \/ \E m \in Members : CommitFile(m, FALSE) \/ RecordDelete(m, FALSE)

FilesFairness ==
  \A n \in Members :
    /\ WF_filesVars(Capture(n)) /\ WF_filesVars(Finish(n))
    /\ \A m \in Members \ {n} : WF_filesVars(Drain(n, m))

FilesSpec == FilesInit /\ [][FilesNext]_filesVars

FilesFairSpec == FilesSpec /\ FilesFairness
-----------------------------------------------------------------------------
(* Every variable holds what its type says; a store keeps to its quota.     *)
FilesTypeOK ==
  /\ files \in [Members -> [Paths -> Bodies \cup {Gone}]]
  /\ dirty \in [Members -> SUBSET Paths] /\ unsaved \in [Members -> SUBSET Paths]
  /\ row \in [Members -> [Paths -> [stamp : Stamp, body : Bodies \cup {Gone}]]]
  /\ tasks \in [Members -> SUBSET Task] /\ overtaken \subseteq Members
  /\ history \in [Members -> SUBSET Version]
  /\ metaQueue \in [Members -> SUBSET Queued] /\ bodyQueue \in [Members -> SUBSET Queued]
  /\ outbound \in [Members -> SUBSET Bodies] /\ bodies \in [Members -> SUBSET Bodies]
  /\ inbound \in [Members -> SUBSET Transfer]
  /\ \A n \in Members : /\ Cardinality(bodies[n]) <= Quota
                        /\ Cardinality(inbound[n]) <= MaxInbound
  /\ stores \in StoreSets
  /\ writes \in 0 .. MaxWrites /\ upsets \in 0 .. MaxUpsets

(* The winner stands: the current version of a path is the newest one that  *)
(* the device has heard of ("a late older version is appended to history    *)
(* but cannot replace the current winner").  Ledgers that agree would       *)
(* otherwise hide devices that do not.  One race breaks it: apply_delete    *)
(* checks and writes under two locks, and a capture or a drain may write a  *)
(* newer version in between.  This is so for all others, for a transfer     *)
(* begun long before and for all that is learned from such a device.        *)
WinnerIsNewest ==
  \A n \in Members \ overtaken : \A p \in Paths :
    LET known == {v \in history[n] : v.path = p} IN
    /\ \A v \in known : StampLeq(v.stamp, row[n][p].stamp)
    /\ row[n][p] # NoVersion => \E v \in known : v.stamp = row[n][p].stamp /\ v.body = row[n][p].body

(* A stamp names one content of a path, on all devices and in all queues,   *)
(* whatever a restart or a missed reply repeats.  A collision is refused by *)
(* every peer for ever.  Only a device whose winner was overwritten in the  *)
(* race above may mint a stamp again, for MAX(counter) is that of its rows. *)
Known ==
  UNION {history[n] \cup {q.version : q \in metaQueue[n] \cup bodyQueue[n]} : n \in Members}

StampNamesOneVersion ==
  \A v, w \in Known :
    (v.path = w.path /\ v.stamp = w.stamp /\ v.stamp.actor \notin overtaken) => v = w

(* A queued body that can be sent stays so until every target has           *)
(* acknowledged it, although the working file changes, its history is       *)
(* reclaimed, or another entry of the same body is acknowledged.  One that  *)
(* is gone fails the whole batch of its target for ever.  (queue_for looks  *)
(* for the body before the entry is there to protect it.)                   *)
HasBody(n, q) == q.version.body \in {Gone} \cup bodies[n] \cup outbound[n]

HeldBodyStays ==
  [][\A n \in Members : \A q \in bodyQueue[n] \cap bodyQueue'[n] :
       HasBody(n, q) => HasBody(n, q)']_filesVars

(* The devices agree in the end on the current version of every path, if no *)
(* winner was overwritten, although a restart may come before a version is  *)
(* queued, or between any two locks of a capture.                           *)
LedgersConverge ==
  <>[](overtaken = {} => \A n, m \in Members : row[n] = row[m])

(* A late older version cannot replace the current winner                   *)
(* (docs/FLEETFILES-IMPLEMENTATION.md), a deletion that checks the row      *)
(* under one lock and writes it under another included.                     *)
WinnerNeverGoesBack ==
  [][\A n \in Members, p \in Paths : StampLeq(row[n][p].stamp, row'[n][p].stamp)]_filesVars

(* What is out of date stays so: a content that a device knows as an older  *)
(* version becomes a new one only when a user puts it there, for "the       *)
(* user-visible Fleetfiles root is a working materialization adapter, not   *)
(* the namespace authority" (docs/FLEETFILES-IMPLEMENTATION.md).            *)
OutOfDateStaysOld ==
  [][\A n \in Members : \A v \in history'[n] \ history[n] :
       (v.stamp.actor = n /\ \E w \in history[n] : w.path = v.path /\ w.body = v.body)
         => v.path \in unsaved[n]]_filesVars
=============================================================================
