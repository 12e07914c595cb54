------------------------------- MODULE Canvas -------------------------------
(***************************************************************************)
(* The Files canvas (node/src/canvas.rs): every device of the fleet keeps  *)
(* a copy of one document of last-writer-wins records, deletes leave       *)
(* tombstones, and a manager may purge the tombstones behind a new         *)
(* document epoch.  The message handlers are those of node/src/mesh.rs.    *)
(*                                                                         *)
(* A record's contents are abstracted to its stamp; `born` is the epoch    *)
(* it was written in, which the code does not store: the properties need   *)
(* it to say which copies are stale.  Messages may be lost, reordered and  *)
(* delivered twice.  A restart loads what the last write saved, which is   *)
(* the whole state, so it shows only as the full sync it causes.           *)
(***************************************************************************)
EXTENDS Stamps, FiniteSets

CONSTANTS Nodes,        \* the devices of the fleet, as numbers
          Roles,        \* the sets of devices that may be owners or controllers
          Ids,          \* ids of canvas records
          MaxRecords,   \* MAX_RECORDS
          Batches,      \* the local batches, sequences of mutations
          MaxEdits,     \* bound: batches applied in a behaviour
          MaxPurges,    \* bound: purges in a behaviour
          MaxFaults,    \* bound: lost and duplicated messages, and reboots
          MaxFlight     \* bound: messages in flight on a link; a further send fails

Mutation == [id : Ids, deleted : BOOLEAN]

ASSUME CanvasConstants ==
  /\ Nodes \subseteq Nat \ {0} /\ IsFiniteSet(Nodes)
  /\ Roles \subseteq SUBSET Nodes
  /\ MaxRecords \in Nat
  /\ MaxEdits \in Nat /\ MaxPurges \in Nat /\ MaxFaults \in Nat /\ MaxFlight \in Nat

(* a batch names each record once *)
ASSUME CanvasBatches ==
  \A b \in Batches :
    /\ IsFiniteSet(DOMAIN b) /\ DOMAIN b = 1 .. Cardinality(DOMAIN b)
    /\ \A i \in DOMAIN b : b[i] \in Mutation
    /\ \A i, j \in DOMAIN b : b[i].id = b[j].id => i = j

VARIABLES epoch,      \* Persisted.epoch of each device
          records,    \* Persisted.records: id -> record or NoRecord
          counters,   \* Persisted.counters: the highest counter seen of an actor
          canvasNet,  \* messages in flight on CHANNEL_FILES_CANVAS
          managers,   \* the owners and controllers of the signed roster
          kept,       \* history: what each purge kept, [epoch, id, stamp]
          edits, purges, faults   \* how much of each bound is used

canvasVars == <<epoch, records, counters, canvasNet, managers, kept, edits, purges, faults>>
-----------------------------------------------------------------------------
Record == [stamp : Stamp, deleted : BOOLEAN, born : Stamp]

NoRecord == [stamp |-> ZeroStamp, deleted |-> FALSE, born |-> ZeroStamp]

Entry == [id : Ids, record : Record]

CanvasMessage ==
       [kind : {"patch"}, from : Nodes, to : Nodes, epoch : Stamp, entries : SUBSET Entry]
  \cup [kind : {"digest"}, from : Nodes, to : Nodes, epoch : Stamp, document : [Ids -> Record]]
  \cup [kind : {"barrier"}, from : Nodes, to : Nodes, epoch : Stamp]

(* the ids a document holds a record of, tombstones included *)
Held(document) == {id \in Ids : document[id] # NoRecord}

EntriesOf(document) == {[id |-> id, record |-> document[id]] : id \in Held(document)}

(* one chunk carries a batch or a snapshot of up to SNAPSHOT_CHUNK_RECORDS,  *)
(* more than the documents here hold; nothing is sent for no records        *)
Patches(n, m, e, entries) ==
  IF entries = {} THEN {}
  ELSE {[kind |-> "patch", from |-> n, to |-> m, epoch |-> e, entries |-> entries]}

Barrier(n, m, e) == [kind |-> "barrier", from |-> n, to |-> m, epoch |-> e]

Digest(n, m) ==
  [kind |-> "digest", from |-> n, to |-> m, epoch |-> epoch[n], document |-> records[n]]

(* sync_files_canvas_to: the barrier, then the snapshot taken with it *)
FullDocument(n, m) ==
  {Barrier(n, m, epoch[n])} \cup Patches(n, m, epoch[n], EntriesOf(records[n]))

OnLink(net, n, m) == {msg \in net : msg.from = n /\ msg.to = m}

(* sending adds to the messages of a link, or fails when no more fit on it  *)
Post(rest, messages) ==
  canvasNet' = rest \cup {msg \in messages :
    Cardinality(OnLink(rest \cup messages, msg.from, msg.to)) <= MaxFlight}
-----------------------------------------------------------------------------
(* apply_local_batch, then the broadcast of exactly that batch.  The clock  *)
(* starts above every counter seen from any actor and above the epoch.      *)
Observed(n) == Highest({counters[n][a] : a \in Nodes} \cup {epoch[n].counter})

(* mutant: the whole batch is stamped alike                                 *)
Written_OneStamp(n, batch, i) ==
  [stamp   |-> [counter |-> Observed(n) + 1, actor |-> n],
   deleted |-> batch[i].deleted,
   born    |-> epoch[n]]

Written(n, batch, i) ==
  [stamp   |-> [counter |-> Observed(n) + i, actor |-> n],
   deleted |-> batch[i].deleted,
   born    |-> epoch[n]]

(* the records of a document, those of the entries in their place           *)
Overlaid(document, entries) ==
  [id \in Ids |-> IF \E x \in entries : x.id = id
                 THEN (CHOOSE x \in entries : x.id = id).record ELSE document[id]]

ApplyLocal(n, batch) ==
  LET entries == {[id |-> batch[i].id, record |-> Written(n, batch, i)] : i \in DOMAIN batch}
      touched == {x.id : x \in entries}
  IN  /\ edits < MaxEdits
      /\ Cardinality(Held(records[n]) \cup touched) <= MaxRecords
      /\ records' = [records EXCEPT ![n] = Overlaid(@, entries)]
      /\ counters' = [counters EXCEPT ![n][n] = Observed(n) + Cardinality(DOMAIN batch)]
      /\ Post(canvasNet, UNION {Patches(n, m, epoch[n], entries) : m \in Nodes \ {n}})
      /\ edits' = edits + 1
      /\ UNCHANGED <<managers, epoch, kept, purges, faults>>

(* purge_tombstones and its broadcast: a manager with a tombstone to purge  *)
(* moves to a new epoch, keeps the live records, and tells every device.    *)
NextEpoch(n) ==
  [counter |-> Highest({epoch[n].counter, counters[n][n]}) + 1, actor |-> n]

Living(document) ==
  [id \in Ids |-> IF document[id].deleted THEN NoRecord ELSE document[id]]

PurgeTombstones(n) ==
  LET e == NextEpoch(n)
      live == Living(records[n])
  IN  /\ n \in managers /\ purges < MaxPurges
      /\ \E id \in Ids : records[n][id].deleted
      /\ epoch' = [epoch EXCEPT ![n] = e]
      /\ counters' = [counters EXCEPT ![n][n] = e.counter]
      /\ records' = [records EXCEPT ![n] = live]
      /\ kept' = kept \cup {[epoch |-> e, id |-> id, stamp |-> live[id].stamp] : id \in Held(live)}
      /\ Post(canvasNet, UNION {{Barrier(n, m, e)} \cup Patches(n, m, e, EntriesOf(live))
                                  : m \in Nodes \ {n}})
      /\ purges' = purges + 1
      /\ UNCHANGED <<managers, edits, faults>>
-----------------------------------------------------------------------------
(* A presence frame of m reaches n.  A new boot or an unknown peer is sent  *)
(* the whole document, a known one a digest of it.  Bound: the frame comes  *)
(* when the two have nothing else in flight.                                *)
Idle(n, m) == OnLink(canvasNet, n, m) \cup OnLink(canvasNet, m, n) = {}

PresenceOfNewBoot(n, m) ==
  /\ n # m /\ Idle(n, m)
  /\ faults < MaxFaults /\ faults' = faults + 1
  /\ Post(canvasNet, FullDocument(n, m))
  /\ UNCHANGED <<managers, epoch, records, counters, kept, edits, purges>>

PresenceOfKnown(n, m) ==
  /\ n # m /\ Idle(n, m)
  /\ Post(canvasNet, {Digest(n, m)})
  /\ UNCHANGED <<managers, epoch, records, counters, kept, edits, purges, faults>>

(* merge_at_epoch with its caller: an older epoch is refused, a newer one   *)
(* needs a manager as the sender and clears the document first; then each   *)
(* record newer than the one held is taken, a new id only while there is    *)
(* room.  (The caller reads the epoch before it awaits the sender's role,   *)
(* the merge compares again under its lock, so one step is enough.)         *)
(* mutant: only the sender's role is looked at, not which epoch is older    *)
Refused_NonManager(m) == m.epoch # epoch[m.to] /\ m.from \notin managers

Refused(m) ==
  \/ StampLess(m.epoch, epoch[m.to])
  \/ StampLess(epoch[m.to], m.epoch) /\ m.from \notin managers

(* mutant: the patch that opens an epoch merges into the old document       *)
Base_Kept(m) == records[m.to]

Base(m) ==
  IF StampLess(epoch[m.to], m.epoch) THEN [id \in Ids |-> NoRecord] ELSE records[m.to]

Newer(base, entries) == {x \in entries : StampLess(base[x.id].stamp, x.record.stamp)}

(* mutant: tombstones take no room                                          *)
Room_Living(base) == MaxRecords - Cardinality({id \in Held(base) : ~base[id].deleted})

Room(base) == MaxRecords - Cardinality(Held(base))

MergeAtEpoch(m, rest) ==
  LET base == Base(m)
      newer == Newer(base, m.entries)
      fresh == {x \in newer : base[x.id] = NoRecord}
  IN  /\ ~Refused(m)
      /\ \E admitted \in SUBSET fresh :
           LET taken == admitted \cup (newer \ fresh)
               Seen(a) == {x.record.stamp.counter : x \in {y \in taken : y.record.stamp.actor = a}}
           IN  /\ Cardinality(admitted) = IF Cardinality(fresh) <= Room(base)
                                          THEN Cardinality(fresh) ELSE Room(base)
               /\ records' = [records EXCEPT ![m.to] = Overlaid(base, taken)]
               /\ counters' = [counters EXCEPT ![m.to] = [a \in Nodes |->
                      Highest({counters[m.to][a]} \cup Seen(a))]]
      /\ epoch' = [epoch EXCEPT ![m.to] = m.epoch]
      /\ canvasNet' = rest

ReceivePatch(m, rest) ==
  /\ m.kind = "patch"
  /\ \/ MergeAtEpoch(m, rest)
     \/ /\ Refused(m)
        /\ canvasNet' = rest
        /\ UNCHANGED <<epoch, records, counters>>
  /\ UNCHANGED <<managers, kept, edits, purges>>

(* apply_barrier: only a strictly newer epoch, from a manager, has effect   *)
ReceiveBarrier(m, rest) ==
  LET advances == StampLess(epoch[m.to], m.epoch) /\ m.from \in managers
  IN  /\ m.kind = "barrier"
      /\ epoch' = [epoch EXCEPT ![m.to] = IF advances THEN m.epoch ELSE @]
      /\ records' = [records EXCEPT ![m.to] = IF advances THEN [id \in Ids |-> NoRecord] ELSE @]
      /\ canvasNet' = rest
      /\ UNCHANGED <<managers, counters, kept, edits, purges>>

(* a digest that differs: answer with the snapshot if the sender is behind  *)
(* or level, ask back with a digest of our own if the sender is ahead       *)
(* mutant: the digest tells epochs apart, not documents of one epoch        *)
ReceiveDigest_Epochs(m, rest) ==
  /\ m.kind = "digest"
  /\ Post(rest, IF StampLess(m.epoch, epoch[m.to]) THEN FullDocument(m.to, m.from)
                ELSE IF StampLess(epoch[m.to], m.epoch) THEN {Digest(m.to, m.from)} ELSE {})
  /\ UNCHANGED <<managers, epoch, records, counters, kept, edits, purges>>

ReceiveDigest(m, rest) ==
  LET n == m.to
      behind == \/ StampLess(m.epoch, epoch[n])
                \/ m.epoch = epoch[n] /\ m.document # records[n]
      ahead == StampLess(epoch[n], m.epoch)
  IN  /\ m.kind = "digest"
      /\ Post(rest, IF behind THEN FullDocument(n, m.from)
                    ELSE IF ahead THEN {Digest(n, m.from)} ELSE {})
      /\ UNCHANGED <<managers, epoch, records, counters, kept, edits, purges>>

Receive(m, rest) ==
  \/ ReceivePatch(m, rest)
  \/ ReceiveBarrier(m, rest)
  \/ ReceiveDigest(m, rest)

Deliver(n, m) ==
  /\ \E msg \in OnLink(canvasNet, n, m) : Receive(msg, canvasNet \ {msg})
  /\ UNCHANGED faults

DeliverTwice ==
  /\ faults < MaxFaults /\ faults' = faults + 1
  /\ \E msg \in canvasNet : Receive(msg, canvasNet)

Lose ==
  /\ faults < MaxFaults /\ faults' = faults + 1
  /\ \E msg \in canvasNet : canvasNet' = canvasNet \ {msg}
  /\ UNCHANGED <<managers, epoch, records, counters, kept, edits, purges>>
-----------------------------------------------------------------------------
CanvasInit ==
  /\ epoch = [n \in Nodes |-> ZeroStamp]
  /\ records = [n \in Nodes |-> [id \in Ids |-> NoRecord]]
  /\ counters = [n \in Nodes |-> [a \in Nodes |-> 0]]
  /\ canvasNet = {}
  /\ managers \in Roles
  /\ kept = {}
  /\ edits = 0 /\ purges = 0 /\ faults = 0

CanvasNext ==
  \/ \E n \in Nodes, batch \in Batches : ApplyLocal(n, batch)
  \/ \E n \in Nodes : PurgeTombstones(n)
  \/ \E n, m \in Nodes : PresenceOfNewBoot(n, m) \/ PresenceOfKnown(n, m) \/ Deliver(n, m)
  \/ DeliverTwice
  \/ Lose

CanvasFairness ==
  \A n \in Nodes : \A m \in Nodes \ {n} :
    SF_canvasVars(PresenceOfKnown(n, m)) /\ WF_canvasVars(Deliver(n, m))

CanvasSpec == CanvasInit /\ [][CanvasNext]_canvasVars

CanvasFairSpec == CanvasSpec /\ CanvasFairness
-----------------------------------------------------------------------------
(* Every variable holds what its type says, and no document outgrows        *)
(* MAX_RECORDS, tombstones included, whatever a merge brings.               *)
CanvasTypeOK ==
  /\ epoch \in [Nodes -> Stamp]
  /\ records \in [Nodes -> [Ids -> Record]]
  /\ \A n \in Nodes : Cardinality(Held(records[n])) <= MaxRecords
  /\ counters \in [Nodes -> [Nodes -> Nat]]
  /\ canvasNet \subseteq CanvasMessage
  /\ managers \in Roles
  /\ kept \subseteq [epoch : Stamp, id : Ids, stamp : Stamp]
  /\ edits \in 0 .. MaxEdits /\ purges \in 0 .. MaxPurges /\ faults \in 0 .. MaxFaults

(* every copy of a record, in a document or in a patch in flight *)
Sent == {m \in canvasNet : m.kind = "patch"}

Copies ==
  (UNION {EntriesOf(records[n]) : n \in Nodes}) \cup (UNION {m.entries : m \in Sent})

(* A stamp names one record: two copies with the same stamp, wherever they  *)
(* are, are the same record.  Otherwise "equal-counter conflicts converge   *)
(* by actor id" (the module's doc) fails and two devices keep different     *)
(* records that neither takes from the other.                               *)
StampNamesOneRecord ==
  \A x, y \in Copies : x.record.stamp = y.record.stamp => x = y

(* After a purge no stale snapshot comes back: whatever a device holds in   *)
(* an epoch was kept by the purge that opened it, or written since.         *)
NothingFromBeforeThePurge ==
  \A n \in Nodes : \A id \in Held(records[n]) :
    \/ records[n][id].born = epoch[n]
    \/ [epoch |-> epoch[n], id |-> id, stamp |-> records[n][id].stamp] \in kept

(* A device's epoch never goes back, and within an epoch no record of it    *)
(* goes back to an older stamp, a deleted one included: neither a late      *)
(* patch nor its own edit (which must outrank what it replaces) nor a full  *)
(* document undoes what it has shown.                                       *)
DocumentNeverGoesBack ==
  [][\A n \in Nodes :
       \/ StampLess(epoch[n], epoch'[n])
       \/ /\ epoch'[n] = epoch[n]
          /\ \A id \in Ids : StampLeq(records[n][id].stamp, records'[n][id].stamp)]_canvasVars

Full(n) == Cardinality(Held(records[n])) = MaxRecords

(* Whatever was lost, duplicated or purged, the devices end up with one     *)
(* epoch and one document, unless a device is full and so refuses records   *)
(* that others hold.                                                        *)
CanvasConverges ==
  <>[](\/ \A n, m \in Nodes : epoch[n] = epoch[m] /\ records[n] = records[m]
       \/ \E n, m \in Nodes : Full(n) /\ ~(Held(records[m]) \subseteq Held(records[n])))
=============================================================================
