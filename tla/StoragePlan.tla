---------------------------- MODULE StoragePlan ----------------------------
(***************************************************************************)
(* The fleet storage plan (node/src/storage_plan.rs): a policy, the        *)
(* allocations of volumes and the roles of devices, replicated as last-    *)
(* writer-wins records in which an explicit allocation outranks the        *)
(* automatic starter of a device.  A manager may write and relay anything, *)
(* a member only what it wrote about itself.  The message handlers are     *)
(* those of node/src/mesh.rs, between releases that negotiate effective    *)
(* digests.  A record's contents are abstracted to its stamp.              *)
(***************************************************************************)
EXTENDS Stamps, FiniteSets

CONSTANTS Devices,         \* the devices of the fleet, as numbers
          Controllers,     \* the sets of devices that may be owners or controllers
          Volumes,         \* volumes each device has
          MaxAllocations,  \* MAX_ALLOCATIONS
          MaxIntents,      \* MAX_DEVICE_INTENTS
          MaxPlanEdits,    \* bound: local changes in a behaviour
          MaxPlanFaults,   \* bound: lost and duplicated messages, and reboots
          MaxPlanFlight    \* bound: messages in flight on a link

ASSUME PlanConstants ==
  /\ Devices \subseteq Nat \ {0} /\ IsFiniteSet(Devices) /\ IsFiniteSet(Volumes)
  /\ Controllers \subseteq SUBSET Devices
  /\ MaxAllocations \in Nat /\ MaxIntents \in Nat
  /\ MaxPlanEdits \in Nat /\ MaxPlanFaults \in Nat /\ MaxPlanFlight \in Nat

VARIABLES policy,        \* stamp of the PolicyRecord of each device
          allocations,   \* Persisted.allocations: id -> allocation or NoAllocation
          intents,       \* Persisted.device_intents: device -> stamp, ZeroStamp if none
          clocks,        \* Persisted.counters
          planNet,       \* messages in flight on CHANNEL_FLEET_STORAGE
          controllers,   \* the owners and controllers of the signed roster
          planEdits, planFaults

planVars == <<policy, allocations, intents, clocks, planNet, controllers, planEdits, planFaults>>
-----------------------------------------------------------------------------
AllocationId == [device : Devices, volume : Volumes]

Allocation == [stamp : Stamp, automatic : BOOLEAN]

NoAllocation == [stamp |-> ZeroStamp, automatic |-> TRUE]

AllocationEntry == [id : AllocationId, allocation : Allocation]

IntentEntry == [device : Devices, stamp : Stamp]

Allocated(plan) == {id \in AllocationId : plan[id] # NoAllocation}

Explicit(plan, device) ==
  \E id \in Allocated(plan) : id.device = device /\ ~plan[id].automatic

(* snapshot(): a starter is hidden once its device has an explicit choice   *)
Effective(plan) ==
  {id \in Allocated(plan) : plan[id].automatic => ~Explicit(plan, id.device)}

Entries(plan, ids) == {[id |-> id, allocation |-> plan[id]] : id \in ids}

Decided(n) == {d \in Devices : intents[n][d] # ZeroStamp}

Snapshot(n) ==
  [policy      |-> policy[n],
   allocations |-> Entries(allocations[n], Effective(allocations[n])),
   intents     |-> {[device |-> d, stamp |-> intents[n][d]] : d \in Decided(n)}]

Plan == [policy : Stamp, allocations : SUBSET AllocationEntry, intents : SUBSET IntentEntry]

NothingToSay == [policy |-> ZeroStamp, allocations |-> {}, intents |-> {}]

PlanMessage ==
  [kind : {"patch", "digest"}, from : Devices, to : Devices, plan : Plan]
  \cup [kind : {"request"}, from : Devices, to : Devices]

Patch(n, m, plan) == [kind |-> "patch", from |-> n, to |-> m, plan |-> plan]

(* sync_storage_plan_to: a manager sends its whole effective plan, a member *)
(* what it wrote about itself, and nothing if that is nothing               *)
Sync(n, m) ==
  LET s == Snapshot(n)
      own == [policy      |-> ZeroStamp,
              allocations |-> {x \in s.allocations :
                                 x.id.device = n /\ x.allocation.stamp.actor = n},
              intents     |-> {x \in s.intents : x.device = n /\ x.stamp.actor = n}]
  IN  IF n \in controllers THEN {Patch(n, m, s)}
      ELSE IF own = NothingToSay THEN {} ELSE {Patch(n, m, own)}

EffectiveDigest(n, m) == [kind |-> "digest", from |-> n, to |-> m, plan |-> Snapshot(n)]

SyncRequest(n, m) == [kind |-> "request", from |-> n, to |-> m]

Between(net, n, m) == {msg \in net : msg.from = n /\ msg.to = m}

(* sending adds to the messages of a link, or fails when no more fit on it  *)
Send(rest, messages) ==
  planNet' = rest \cup {msg \in messages :
    Cardinality(Between(rest \cup messages, msg.from, msg.to)) <= MaxPlanFlight}

Broadcast(n, plan) == Send(planNet, {Patch(n, m, plan) : m \in Devices \ {n}})
-----------------------------------------------------------------------------
(* next_stamp: above every record of the plan and every stamp of its own    *)
NextStamp(n) ==
  [counter |-> Highest({clocks[n][n], policy[n].counter}
                       \cup {allocations[n][id].stamp.counter : id \in AllocationId}
                       \cup {intents[n][d].counter : d \in Devices}) + 1,
   actor   |-> n]

Edit(n) ==
  /\ planEdits < MaxPlanEdits /\ planEdits' = planEdits + 1
  /\ clocks' = [clocks EXCEPT ![n][n] = NextStamp(n).counter]
  /\ UNCHANGED <<controllers, planFaults>>

SetPolicy(n) ==
  /\ n \in controllers
  /\ Edit(n)
  /\ policy' = [policy EXCEPT ![n] = NextStamp(n)]
  /\ Broadcast(n, [NothingToSay EXCEPT !.policy = NextStamp(n)])
  /\ UNCHANGED <<allocations, intents>>

PutAllocation(n, id, automatic) ==
  LET a == [stamp |-> NextStamp(n), automatic |-> automatic] IN
  /\ Edit(n)
  /\ allocations' = [allocations EXCEPT ![n][id] = a]
  /\ Broadcast(n, [NothingToSay EXCEPT !.allocations = {[id |-> id, allocation |-> a]}])
  /\ UNCHANGED <<policy, intents>>

(* ensure_default_allocation: a device with no allocation at all, hidden or *)
(* disabled ones included, contributes one volume                           *)
EnsureDefaultAllocation(n, volume) ==
  /\ \A id \in Allocated(allocations[n]) : id.device # n
  /\ Cardinality(Allocated(allocations[n])) < MaxAllocations
  /\ PutAllocation(n, [device |-> n, volume |-> volume], TRUE)

SetAllocation(n, id) ==
  /\ id.device = n \/ n \in controllers
  /\ id \in Allocated(allocations[n]) \/ Cardinality(Allocated(allocations[n])) < MaxAllocations
  /\ PutAllocation(n, id, FALSE)

SetDeviceIntent(n, device) ==
  /\ device = n \/ n \in controllers
  /\ device \in Decided(n) \/ Cardinality(Decided(n)) < MaxIntents
  /\ Edit(n)
  /\ intents' = [intents EXCEPT ![n][device] = NextStamp(n)]
  /\ Broadcast(n, [NothingToSay EXCEPT
                     !.intents = {[device |-> device, stamp |-> NextStamp(n)]}])
  /\ UNCHANGED <<policy, allocations>>
-----------------------------------------------------------------------------
(* merge: an explicit allocation replaces an automatic one and is never     *)
(* replaced by one, whatever the stamps; between equals the newer wins      *)
(* mutant: last writer wins, the starter against the choice too             *)
Outranks_Stamp(a, b) == b = NoAllocation \/ StampLess(b.stamp, a.stamp)

Outranks(a, b) ==
  \/ b = NoAllocation
  \/ ~a.automatic /\ b.automatic
  \/ a.automatic = b.automatic /\ StampLess(b.stamp, a.stamp)

(* mutant: the cap is compared with <= where the code has <                 *)
Fits_OneTooMany(fresh, room) ==
  IF Cardinality(fresh) <= room + 1 THEN Cardinality(fresh) ELSE room + 1

Fits(fresh, room) == IF Cardinality(fresh) <= room THEN Cardinality(fresh) ELSE room

(* what m.to takes of a patch: new ids only while there is room             *)
TakesAllocations(m, taken) ==
  LET held == allocations[m.to]
      authorized == {x \in m.plan.allocations :
                       \/ m.from \in controllers
                       \/ x.id.device = m.from /\ x.allocation.stamp.actor = m.from}
      newer == {x \in authorized : Outranks(x.allocation, held[x.id])}
      fresh == {x \in newer : held[x.id] = NoAllocation}
  IN  /\ newer \ fresh \subseteq taken
      /\ Cardinality(taken \cap fresh)
           = Fits(fresh, MaxAllocations - Cardinality(Allocated(held)))
      /\ taken \subseteq newer

TakesIntents(m, taken) ==
  LET held == intents[m.to]
      authorized == {x \in m.plan.intents :
                       m.from \in controllers \/ (x.device = m.from /\ x.stamp.actor = m.from)}
      newer == {x \in authorized : StampLess(held[x.device], x.stamp)}
      fresh == {x \in newer : held[x.device] = ZeroStamp}
  IN  /\ newer \ fresh \subseteq taken
      /\ Cardinality(taken \cap fresh) = Fits(fresh, MaxIntents - Cardinality(Decided(m.to)))
      /\ taken \subseteq newer

Seen(stamps, a) == {s.counter : s \in {t \in stamps : t.actor = a}}

Merge(m, rest) ==
  /\ m.kind = "patch"
  /\ \E as \in SUBSET m.plan.allocations, is \in SUBSET m.plan.intents :
    LET stamps == {x.allocation.stamp : x \in as} \cup {x.stamp : x \in is} IN
    /\ TakesAllocations(m, as) /\ TakesIntents(m, is)
    /\ policy' = [policy EXCEPT ![m.to] =
         IF m.from \in controllers /\ StampLess(@, m.plan.policy) THEN m.plan.policy ELSE @]
    /\ allocations' = [allocations EXCEPT ![m.to] = [id \in AllocationId |->
         IF \E x \in as : x.id = id
         THEN (CHOOSE x \in as : x.id = id).allocation ELSE @[id]]]
    /\ intents' = [intents EXCEPT ![m.to] = [d \in Devices |->
         IF \E x \in is : x.device = d
         THEN (CHOOSE x \in is : x.device = d).stamp ELSE @[d]]]
    /\ clocks' = [clocks EXCEPT ![m.to] = [a \in Devices |-> Highest({@[a]} \cup Seen(stamps, a))]]
    /\ planNet' = rest
    /\ UNCHANGED <<controllers, planEdits>>

(* reconcile_storage_digest: on a difference a manager, and a member facing *)
(* a member, sends its side; a member facing a manager asks for the other   *)
(* mutant: the digest covers the policy and the allocations only            *)
ReconcileDigest_NoIntents(m, rest) ==
  LET n == m.to IN
  /\ m.kind = "digest"
  /\ Send(rest, IF [m.plan EXCEPT !.intents = {}] = [Snapshot(n) EXCEPT !.intents = {}] THEN {}
                ELSE IF n \in controllers \/ m.from \notin controllers THEN Sync(n, m.from)
                ELSE {SyncRequest(n, m.from)})
  /\ UNCHANGED <<policy, allocations, intents, clocks, controllers, planEdits>>

ReconcileDigest(m, rest) ==
  LET n == m.to IN
  /\ m.kind = "digest"
  /\ Send(rest, IF m.plan = Snapshot(n) THEN {}
                ELSE IF n \in controllers \/ m.from \notin controllers THEN Sync(n, m.from)
                ELSE {SyncRequest(n, m.from)})
  /\ UNCHANGED <<policy, allocations, intents, clocks, controllers, planEdits>>

AnswerRequest(m, rest) ==
  /\ m.kind = "request"
  /\ Send(rest, Sync(m.to, m.from))
  /\ UNCHANGED <<policy, allocations, intents, clocks, controllers, planEdits>>

Handle(m, rest) ==
  \/ Merge(m, rest)
  \/ ReconcileDigest(m, rest)
  \/ AnswerRequest(m, rest)

DeliverPlan(n, m) ==
  /\ \E msg \in Between(planNet, n, m) : Handle(msg, planNet \ {msg})
  /\ UNCHANGED planFaults

DeliverPlanTwice ==
  /\ planFaults < MaxPlanFaults /\ planFaults' = planFaults + 1
  /\ \E msg \in planNet : Handle(msg, planNet)

LosePlan ==
  /\ planFaults < MaxPlanFaults /\ planFaults' = planFaults + 1
  /\ \E msg \in planNet : planNet' = planNet \ {msg}
  /\ UNCHANGED <<policy, allocations, intents, clocks, controllers, planEdits>>

(* A presence frame of m reaches n: a new boot or an unknown peer is sent   *)
(* the plan, a known one a digest.  Bound: the two have nothing in flight.  *)
Quiet(n, m) == n # m /\ Between(planNet, n, m) \cup Between(planNet, m, n) = {}

PlanPresenceOfNewBoot(n, m) ==
  /\ Quiet(n, m)
  /\ planFaults < MaxPlanFaults /\ planFaults' = planFaults + 1
  /\ Send(planNet, Sync(n, m))
  /\ UNCHANGED <<policy, allocations, intents, clocks, controllers, planEdits>>

PlanPresenceOfKnown(n, m) ==
  /\ Quiet(n, m)
  /\ Send(planNet, {EffectiveDigest(n, m)})
  /\ UNCHANGED <<policy, allocations, intents, clocks, controllers, planEdits, planFaults>>
-----------------------------------------------------------------------------
PlanInit ==
  /\ policy = [n \in Devices |-> ZeroStamp]
  /\ allocations = [n \in Devices |-> [id \in AllocationId |-> NoAllocation]]
  /\ intents = [n \in Devices |-> [d \in Devices |-> ZeroStamp]]
  /\ clocks = [n \in Devices |-> [a \in Devices |-> 0]]
  /\ planNet = {}
  /\ controllers \in Controllers
  /\ planEdits = 0 /\ planFaults = 0

PlanNext ==
  \/ \E n \in Devices : SetPolicy(n)
  \/ \E n \in Devices, volume \in Volumes : EnsureDefaultAllocation(n, volume)
  \/ \E n \in Devices, id \in AllocationId : SetAllocation(n, id)
  \/ \E n, device \in Devices : SetDeviceIntent(n, device)
  \/ \E n, m \in Devices :
       PlanPresenceOfNewBoot(n, m) \/ PlanPresenceOfKnown(n, m) \/ DeliverPlan(n, m)
  \/ DeliverPlanTwice
  \/ LosePlan

PlanFairness ==
  \A n \in Devices : \A m \in Devices \ {n} :
    SF_planVars(PlanPresenceOfKnown(n, m)) /\ WF_planVars(DeliverPlan(n, m))

PlanSpec == PlanInit /\ [][PlanNext]_planVars

PlanFairSpec == PlanSpec /\ PlanFairness
-----------------------------------------------------------------------------
(* Every variable holds what its type says, and no plan outgrows its caps,  *)
(* whatever a merge brings.                                                 *)
PlanTypeOK ==
  /\ policy \in [Devices -> Stamp]
  /\ allocations \in [Devices -> [AllocationId -> Allocation]]
  /\ intents \in [Devices -> [Devices -> Stamp]]
  /\ \A n \in Devices : /\ Cardinality(Allocated(allocations[n])) <= MaxAllocations
                         /\ Cardinality(Decided(n)) <= MaxIntents
  /\ clocks \in [Devices -> [Devices -> Nat]]
  /\ planNet \subseteq PlanMessage
  /\ controllers \in Controllers
  /\ planEdits \in 0 .. MaxPlanEdits /\ planFaults \in 0 .. MaxPlanFaults

(* An explicit choice stands: once a device's plan holds an explicit        *)
(* allocation of a volume it is never automatic again, nor replaced by an   *)
(* older explicit one, in whatever order the starter of the device and the  *)
(* choice of a manager who had not seen it arrive.                          *)
ExplicitChoiceStands ==
  [][\A n \in Devices : \A id \in AllocationId :
       ~allocations[n][id].automatic =>
         /\ ~allocations'[n][id].automatic
         /\ StampLeq(allocations[n][id].stamp, allocations'[n][id].stamp)]_planVars

RoomForAllocation(n, id) ==
  id \in Allocated(allocations[n]) \/ Cardinality(Allocated(allocations[n])) < MaxAllocations

RoomForIntent(n, device) == device \in Decided(n) \/ Cardinality(Decided(n)) < MaxIntents

(* what m's effective plan says that n has room for and has yet to take     *)
Owed(n, m) ==
  \/ StampLess(policy[n], policy[m])
  \/ \E id \in Effective(allocations[m]) :
       RoomForAllocation(n, id) /\ Outranks(allocations[m][id], allocations[n][id])
  \/ \E d \in Decided(m) : RoomForIntent(n, d) /\ StampLess(intents[n][d], intents[m][d])

(* Whatever was lost or reordered, what a manager's plan says is taken in   *)
(* the end by every device: the presence probes heal a lost patch of a      *)
(* manager.                                                                 *)
ManagersPlanReachesAll ==
  <>[](\A m \in controllers : \A n \in Devices : ~Owed(n, m))

=============================================================================
