------------------------------- MODULE MCFleet -------------------------------
(***************************************************************************)
(* A small fleet and the four things its devices keep in step: who owns    *)
(* whom, the Files canvas, the storage plan and the Fleetfiles ledger.     *)
(* They share the roster and travel on channels of their own, so that a    *)
(* behaviour here is one of a single `subject`; the other three keep their *)
(* first states, and canvas and plan have the same managers.               *)
(***************************************************************************)
EXTENDS Ownership, Canvas, StoragePlan, FleetFiles

VARIABLE subject   \* which of the four this behaviour is about

fleetVars == <<ownershipVars, canvasVars, planVars, filesVars, subject>>

live(id) == [id |-> id, deleted |-> FALSE]

gone(id) == [id |-> id, deleted |-> TRUE]

MCBatches == {<<live(1)>>, <<live(3)>>, <<live(2), gone(1)>>}

OnOwnership(A) ==
  subject = "ownership" /\ A /\ UNCHANGED <<canvasVars, planVars, filesVars, subject>>

OnCanvas(A) ==
  subject = "canvas" /\ A /\ UNCHANGED <<ownershipVars, planVars, filesVars, subject>>

OnPlan(A) ==
  subject = "plan" /\ A /\ UNCHANGED <<ownershipVars, canvasVars, filesVars, subject>>

OnFiles(A) ==
  subject = "files" /\ A /\ UNCHANGED <<ownershipVars, canvasVars, planVars, subject>>

FleetInit ==
  /\ OwnershipInit /\ CanvasInit /\ PlanInit /\ FilesInit
  /\ controllers = managers
  /\ \/ subject \in {"canvas", "plan"}
     \/ subject \in {"ownership", "files"} /\ managers = Nodes

FleetNext ==
  \/ OnOwnership(OwnershipNext)
  \/ OnCanvas(CanvasNext)
  \/ OnPlan(PlanNext)
  \/ OnFiles(FilesNext)

(* The fairness of the subject at hand, which is one and the same for ever, *)
(* weaker than each module's own: of the messages between two devices one   *)
(* is delivered in the end, in one direction or the other.                  *)
PresenceReaches(n, m) ==
  \/ {n, m} \subseteq Nodes /\ OnCanvas(PresenceOfKnown(n, m))
  \/ {n, m} \subseteq Devices /\ OnPlan(PlanPresenceOfKnown(n, m))

DeliverNext(n, m) ==
  \/ {n, m} \subseteq Nodes /\ OnCanvas(Deliver(n, m))
  \/ {n, m} \subseteq Devices /\ OnPlan(DeliverPlan(n, m))

FleetFairness ==
  /\ \A n \in Nodes \cup Devices : \A m \in (Nodes \cup Devices) \ {n} :
       /\ SF_fleetVars(PresenceReaches(n, m))
       /\ n < m => WF_fleetVars(DeliverNext(n, m) \/ DeliverNext(m, n))
  /\ \A n \in Members :
       /\ WF_fleetVars(OnFiles(Capture(n))) /\ WF_fleetVars(OnFiles(Finish(n)))
       /\ \A m \in Members \ {n} : WF_fleetVars(OnFiles(Drain(n, m)))

FleetSpec == FleetInit /\ [][FleetNext]_fleetVars /\ FleetFairness

(* The four stores hold what their code can write: the claim mode and the   *)
(* keys, documents within the record limit, allocations within theirs, and  *)
(* no more bodies in a store than its quota admits.                         *)
FleetTypeOK == OwnershipTypeOK /\ CanvasTypeOK /\ PlanTypeOK /\ FilesTypeOK
=============================================================================
