----------------------------- MODULE SupportDial -----------------------------
(***************************************************************************)
(* A support technician who dials a customer, and the customer's answers   *)
(* on the wire: cec_dial_node with its task, cec_cancel_dial, the Request, *)
(* Approve, Deny and End of handle_cec_control, and the spawned approval   *)
(* (node/src/mesh.rs, node/src/cec.rs).  What a grant is worth and how the *)
(* customer's store keeps it is CecConsent's matter; here a technician     *)
(* holds none, one for a session, or a standing one.                       *)
(*                                                                         *)
(* The daemon loses and reorders; what may come twice was sent twice.  An  *)
(* acknowledged send waits for the other node to take the frame, and may   *)
(* be told of a failure though it was taken.  A plain answer to a repeated *)
(* Request is heard at once or never: the answers that come late are the   *)
(* acknowledged ones.                                                      *)
(***************************************************************************)
EXTENDS Naturals, FiniteSets

CONSTANTS Dials,      \* dials to this customer, numbered in the order they are made
          OnWire      \* bound: messages on their way at once; one more pushes another out

ASSUME DialAssumption == Dials \subseteq Nat \ {0} /\ OnWire \in Nat

VARIABLES task,       \* [Dials -> step]: cec_dial_node and the task it spawns
          state,      \* [Dials -> state]: sessions at the technician
          stopped,    \* the dials whose task has its cancellation flag up
          verdict,    \* [Dials -> state]: sessions at the customer
          waiting,    \* the dial in the customer's pending list, or 0
          standing,   \* does a standing grant cover the technician?
          ready,      \* kvm_support_ready: dials whose KVMs are announced
          wire        \* the messages on their way

dialVars == <<task, state, stopped, verdict, waiting, standing, ready, wire>>

technician == <<task, state, stopped>>
customer   == <<verdict, waiting, standing, ready>>

Kinds == {"request", "approve", "deny", "end"}

Running == {"linking", "offer", "beat"}

Word(kind, d) == [kind |-> kind, dial |-> d]

DialTypeOK ==
    /\ task \in [Dials -> {"none", "linking", "offer", "beat", "over"}]
    /\ state \in [Dials -> {"none", "requested", "active", "denied", "ended"}]
    /\ stopped \subseteq {d \in Dials : task[d] \in Running}
    /\ verdict \in [Dials -> {"none", "active", "denied", "ended"}]
    /\ waiting \in Dials \cup {0} /\ standing \in BOOLEAN
    /\ ready \subseteq {d \in Dials : verdict[d] = "active"}
    /\ wire \subseteq [kind : Kinds, dial : Dials] /\ Cardinality(wire) <= OnWire

DialInit ==
    /\ task = [d \in Dials |-> "none"] /\ state = [d \in Dials |-> "none"]
    /\ stopped = {}
    /\ verdict = [d \in Dials |-> "none"] /\ waiting = 0 /\ standing = FALSE
    /\ ready = {} /\ wire = {}

\* `m' is sent; of too many messages another one is lost.
Posted(held, m) ==
    wire' \in IF Cardinality(held \cup {m}) <= OnWire THEN {held \cup {m}}
             ELSE {(held \ {x}) \cup {m} : x \in held}

Post(m) == Posted(wire, m)

-----------------------------------------------------------------------------
(* The technician.                                                                       *)

\* cec_dial_node up to the request to connect.
Dial(d) ==
    /\ task[d] = "none" /\ \A e \in Dials : e < d => task[e] # "none"
    /\ task' = [task EXCEPT ![d] = "linking"]
    /\ UNCHANGED <<state, stopped, customer, wire>>

\* The daemon's answer: the session is recorded and the task spawned, or the dial fails.
Linked(d, ok) ==
    /\ task[d] = "linking"
    /\ task' = [task EXCEPT ![d] = IF ok THEN "offer" ELSE "over"]
    /\ state' = IF ok THEN [state EXCEPT ![d] = "requested"] ELSE state
    /\ stopped' = IF ok THEN stopped ELSE stopped \ {d}
    /\ UNCHANGED <<customer, wire>>

\* cec_cancel_dial.  begin_dial has replaced the flag of every dial but the last.
CancelDial(d) ==
    /\ task[d] \in Running /\ \A e \in Dials : e > d => task[e] = "none"
    /\ stopped' = stopped \cup {d}
    /\ UNCHANGED <<task, state, customer, wire>>

GoesOn(d) == state[d] = "requested" /\ d \notin stopped

\* The Request, under acknowledgement until one attempt is acknowledged, then once every
\* CEC_CONNECT_HEARTBEAT, for an answer that was lost.
SendRequest(d) ==
    /\ task[d] \in {"offer", "beat"} /\ GoesOn(d)
    /\ Post(Word("request", d))
    /\ UNCHANGED <<technician, customer>>

\* The loops are left: the session is resolved, the dial cancelled, or CEC_CONNECT_TTL is
\* over before any attempt was delivered.  Only a session that still waits is ended, and
\* only a cancellation is told to the customer.
GiveUp(d) ==
    /\ task[d] \in {"offer", "beat"} /\ (task[d] = "beat" => ~GoesOn(d))
    /\ task' = [task EXCEPT ![d] = "over"]
    /\ IF state[d] = "requested"
       THEN /\ state' = [state EXCEPT ![d] = "ended"]
            /\ IF d \in stopped THEN Post(Word("end", d)) ELSE UNCHANGED wire
       ELSE UNCHANGED <<state, wire>>
    /\ stopped' = stopped \ {d}
    /\ UNCHANGED <<customer>>

TechnicianRestarts ==
    /\ task' = [d \in Dials |-> IF task[d] = "none" THEN "none" ELSE "over"]
    /\ state' = [d \in Dials |-> "none"]
    /\ stopped' = {}
    /\ UNCHANGED <<customer, wire>>

-----------------------------------------------------------------------------
(* The customer.                                                                         *)

\* mutant: the KVMs are announced with the local approval.
Approves_AtOnce(d, held, others) ==
    /\ Posted(held, Word("approve", d)) /\ ready' = others \cup {d}

\* cec_send_approval; `others' are the sessions whose KVMs stay announced.
Approves(d, held, others) == Posted(held, Word("approve", d)) /\ ready' = others

\* cec_approve, or the armed window, for the request in the list.
ApproveDial(d, stands) ==
    /\ waiting = d /\ verdict[d] \notin {"denied", "ended"}
    /\ verdict' = [verdict EXCEPT ![d] = "active"]
    /\ waiting' = 0 /\ standing' = stands
    /\ Approves(d, wire, ready)
    /\ UNCHANGED <<technician>>

\* cec_deny.
DenyDial(d) ==
    /\ waiting = d
    /\ verdict' = [verdict EXCEPT ![d] = "denied"] /\ waiting' = 0
    /\ Post(Word("deny", d))
    /\ UNCHANGED <<technician, standing, ready>>

\* A standing grant lapses; cec_revoke drops the request too.
Lapse(revoked) ==
    /\ standing' = FALSE
    /\ waiting' = IF revoked THEN 0 ELSE waiting
    /\ UNCHANGED <<technician, verdict, ready, wire>>

\* end_sessions_for: the consent sweep ends what the technician has.
SweepDials ==
    /\ verdict' = [d \in Dials |-> IF verdict[d] = "active" THEN "none" ELSE verdict[d]]
    /\ ready' = {}
    /\ UNCHANGED <<technician, waiting, standing, wire>>

\* Sessions and requests are in memory; a standing grant is in the file.
CustomerRestarts ==
    /\ verdict' = [d \in Dials |-> "none"] /\ waiting' = 0
    /\ ready' = {}
    /\ UNCHANGED <<technician, standing, wire>>

-----------------------------------------------------------------------------
(* handle_cec_control.  The sender of an acknowledged message is `told' that it was      *)
(* taken, or not.                                                                        *)

Left(m) == wire \ {m}

\* mutant: a request is put to the customer though its dial is over.
Prompts_Anew(d) == verdict[d] # "active"

\* record_or_approve_armed admits it.
Prompts(d) == verdict[d] \notin {"active", "denied", "ended"}

\* mutant: once the customer's node took the Request, its answer is waited for.
Delivered_Trusting(d, told) == IF told /\ task[d] = "offer" THEN [task EXCEPT ![d] = "over"] ELSE task

\* The attempt succeeded, and the heartbeat begins.
Delivered(d, told) == IF told /\ task[d] = "offer" THEN [task EXCEPT ![d] = "beat"] ELSE task

\* accept_session_approval.
AcceptApproval(d) == IF state[d] = "requested" THEN [state EXCEPT ![d] = "active"] ELSE state

\* A Request: decided already, it is answered again, and the answer is `heard' or not; a
\* standing grant answers for the customer and ends the other sessions; else the customer
\* is asked.
TakeRequest(d, told, heard) ==
    LET rest  == Left(Word("request", d))
        stale == {e \in Dials \ {d} : verdict[e] = "active"}
    IN /\ Word("request", d) \in wire
       /\ task' = Delivered(d, told)
       /\ \/ /\ verdict[d] \in {"active", "denied"}
             /\ state' = IF ~heard THEN state
                         ELSE IF verdict[d] = "active" THEN AcceptApproval(d)
                         ELSE [state EXCEPT ![d] = "denied"]
             /\ wire' = rest /\ UNCHANGED customer
          \/ /\ verdict[d] \in {"none", "ended"} /\ standing /\ ~heard
             /\ verdict' = [e \in Dials |-> IF e = d THEN "active"
                                             ELSE IF e \in stale THEN "ended" ELSE verdict[e]]
             /\ Approves(d, rest, ready \ stale)
             /\ UNCHANGED <<state, waiting, standing>>
          \/ /\ verdict[d] \in {"none", "ended"} /\ ~standing /\ ~heard
             /\ waiting' = IF Prompts(d) THEN d ELSE waiting
             /\ wire' = rest
             /\ UNCHANGED <<state, verdict, standing, ready>>
       /\ UNCHANGED stopped

\* End: set_session to ended.
TakeEnd(d) ==
    /\ Word("end", d) \in wire /\ wire' = Left(Word("end", d))
    /\ verdict' = [verdict EXCEPT ![d] = "ended"]
    /\ waiting' = IF waiting = d THEN 0 ELSE waiting
    /\ ready' = ready \ {d}
    /\ UNCHANGED <<technician, standing>>

\* Approve, and mark_kvm_support_ready at the customer who is told.
TakeApprove(d, told) ==
    /\ Word("approve", d) \in wire /\ wire' = Left(Word("approve", d))
    /\ state' = AcceptApproval(d)
    /\ ready' = IF told /\ verdict[d] = "active" THEN ready \cup {d} ELSE ready
    /\ UNCHANGED <<task, stopped, verdict, waiting, standing>>

\* Deny: set_session to denied.
TakeDeny(d) ==
    /\ Word("deny", d) \in wire /\ wire' = Left(Word("deny", d))
    /\ state' = [state EXCEPT ![d] = "denied"]
    /\ UNCHANGED <<task, stopped, customer>>

LoseWord(m) == m \in wire /\ wire' = wire \ {m} /\ UNCHANGED <<technician, customer>>

-----------------------------------------------------------------------------
Technician(d) == SendRequest(d) \/ GiveUp(d)

Decides(d) == DenyDial(d) \/ \E stands \in BOOLEAN : ApproveDial(d, stands)

RequestTaken(d, heard) == \E told \in BOOLEAN : TakeRequest(d, told, heard)

ApproveTaken(d) == \E told \in BOOLEAN : TakeApprove(d, told)

DialNext ==
    \/ \E d \in Dials : \/ Dial(d) \/ CancelDial(d) \/ (\E ok \in BOOLEAN : Linked(d, ok))
                        \/ Technician(d) \/ Decides(d) \/ TakeDeny(d) \/ TakeEnd(d)
                        \/ ApproveTaken(d) \/ \E heard \in BOOLEAN : RequestTaken(d, heard)
    \/ TechnicianRestarts \/ CustomerRestarts \/ SweepDials
    \/ \E revoked \in BOOLEAN : Lapse(revoked)
    \/ \E m \in wire : LoseWord(m)

DialSpec == DialInit /\ [][DialNext]_dialVars

-----------------------------------------------------------------------------
(* Properties. *)

\* What waits for the customer is undecided: while the customer's session of a dial says that
\* it is approved, denied or ended, no Request puts the dial into the list again, however late
\* or often it comes (record_or_approve_armed).  It says nothing of a dial whose session the
\* customer has lost: where the End of a cancellation was lost, or after a restart or a sweep
\* of the customer, a Request that comes late is put to the customer.
OnlyOpenDialsWait == waiting # 0 => verdict[waiting] = "none"

\* A KVM is announced only to a technician whose dial is no longer waiting, who can tell
\* by the session that the announcement is meant (cec_send_approval: "Deliver Approve,
\* then and only then open the attached-KVM renewal gate").
KvmAwaitsTechnician == \A d \in ready : state[d] # "requested"

\* A dial that waits has a task that asks again or ends it: no lost answer, cancellation,
\* timeout or restart leaves a technician waiting for nobody (the loops of cec_dial_node:
\* "until this side has actually observed Approve, Deny, or End").
WaitingDialIsDriven == \A d \in Dials : state[d] = "requested" => task[d] \in {"offer", "beat"}
=============================================================================
