------------------------------ MODULE MCSupport ------------------------------
(***************************************************************************)
(* A technician at a customer's machine: whether he may be there           *)
(* (CecConsent), and the keys he presses there (RemoteInput).  Consent and *)
(* keys meet only where a route begins and ends, which RemoteInput does as *)
(* it likes.  So a behaviour here is one of a single `subject', the other  *)
(* keeps its first state.                                                  *)
(***************************************************************************)
EXTENDS MCCecConsent, RemoteInput

CONSTANTS shift, desk1, desk2

VARIABLE subject   \* which of the two this behaviour is about

supportVars == <<vars, inputVars, subject>>

OnConsent(A) == subject = "consent" /\ A /\ UNCHANGED <<inputVars, subject>>
OnInput(A)   == subject = "input" /\ A /\ UNCHANGED <<vars, subject>>

SupportInit ==
    /\ Init /\ InputInit
    /\ subject = "input" \/ (subject = "consent" /\ backend = "native")

SupportNext == OnConsent(Next) \/ OnInput(InputNext)

SupportSpec == SupportInit /\ [][SupportNext]_supportVars

\* Alice's two dials are alike.
Alike == Permutations({a1, a2})

\* Grants, requests and sessions, and leases, queues and trackers, have only the shapes their
\* code makes.
SupportTypeOK == TypeOK /\ InputTypeOK
=============================================================================
