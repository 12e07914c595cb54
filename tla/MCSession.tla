------------------------------ MODULE MCSession ------------------------------
(***************************************************************************)
(* What one machine keeps for itself: its route table (Session) on three   *)
(* routes and a peer known under two spellings of its id, the record of a  *)
(* file transfer (Transfer), the shells it hosts (Terminal) and the        *)
(* releases of its own binaries (Updater).  The four share no state, so    *)
(* that a behaviour here is one of a single `subject'.                     *)
(***************************************************************************)
EXTENDS Session, Transfer, Terminal, Updater, TLC

CONSTANTS r1, r2, r3, bare, suffixed, v1, v2

MCRoutes  == {r1, r2, r3}
MCNodeIds == {bare, suffixed}
MCCanon   == [p \in MCNodeIds |-> bare]
MCViewers == {v1, v2}

\* Routes are interchangeable: no definition tells one id from another.
RouteSymmetry == Permutations(MCRoutes) \cup Permutations(MCViewers)

VARIABLE subject   \* which of the four this behaviour is about

hostVars == <<vars, transferVars, termVars, updaterVars, subject>>

OnRoutes(A) ==
    subject = "routes" /\ A /\ UNCHANGED <<transferVars, termVars, updaterVars, subject>>

OnTransfer(A) ==
    subject = "transfer" /\ A /\ UNCHANGED <<vars, termVars, updaterVars, subject>>

OnTerminal(A) ==
    subject = "terminal" /\ A /\ UNCHANGED <<vars, transferVars, updaterVars, subject>>

OnHalves(A) ==
    subject = "halves" /\ A /\ UNCHANGED <<vars, transferVars, termVars, subject>>

\* A window that finds the whole suite, beside a command line that finds it too or only itself.
MCReaches ==
    {[h \in Halves |-> IF h = Window THEN Halves ELSE found] : found \in {{2}, Halves}}

HostInit ==
    /\ Init /\ TransferInit /\ TermInit /\ UpdaterInit
    /\ \/ subject = "halves"
       \/ /\ subject \in {"routes", "transfer", "terminal"}
          /\ reach = [h \in Halves |-> Halves] /\ latest = 1

HostNext ==
    OnRoutes(Next) \/ OnTransfer(TransferNext) \/ OnTerminal(TermNext) \/ OnHalves(UpdaterNext)

HostSpec == HostInit /\ [][HostNext]_hostVars

\* The route table and its history in the order it was made, the log's record and the staging
\* folder, the shells and the locks between which an operation on them stands, the manifest
\* and what a half is about, have only the shapes their code makes.
HostTypeOK == TypeOK /\ OrderMatchesTable /\ TransferTypeOK /\ TermTypeOK /\ UpdaterTypeOK
=============================================================================
